-------------------------- MODULE CUdpSessionProofs --------------------------
(* For any messages, network, window, buffers and limits, with a Python peer *)
(* or a device in C: the state keeps its type, and no fragment is delivered  *)
(* twice.  The argument: a fragment is sealed once, so one frame carries it; *)
(* once a peer has taken it, that frame is dead for the peer, because its    *)
(* sequence is refused under its keys and those keys never come back.        *)
(* Uninterrupted, and with rotations that are safe, no confirmed message is  *)
(* lost and the session is a channel: the frames that a receiver can still   *)
(* accept are the rest of its peer's stream, and it accepts the least first. *)
EXTENDS CUdpSessionInvariant, FiniteSetTheorems, TLAPS

-----------------------------------------------------------------------------
(* The window                                                                *)

(* What the window has refused once it refuses for ever.                     *)
LEMMA RefusedForEver ==
    ASSUME NEW rx \in Nat, NEW bm \in SUBSET Bits, NEW s \in Nat, NEW t \in Nat,
           ~Fresh(rx, bm, t)
    PROVE  ~Fresh(Advance(rx, s), Slide(rx, bm, s), t)
<1>1. CASE s > rx
  <2>1. Advance(rx, s) = s
    BY <1>1 DEF Advance
  <2>2. CASE TooOld(rx, t)
    BY <1>1, <2>1, <2>2, WAssumption DEF TooOld, Fresh
  <2>3. CASE t <= rx /\ rx - t \in bm
    <3>1. CASE s - t >= W
      BY <1>1, <2>1, <2>3, <3>1, WAssumption DEF TooOld, Fresh
    <3>2. CASE s - t < W
      <4>1. s - t \in Bits /\ (s - t) - (s - rx) = rx - t /\ s - rx < W /\ t <= s
        BY <1>1, <2>3, <3>2, WAssumption DEF Bits
      <4>2. s - t \in Slide(rx, bm, s)
        BY <1>1, <2>3, <4>1 DEF Slide, ShiftLeft
      <4>3. QED
        BY <2>1, <4>1, <4>2 DEF Fresh, Duplicate
    <3>3. QED
      BY <3>1, <3>2, WAssumption
  <2>4. QED
    BY <2>2, <2>3 DEF Fresh, Duplicate
<1>2. CASE ~(s > rx)
  <2>1. Advance(rx, s) = rx /\ bm \subseteq Slide(rx, bm, s)
    BY <1>2 DEF Advance, Slide
  <2>2. QED
    BY <2>1 DEF Fresh, Duplicate
<1>3. QED
  BY <1>1, <1>2

(* A sequence that was marked is refused. *)
LEMMA MarkedIsRefused ==
    ASSUME NEW rx \in Nat, NEW bm \in SUBSET Bits, NEW s \in Nat
    PROVE  ~Fresh(Advance(rx, s), Slide(rx, bm, s), s)
<1>1. CASE s > rx
  <2>1. Advance(rx, s) = s /\ 0 \in Slide(rx, bm, s) /\ s - s = 0
    BY <1>1 DEF Advance, Slide
  <2>2. QED
    BY <2>1 DEF Fresh, Duplicate
<1>2. CASE ~(s > rx)
  <2>1. Advance(rx, s) = rx /\ rx - s \in Slide(rx, bm, s) /\ s <= rx
    BY <1>2 DEF Advance, Slide
  <2>2. QED
    BY <2>1 DEF Fresh, Duplicate
<1>3. QED
  BY <1>1, <1>2

LEMMA WindowTyped ==
    ASSUME NEW rx \in Nat, NEW bm \in SUBSET Bits, NEW s \in Nat, Fresh(rx, bm, s)
    PROVE  Slide(rx, bm, s) \in SUBSET Bits /\ Advance(rx, s) \in Nat
  BY WAssumption DEF Slide, ShiftLeft, Bits, TooOld, Advance, Fresh

-----------------------------------------------------------------------------
(* Peers, frames and operations                                              *)

LEMMA OtherFacts ==
    /\ Other("A") = "B" /\ Other("B") = "A" /\ "A" \in Peers /\ "B" \in Peers
    /\ \A p \in Peers : Other(p) \in Peers /\ Other(Other(p)) = p /\ Other(p) # p
    /\ \A p, q \in Peers : q = p \/ q = Other(p)
<1>1. \A p \in Peers : Other(p) \in Peers /\ Other(p) # p
  <2>1. TAKE p \in Peers
  <2>2. \E q \in Peers : q # p
    BY DEF Peers
  <2>3. QED
    BY <2>2 DEF Other
<1>2. QED
  BY <1>1 DEF Peers

LEMMA FrameFacts ==
    ASSUME NEW f \in Frames
    PROVE  /\ f.gen \in Seq(Salts) /\ f.seq \in Nat /\ f.type \in FrameTypes
           /\ f.type \in DataTypes => f.data \in Fragments
           /\ f.type = "REKEY" => f.data[1] \in Salts
           /\ f.type \in DataTypes \union {"REKEY", "PING", "PONG", "BYE"}
           /\ f # Empty
<1>1. f.type \in FrameTypes /\ f.gen \in Seq(Salts) /\ f.seq \in Nat
      /\ f.type \in DataTypes \union {"REKEY", "PING", "PONG", "BYE"}
  BY DEF Frames, FrameTypes, DataTypes
<1>2. f.type \in DataTypes => f.data \in Fragments
  BY DEF Frames, DataTypes
<1>3. f.type = "REKEY" => f.data[1] \in Salts
  BY DEF Frames, DataTypes
<1>4. Empty.type = "none" /\ "none" \notin FrameTypes
  BY DEF Empty, FrameTypes
<1>5. QED
  BY <1>1, <1>2, <1>3, <1>4

LEMMA FragmentFacts ==
    /\ \A d \in Fragments : d[1] \in Peers /\ d[2] \in Nat /\ d[3] \in Nat
    /\ \A p \in Peers, m, i \in Nat :
         /\ <<p, m, i>> \in Fragments
         /\ <<p, m, i>>[1] = p /\ <<p, m, i>>[2] = m /\ <<p, m, i>>[3] = i
  BY DEF Fragments

LEMMA JobFacts ==
    ASSUME Typed, NEW p \in Peers
    PROVE  /\ job[p] \in Jobs /\ (job[p] = Idle <=> job[p].op = "none")
           /\ job[p].op \in {"none", "send", "rekey", "ping", "pong", "bye"}
           /\ job[p].op # "none" => job[p].frame \in Frames /\ job[p].acked \in BOOLEAN
<1>1. job[p] \in Jobs
  BY DEF Typed, Running
<1>2. Idle.op = "none"
  BY DEF Idle
<1>3. QED
  BY <1>1, <1>2 DEF Jobs

LEMMA AroundTyped == Typed => \A q \in Peers : Around(q) \subseteq Frames
<1> SUFFICES ASSUME Typed, NEW q \in Peers PROVE Around(q) \subseteq Frames
  OBVIOUS
<1>1. net[q] \subseteq Frames /\ Buffered(q) \subseteq Frames /\ PutBy(q) \subseteq Frames
  BY DEF Typed, Carried, Buffered, PutBy
<1>2. Pending(Other(q)) \subseteq Frames
  BY OtherFacts, JobFacts DEF Pending
<1>3. QED
  BY <1>1, <1>2 DEF Around

-----------------------------------------------------------------------------
(* What the applications are given                                           *)

(* A message that is forgotten leaves less. *)
LEMMA ForgottenLess ==
    ASSUME NEW g \in Seq(Seq(Fragments)), NEW a \in Seq(Fragments)
    PROVE  /\ Distinct(Append(g, a)) => Distinct(Append(g, <<>>))
           /\ \A d : Holds(Append(g, <<>>), d) => Holds(Append(g, a), d)
<1>1. /\ DOMAIN Append(g, <<>>) = DOMAIN Append(g, a)
      /\ \A k \in DOMAIN Append(g, a) :
           \/ Append(g, <<>>)[k] = Append(g, a)[k]
           \/ Append(g, <<>>)[k] = <<>>
  OBVIOUS
<1>2. DOMAIN <<>> = {}
  OBVIOUS
<1>3. QED
  BY <1>1, <1>2 DEF Distinct, Holds

(* A whole message handed out is what was assembled. *)
LEMMA FlushedSame ==
    ASSUME NEW g \in Seq(Seq(Fragments)), NEW a \in Seq(Fragments)
    PROVE  /\ Distinct(Append(g, a)) => Distinct(Append(Append(g, a), <<>>))
           /\ \A d : Holds(Append(Append(g, a), <<>>), d) => Holds(Append(g, a), d)
<1> DEFINE old == Append(g, a)
           new == Append(Append(g, a), <<>>)
<1>1. /\ DOMAIN new = 1 .. Len(g) + 2 /\ DOMAIN old = 1 .. Len(g) + 1 /\ Len(g) \in Nat
      /\ new[Len(g) + 2] = <<>> /\ \A k \in DOMAIN old : new[k] = old[k]
  OBVIOUS
<1>2. \A k \in DOMAIN new : DOMAIN new[k] # {} => k \in DOMAIN old
  <2>1. DOMAIN <<>> = {}
    OBVIOUS
  <2>2. QED
    BY <1>1, <2>1
<1> HIDE DEF old, new
<1>3. \A k \in DOMAIN old : new[k] = old[k]
  BY <1>1
<1>4. QED
  <2>1. Distinct(old) => Distinct(new)
    BY <1>2, <1>3 DEF Distinct
  <2>2. \A d : Holds(new, d) => Holds(old, d)
    BY <1>2, <1>3 DEF Holds
  <2>3. QED
    BY <2>1, <2>2 DEF old, new

(* One fragment more, which had not been taken. *)
LEMMA ExtendedByOne ==
    ASSUME NEW g \in Seq(Seq(Fragments)), NEW a \in Seq(Fragments), NEW e \in Fragments,
           ~Holds(Append(g, a), e)
    PROVE  /\ Distinct(Append(g, a)) => Distinct(Append(g, Append(a, e)))
           /\ \A d : Holds(Append(g, Append(a, e)), d) => Holds(Append(g, a), d) \/ d = e
<1> DEFINE old == Append(g, a)
           new == Append(g, Append(a, e))
           last == Len(g) + 1
<1>1. DOMAIN new = DOMAIN old /\ last \in DOMAIN old /\ old[last] = a
      /\ \A k \in DOMAIN old : k # last => new[k] = old[k]
  OBVIOUS
<1>2. /\ new[last] = Append(a, e) /\ DOMAIN Append(a, e) = 1 .. Len(a) + 1
      /\ DOMAIN a = 1 .. Len(a) /\ Len(a) \in Nat
      /\ Append(a, e)[Len(a) + 1] = e
      /\ \A i \in 1 .. Len(a) : Append(a, e)[i] = a[i]
  OBVIOUS
<1> HIDE DEF old, new, last
<1>3. \A k \in DOMAIN new : \A i \in DOMAIN new[k] :
         \/ k = last /\ i = Len(a) + 1 /\ new[k][i] = e
         \/ k \in DOMAIN old /\ i \in DOMAIN old[k] /\ new[k][i] = old[k][i]
  <2>1. TAKE k \in DOMAIN new
  <2>2. TAKE i \in DOMAIN new[k]
  <2>3. CASE k = last
    <3>1. i \in 1 .. Len(a) + 1 /\ new[k][i] = Append(a, e)[i]
      BY <1>2, <2>3
    <3>2. i = Len(a) + 1 \/ i \in 1 .. Len(a)
      BY <1>2, <3>1
    <3>3. QED
      BY <1>1, <1>2, <2>3, <3>1, <3>2
  <2>4. CASE k # last
    BY <1>1, <2>4
  <2>5. QED
    BY <2>3, <2>4
<1>4. \A k \in DOMAIN old : \A i \in DOMAIN old[k] : old[k][i] # e
  BY DEF Holds, old
<1>5. Distinct(old) => Distinct(new)
  BY <1>3, <1>4 DEF Distinct
<1>6. \A d : Holds(new, d) => Holds(old, d) \/ d = e
  BY <1>3 DEF Holds
<1>7. QED
  BY <1>5, <1>6 DEF old, new

-----------------------------------------------------------------------------
(* What a step leaves to show                                                *)

LEMMA CallFacts == Typed => CallTyped(call)
<1> SUFFICES ASSUME Typed PROVE CallTyped(call)
  OBVIOUS
<1>1. NotCalled.called = FALSE /\ NotCalled.asm = <<>> /\ <<>> \in Assemblies
  BY UdpSessionAssumption DEF NotCalled, Assemblies
<1>2. call \in Calls \/ call = NotCalled
  BY DEF Typed, Running
<1>3. CASE call \in Calls
  BY <1>3 DEF Calls, CallTyped
<1>4. CASE call = NotCalled
  BY <1>1, <1>4 DEF CallTyped
<1>5. QED
  BY <1>2, <1>3, <1>4

LEMMA StreamTyped ==
    ASSUME Typed, NEW p \in Peers
    PROVE  /\ got[p] \in Seq(Seq(Fragments)) /\ Assembled(p) \in Seq(Fragments)
           /\ Len(Assembled(p)) < MaxFrags
<1>1. rcv[p].asm \in Assemblies
  BY DEF Typed, Running, RcvStates
<1>2. CallTyped(call)
  BY CallFacts
<1>4. <<>> \in Assemblies
  BY UdpSessionAssumption DEF Assemblies
<1>5. Assembled(p) \in Assemblies
  BY <1>1, <1>2, <1>4 DEF Assembled, CallTyped
<1>6. QED
  BY <1>5 DEF Assemblies, Typed, Told

LEMMA TakenFacts ==
    ASSUME TakenOnce, NEW p \in Peers, NEW d, Holds(Stream(p), d)
    PROVE  /\ d \in Fragments /\ Emitted(p, d)
           /\ \A f \in Around(Other(p)) : Fragment(f) /\ f.data = d => Dead(Other(p), f)
  BY DEF TakenOnce, Holds

LEMMA OnceKept ==
    ASSUME IInv, salts \in Nat, salts' \in Nat, salts <= salts',
           EmittedStays, DeadStays, AroundFits, StreamFits
    PROVE  Once'
<1>0. Typed /\ SealedOnce /\ TakenOnce
  BY DEF IInv, Once
<1>1. \A q \in Peers : \A f \in Around(q) : f \in Frames
  BY <1>0, AroundTyped
<1>2. SealedOnce'
  <2>1. ASSUME NEW q \in Peers
        PROVE  /\ \A f \in Around(q)' : /\ f.type = "REKEY" => f.data[1] <= salts'
                                        /\ Fragment(f) => Emitted(Other(q), f.data)'
               /\ \A f, g \in Around(q)' :
                    Fragment(f) /\ Fragment(g) /\ f.data = g.data => f = g
    <3>1. \A f \in Around(q) : /\ f.type = "REKEY" => f.data[1] <= salts /\ f.data[1] \in Nat
                               /\ Fragment(f) => Emitted(Other(q), f.data)
                                                 /\ Emitted(Other(q), f.data)'
      BY <1>0, <1>1, OtherFacts, FrameFacts DEF SealedOnce, EmittedStays, Fragment, Salts
    <3>2. \A f \in Around(q)' : /\ f.type = "REKEY" => f.data[1] <= salts'
                                /\ Fragment(f) => Emitted(Other(q), f.data)'
      BY <3>1 DEF AroundFits, Sealed
    <3>3. ASSUME NEW f \in Around(q)', NEW g \in Around(q)', Fragment(f), Fragment(g),
                 f.data = g.data
          PROVE  f = g
      <4>1. CASE f \in Around(q) /\ g \in Around(q)
        BY <1>0, <3>3, <4>1 DEF SealedOnce
      <4>2. CASE Sealed(q, f) /\ Sealed(q, g)
        BY <4>2 DEF Sealed
      <4>3. CASE f \in Around(q) /\ Sealed(q, g)
        BY <3>1, <3>3, <4>3 DEF Sealed
      <4>4. CASE g \in Around(q) /\ Sealed(q, f)
        BY <3>1, <3>3, <4>4 DEF Sealed
      <4>5. QED
        BY <3>3, <4>1, <4>2, <4>3, <4>4 DEF AroundFits
    <3>4. QED
      BY <3>2, <3>3
  <2>2. QED
    BY <2>1 DEF SealedOnce, Fragment
<1>3. TakenOnce'
  <2>1. ASSUME NEW p \in Peers, NEW d, Holds(Stream(p), d)'
        PROVE  /\ d \in Fragments /\ Emitted(p, d)'
               /\ \A f \in Around(Other(p))' :
                    Fragment(f) /\ f.data = d => Dead(Other(p), f)'
    <3>1. CASE Holds(Stream(p), d)
      <4>1. /\ d \in Fragments /\ Emitted(p, d)
            /\ \A f \in Around(Other(p)) : Fragment(f) /\ f.data = d => Dead(Other(p), f)
        BY <1>0, <3>1, TakenFacts
      <4>2. ASSUME NEW f \in Around(Other(p))', Fragment(f), f.data = d
            PROVE  Dead(Other(p), f)'
        <5>1. f \in Around(Other(p))
          BY <4>1, <4>2, OtherFacts DEF AroundFits, Sealed
        <5>2. QED
          BY <1>1, <4>1, <4>2, <5>1, OtherFacts DEF DeadStays
      <4>3. QED
        BY <4>1, <4>2 DEF EmittedStays
    <3>2. CASE Given(Other(p), d)
      <4>1. PICK g \in Around(Other(p)) :
                   Fragment(g) /\ g.data = d /\ Dead(Other(p), g)'
        BY <3>2 DEF Given
      <4>2. d \in Fragments /\ Emitted(p, d)
        BY <1>0, <1>1, <4>1, OtherFacts, FrameFacts DEF SealedOnce, Fragment
      <4>3. ASSUME NEW f \in Around(Other(p))', Fragment(f), f.data = d
            PROVE  Dead(Other(p), f)'
        <5>1. f \in Around(Other(p))
          BY <4>2, <4>3, OtherFacts DEF AroundFits, Sealed
        <5>2. f = g
          BY <1>0, <4>1, <4>3, <5>1, OtherFacts DEF SealedOnce
        <5>3. QED
          BY <4>1, <5>2
      <4>4. QED
        BY <4>2, <4>3 DEF EmittedStays
    <3>3. QED
      BY <2>1, <3>1, <3>2 DEF StreamFits
  <2>2. \A p \in Peers : (\A k \in DOMAIN Stream(p) : \A i \in DOMAIN Stream(p)[k] :
                              Holds(Stream(p), Stream(p)[k][i]))'
    BY DEF Holds
  <2>3. QED
    BY <2>1, <2>2 DEF StreamFits, TakenOnce, Fragment
<1>4. QED
  BY <1>2, <1>3 DEF Once

LEMMA JobsKept ==
    ASSUME UNCHANGED sent, \A p \in Peers : JobKept(p)
    PROVE  EmittedStays /\ \A p \in Peers : JobFits(p) => JobFits(p)'
  BY DEF EmittedStays, Emitted, JobFits, JobKept

LEMMA DeadKept == KeysKept => DeadStays
  BY DEF KeysKept, DeadStays, Dead

LEMMA StreamsStay == IInv /\ StreamsKept => StreamFits
<1> SUFFICES ASSUME IInv, StreamsKept PROVE StreamFits
  OBVIOUS
<1>1. ASSUME NEW p \in Peers
      PROVE  /\ Distinct(Stream(p))'
             /\ \A d : Holds(Stream(p), d)' => Holds(Stream(p), d)
  <2>1. got[p] \in Seq(Seq(Fragments)) /\ Assembled(Other(p)) \in Seq(Fragments)
        /\ Distinct(Stream(p))
    BY OtherFacts, StreamTyped DEF IInv, Once, TakenOnce
  <2>2. Stream(p)' = Stream(p) \/ Stream(p)' = Append(got[p], <<>>)
    BY OtherFacts DEF StreamsKept, Stream
  <2>3. CASE Stream(p)' = Stream(p)
    BY <2>1, <2>3 DEF Distinct, Holds
  <2>4. CASE Stream(p)' = Append(got[p], <<>>)
    <3>1. Distinct(Append(got[p], <<>>))
          /\ \A d : Holds(Append(got[p], <<>>), d) => Holds(Stream(p), d)
      BY <2>1, ForgottenLess DEF Stream
    <3>2. QED
      BY <2>4, <3>1 DEF Distinct, Holds
  <2>5. QED
    BY <2>2, <2>3, <2>4
<1>2. QED
  BY <1>1 DEF StreamFits

(* The window moves on, or starts again under the next keys. *)
LEMMA MarkedDead ==
    ASSUME Typed, NEW q \in Peers, NEW f \in Frames, Authentic(q, f), Mark(q, f.seq),
           UNCHANGED <<gen, tx_seq, salts>>
    PROVE  Keyed' /\ DeadStays /\ Dead(q, f)' /\ ~Dead(q, f)
<1>1. /\ rx_seq[q] \in Nat /\ rx_window_bitmap[q] \in SUBSET Bits /\ f.seq \in Nat
      /\ Fresh(rx_seq[q], rx_window_bitmap[q], f.seq) /\ f.gen = gen[q]
      /\ last_rx_seq[q] \in Nat \union {-1}
  BY FrameFacts DEF Typed, Keyed, Authentic
<1>2. /\ rx_window_bitmap' = [rx_window_bitmap EXCEPT
                                 ![q] = Slide(rx_seq[q], rx_window_bitmap[q], f.seq)]
      /\ rx_seq' = [rx_seq EXCEPT ![q] = Advance(rx_seq[q], f.seq)]
      /\ last_rx_seq' = [last_rx_seq EXCEPT ![q] = Advance(last_rx_seq[q], f.seq)]
  BY DEF Mark
<1>3. Keyed'
  <2>1. /\ Slide(rx_seq[q], rx_window_bitmap[q], f.seq) \in SUBSET Bits
        /\ Advance(rx_seq[q], f.seq) \in Nat
    BY <1>1, WindowTyped
  <2>2. Advance(last_rx_seq[q], f.seq) \in Nat \union {-1}
    BY <1>1 DEF Advance
  <2>3. QED
    BY <1>2, <2>1, <2>2 DEF Typed, Keyed
<1>4. /\ rx_seq'[q] = Advance(rx_seq[q], f.seq)
      /\ rx_window_bitmap'[q] = Slide(rx_seq[q], rx_window_bitmap[q], f.seq)
      /\ \A r \in Peers : r # q => rx_seq'[r] = rx_seq[r]
                                   /\ rx_window_bitmap'[r] = rx_window_bitmap[r]
  BY <1>2 DEF Typed, Keyed
<1>5. DeadStays
  <2>1. ASSUME NEW r \in Peers, NEW g \in Frames, Dead(r, g) PROVE Dead(r, g)'
    <3>1. CASE r = q
      <4>1. g.seq \in Nat
        BY FrameFacts
      <4>2. QED
        BY <1>1, <1>4, <2>1, <3>1, <4>1, RefusedForEver DEF Dead
    <3>2. CASE r # q
      BY <1>4, <2>1, <3>2 DEF Dead
    <3>3. QED
      BY <3>1, <3>2
  <2>2. QED
    BY <2>1 DEF DeadStays
<1>6. Dead(q, f)'
  <2>1. Len(f.gen) \in Nat
    BY FrameFacts
  <2>2. QED
    BY <1>1, <1>4, <2>1, MarkedIsRefused DEF Dead
<1>7. ~Dead(q, f)
  BY <1>1 DEF Dead
<1>8. QED
  BY <1>3, <1>5, <1>6, <1>7

LEMMA RotatedDead ==
    ASSUME Typed, NEW q \in Peers, NEW k \in Salts, k <= salts, Rotate(q, k), UNCHANGED salts,
           last_rx_seq' \in [Peers -> Nat \union {-1}]
    PROVE  Keyed' /\ DeadStays
<1>1. /\ gen' = [gen EXCEPT ![q] = Append(gen[q], k)]
      /\ tx_seq' = [tx_seq EXCEPT ![q] = 0] /\ rx_seq' = [rx_seq EXCEPT ![q] = 0]
      /\ rx_window_bitmap' = [rx_window_bitmap EXCEPT ![q] = {}]
      /\ gen[q] \in Seq(Salts)
  BY DEF Rotate, Typed, Keyed
<1>2. /\ Append(gen[q], k) \in Seq(Salts) /\ Len(Append(gen[q], k)) = Len(gen[q]) + 1
      /\ Len(gen[q]) \in Nat
      /\ \A i \in DOMAIN Append(gen[q], k) :
           \/ Append(gen[q], k)[i] = k
           \/ i \in DOMAIN gen[q] /\ Append(gen[q], k)[i] = gen[q][i]
  BY <1>1
<1>3. \A r \in Peers : gen'[r] = IF r = q THEN Append(gen[q], k) ELSE gen[r]
  BY <1>1 DEF Typed, Keyed
<1>9. Len(gen'[q]) = Len(gen[q]) + 1 /\ Len(gen[q]) \in Nat
  BY <1>2, <1>3
<1>4. \A r \in Peers : \A i \in DOMAIN gen'[r] : gen'[r][i] <= salts'
  BY <1>2, <1>3 DEF Typed, Keyed
<1>5. gen' \in [Peers -> Seq(Salts)]
  BY <1>1, <1>2 DEF Typed, Keyed
<1>6. Keyed'
  BY <1>1, <1>4, <1>5 DEF Typed, Keyed
<1>7. DeadStays
  <2>1. ASSUME NEW r \in Peers, NEW g \in Frames, Dead(r, g) PROVE Dead(r, g)'
    <3>1. CASE r = q
      <4>1. Len(g.gen) \in Nat /\ Len(g.gen) <= Len(gen[q])
        BY <2>1, <3>1, FrameFacts DEF Dead
      <4>2. Len(g.gen) < Len(gen'[q])
        BY <1>9, <4>1
      <4>3. QED
        BY <1>9, <3>1, <4>1, <4>2 DEF Dead
    <3>2. CASE r # q
      BY <1>1, <1>3, <2>1, <3>2 DEF Dead, Typed, Keyed
    <3>3. QED
      BY <3>1, <3>2
  <2>2. QED
    BY <2>1 DEF DeadStays
<1>8. QED
  BY <1>6, <1>7

LEMMA StreamIs ==
    ASSUME NEW p, NEW ss, (Stream(p))' = ss
    PROVE  /\ Distinct(Stream(p))' <=> Distinct(ss)
           /\ \A d : Holds(Stream(p), d)' <=> Holds(ss, d)
  BY DEF Distinct, Holds

LEMMA TakenFits ==
    ASSUME IInv, NEW q \in Peers, NEW f \in Around(q), Fragment(f), ~Dead(q, f), Dead(q, f)',
           Takes(q, f), Assembled(Other(q))' = Assembled(Other(q))
    PROVE  StreamFits
<1> DEFINE p == Other(q)
           a == Assembled(q)
           d == f.data
<1>1. Typed /\ TakenOnce /\ f \in Frames /\ d \in Fragments
  BY AroundTyped, FrameFacts DEF IInv, Once, Fragment
<1>2. p \in Peers /\ Other(p) = q /\ p # q /\ \A r \in Peers : r = p \/ r = q
  BY OtherFacts
<1>3. got[p] \in Seq(Seq(Fragments)) /\ a \in Seq(Fragments) /\ Append(a, d) \in Seq(Fragments)
  BY <1>1, <1>2, StreamTyped
<1>4. ~Holds(Append(got[p], a), d)
  BY <1>1, <1>2, TakenFacts DEF Stream
<1>5. Distinct(Append(got[p], a))
  BY <1>1, <1>2 DEF TakenOnce, Stream
<1>6. /\ Distinct(Append(got[p], Append(a, d)))
      /\ \A e : Holds(Append(got[p], Append(a, d)), e) => Holds(Append(got[p], a), e) \/ e = d
  BY <1>1, <1>3, <1>4, <1>5, ExtendedByOne
<1>7. /\ Distinct(Append(Append(got[p], Append(a, d)), <<>>))
      /\ \A e : Holds(Append(Append(got[p], Append(a, d)), <<>>), e) =>
                    Holds(Append(got[p], Append(a, d)), e)
  BY <1>3, <1>6, FlushedSame
<1>8. Given(q, d)
  BY DEF Given
<1>9. /\ \/ (Stream(p))' = Append(got[p], Append(a, d))
         \/ (Stream(p))' = Append(Append(got[p], Append(a, d)), <<>>)
      /\ (Stream(q))' = Stream(q)
  <2>1. CASE UNCHANGED got /\ Assembled(q)' = Append(Assembled(q), f.data)
    BY <1>2, <2>1 DEF Stream
  <2>2. CASE /\ got' = [got EXCEPT ![Other(q)] = Append(@, Append(Assembled(q), f.data))]
             /\ Assembled(q)' = <<>>
    BY <1>1, <1>2, <2>2 DEF Stream, Typed, Told
  <2>3. QED
    BY <2>1, <2>2 DEF Takes
<1>10. Distinct(Stream(p))' /\ \A e : Holds(Stream(p), e)' => Holds(Stream(p), e) \/ e = d
  <2>1. Stream(p) = Append(got[p], a)
    BY <1>2 DEF Stream
  <2>2. CASE (Stream(p))' = Append(got[p], Append(a, d))
    BY <1>6, <2>1, <2>2, StreamIs
  <2>3. CASE (Stream(p))' = Append(Append(got[p], Append(a, d)), <<>>)
    BY <1>6, <1>7, <2>1, <2>3, StreamIs
  <2>4. QED
    BY <1>9, <2>2, <2>3
<1>11. Distinct(Stream(q))' /\ \A e : Holds(Stream(q), e)' => Holds(Stream(q), e)
  BY <1>1, <1>2, <1>9 DEF TakenOnce, Distinct, Holds
<1>12. QED
  <2> HIDE DEF p, d
  <2>1. \A r \in Peers : r = p \/ r = q
    BY <1>2
  <2>2. QED
    BY <1>2, <1>8, <1>10, <1>11, <2>1 DEF StreamFits

-----------------------------------------------------------------------------
(* Where the frames are                                                      *)

LEMMA AroundKept ==
    ASSUME Typed, NetFits, BufferFits, SlotFits, \A p \in Peers : JobKept(p)
    PROVE  Carried' /\ \A q \in Peers : Around(q)' \subseteq Around(q)
<1>1. Carried'
  BY AroundTyped, OtherFacts DEF NetFits, BufferFits, SlotFits, Carried
<1>2. ASSUME NEW q \in Peers PROVE Around(q)' \subseteq Around(q)
  <2>1. Buffered(q)' \subseteq Around(q)
    BY DEF BufferFits, Buffered
  <2>2. PutBy(q)' \subseteq Around(q)
    BY DEF SlotFits, PutBy
  <2>3. Pending(Other(q))' \subseteq Around(q)
    BY OtherFacts DEF JobKept, Pending, Around
  <2>4. QED
    BY <2>1, <2>2, <2>3 DEF NetFits, Around
<1>3. QED
  BY <1>1, <1>2

LEMMA NetChanged ==
    ASSUME Typed, NEW q \in Peers, NEW n \in SUBSET Around(q),
           net' = net \/ net' = [net EXCEPT ![q] = n]
    PROVE  NetFits
<1>1. net \in [Peers -> SUBSET Frames] /\ Around(q) \subseteq Frames
  BY AroundTyped DEF Typed, Carried
<1>2. \A r \in Peers : net[r] \subseteq Around(r)
  BY DEF Around
<1>3. QED
  BY <1>1, <1>2 DEF NetFits

LEMMA BufferKept == Typed /\ UNCHANGED read_buffer => BufferFits
  BY DEF Typed, Carried, BufferFits, Around, Buffered

LEMMA BufferConsumed ==
    ASSUME Typed, NEW q \in Peers, read_buffer[q] # <<>>, Consume(q)
    PROVE  BufferFits /\ Head(read_buffer[q]) \in Around(q)
<1>1. /\ read_buffer[q] \in Seq(Frames) /\ Len(read_buffer[q]) <= BufferCap
      /\ read_buffer \in [Peers -> Seq(Frames)]
  BY DEF Typed, Carried
<1>2. /\ Tail(read_buffer[q]) \in Seq(Frames) /\ Len(Tail(read_buffer[q])) = Len(read_buffer[q]) - 1
      /\ Len(read_buffer[q]) \in Nat /\ Head(read_buffer[q]) = read_buffer[q][1]
      /\ 1 \in DOMAIN read_buffer[q]
      /\ \A i \in DOMAIN Tail(read_buffer[q]) :
           i + 1 \in DOMAIN read_buffer[q] /\ Tail(read_buffer[q])[i] = read_buffer[q][i + 1]
  BY <1>1
<1>3. read_buffer' = [read_buffer EXCEPT ![q] = Tail(read_buffer[q])]
  BY DEF Consume
<1>4. \A r \in Peers : \A i \in DOMAIN read_buffer[r] : read_buffer[r][i] \in Around(r)
  BY DEF Around, Buffered
<1>5. ASSUME NEW r \in Peers
      PROVE  /\ Len(read_buffer'[r]) <= BufferCap
             /\ \A i \in DOMAIN read_buffer'[r] : read_buffer'[r][i] \in Around(r)
  <2>1. CASE r = q
    <3>1. read_buffer'[r] = Tail(read_buffer[q])
      BY <1>1, <1>3, <2>1
    <3>2. Len(Tail(read_buffer[q])) <= BufferCap
      BY <1>1, <1>2, UdpSessionAssumption
    <3>3. QED
      BY <1>2, <1>4, <2>1, <3>1, <3>2
  <2>2. CASE r # q
    BY <1>3, <1>4, <2>2 DEF Typed, Carried
  <2>3. QED
    BY <2>1, <2>2
<1>6. QED
  BY <1>1, <1>2, <1>3, <1>4, <1>5 DEF BufferFits

LEMMA BufferFed ==
    ASSUME Typed, NEW q \in Peers, NEW f \in net[q], Feed(q, f)
    PROVE  BufferFits
<1>1. CASE UNCHANGED read_buffer
  BY <1>1, BufferKept
<1>2. CASE Len(read_buffer[q]) < BufferCap
           /\ read_buffer' = [read_buffer EXCEPT ![q] = Append(read_buffer[q], f)]
  <2>1. /\ read_buffer[q] \in Seq(Frames) /\ f \in Frames /\ f \in Around(q)
        /\ read_buffer \in [Peers -> Seq(Frames)]
    BY DEF Typed, Carried, Around
  <2>2. /\ Append(read_buffer[q], f) \in Seq(Frames)
        /\ Len(Append(read_buffer[q], f)) = Len(read_buffer[q]) + 1 /\ Len(read_buffer[q]) \in Nat
        /\ \A i \in DOMAIN Append(read_buffer[q], f) :
             \/ Append(read_buffer[q], f)[i] = f
             \/ i \in DOMAIN read_buffer[q] /\ Append(read_buffer[q], f)[i] = read_buffer[q][i]
    BY <2>1
  <2>3. \A r \in Peers : \A i \in DOMAIN read_buffer[r] : read_buffer[r][i] \in Around(r)
    BY DEF Around, Buffered
  <2>4. ASSUME NEW r \in Peers
        PROVE  /\ Len(read_buffer'[r]) <= BufferCap
               /\ \A i \in DOMAIN read_buffer'[r] : read_buffer'[r][i] \in Around(r)
    <3>1. CASE r = q
      <4>1. read_buffer'[r] = Append(read_buffer[q], f)
        BY <1>2, <2>1, <3>1
      <4>2. Len(Append(read_buffer[q], f)) <= BufferCap
        BY <1>2, <2>2, UdpSessionAssumption
      <4>3. QED
        BY <2>1, <2>2, <2>3, <3>1, <4>1, <4>2
    <3>2. CASE r # q
      BY <1>2, <2>3, <3>2 DEF Typed, Carried
    <3>3. QED
      BY <3>1, <3>2
  <2>5. QED
    BY <1>2, <2>1, <2>2, <2>4 DEF BufferFits
<1>3. QED
  <2>1. Len(read_buffer[q]) \in Nat /\ BufferCap \in Nat
    BY UdpSessionAssumption DEF Typed, Carried
  <2>2. QED
    BY <1>1, <1>2, <2>1 DEF Feed

(* A step that seals no frame. *)
LEMMA StepKeeps ==
    ASSUME IInv, UNCHANGED <<sent, salts>>, Keyed', NetFits, BufferFits, SlotFits, Running',
           Told', OnePort', DeadStays, StreamFits, \A p \in Peers : JobKept(p)
    PROVE  IInv'
<1>1. EmittedStays /\ \A p \in Peers : JobFits(p)'
  BY JobsKept DEF IInv
<1>2. Carried' /\ AroundFits
  BY AroundKept DEF IInv, AroundFits
<1>3. salts \in Nat /\ salts' \in Nat /\ salts <= salts'
  BY DEF IInv, Typed, Keyed
<1>4. Once'
  BY <1>1, <1>2, <1>3, OnceKept
<1>5. QED
  BY <1>1, <1>2, <1>4 DEF IInv, Typed

(* A step outside usmp_recv that seals and takes no frame. *)
LEMMA QuietKeeps ==
    ASSUME IInv, UNCHANGED <<script, sent, got, salts, interrupts, call,
                               port>>, Keyed', DeadStays,
           NetFits, BufferFits, SlotFits, JobsAlike, RcvKept, up' \in [Peers -> BOOLEAN],
           DOMAIN confirmed' = Peers, \A p \in Peers : confirmed'[p] \subseteq DOMAIN sent[p]
    PROVE  IInv'
<1>1. \A p \in Peers : JobKept(p)
  BY DEF JobsAlike
<1>2. Running' /\ Told'
  BY DEF IInv, Typed, Running, Told, JobsAlike, RcvKept
<1>3. OnePort'
  <2>1. job'["B"].op = "pong" => job["B"].op = "pong"
    BY <1>1, OtherFacts DEF JobKept
  <2>2. rcv["B"].asm = <<>> => rcv'["B"].asm = <<>>
    BY OtherFacts DEF RcvKept
  <2>3. QED
    BY <2>1, <2>2 DEF IInv, Typed, OnePort
<1>4. StreamFits
  <2>1. \A q \in Peers : Assembled(q)' = Assembled(q) \/ Assembled(q)' = <<>>
    BY DEF RcvKept, Assembled
  <2>2. QED
    BY <2>1, StreamsStay DEF StreamsKept
<1>5. QED
  BY <1>1, <1>2, <1>3, <1>4, StepKeeps

LEMMA KeyedKept ==
    ASSUME Typed, UNCHANGED <<keyvars, last_rx_seq, salts>> PROVE Keyed' /\ DeadStays
<1>1. UNCHANGED <<gen, tx_seq, rx_seq, rx_window_bitmap>>
  BY DEF keyvars
<1>2. QED
  BY <1>1, DeadKept DEF Typed, Keyed, KeysKept

LEMMA JobsSame == Typed /\ UNCHANGED job => JobsAlike
  BY DEF Typed, Running, JobsAlike, JobKept

LEMMA JobEnds ==
    ASSUME Typed, NEW p \in Peers, job' = [job EXCEPT ![p] = Idle] PROVE JobsAlike
<1>1. Idle.op = "none" /\ Idle \in Jobs
  BY DEF Idle, Jobs
<1>2. QED
  BY <1>1 DEF Typed, Running, JobsAlike, JobKept

LEMMA RcvSame == Typed /\ UNCHANGED rcv => RcvKept
  BY DEF Typed, Running, RcvKept

LEMMA RcvChanges ==
    ASSUME Typed, NEW p \in Peers, NEW r \in RcvStates, rcv' = [rcv EXCEPT ![p] = r],
           r.asm = rcv[p].asm \/ r.asm = <<>>
    PROVE  RcvKept
  BY DEF Typed, Running, RcvKept

LEMMA ReadingTyped == Reading \in RcvStates /\ Reading.asm = <<>>
  BY UdpSessionAssumption DEF Reading, RcvStates, Assemblies

LEMMA RcvFacts ==
    ASSUME Typed, NEW p \in Peers
    PROVE  /\ rcv[p] \in RcvStates /\ rcv[p].asm \in Assemblies /\ rcv[p].expected \in Nat
           /\ rcv[p].ctrl \in Nat /\ rcv[p].pong \in BOOLEAN
  BY DEF Typed, Running, RcvStates

LEMMA CtrlCounted ==
    ASSUME Typed, NEW p \in Peers, NEW fresh \in BOOLEAN, CountCtrl(p, fresh)
    PROVE  RcvKept /\ up' \in [Peers -> BOOLEAN]
<1>1. PICK c : c = IF fresh THEN 1 ELSE rcv[p].ctrl + 1
  OBVIOUS
<1>2. c \in Nat
  BY <1>1, RcvFacts
<1>3. rcv' = [rcv EXCEPT ![p].ctrl = c, ![p].pong = FALSE]
      /\ up' = [up EXCEPT ![p] = c <= CtrlLimit]
  BY <1>1 DEF CountCtrl
<1>4. PICK r : r = [rcv[p] EXCEPT !.ctrl = c, !.pong = FALSE]
  OBVIOUS
<1>5. r \in RcvStates /\ r.asm = rcv[p].asm
  BY <1>2, <1>4, RcvFacts DEF RcvStates
<1>6. rcv' = [rcv EXCEPT ![p] = r]
  BY <1>3, <1>4 DEF Typed, Running, RcvStates
<1>7. (c <= CtrlLimit) \in BOOLEAN
  OBVIOUS
<1>8. QED
  BY <1>3, <1>5, <1>6, <1>7, RcvChanges DEF Typed, Running

LEMMA Forgotten ==
    ASSUME Typed, NEW p \in Peers, ForgetPartial(p) PROVE RcvKept
<1>1. PICK r : r = [rcv[p] EXCEPT !.asm = <<>>, !.expected = 0]
  OBVIOUS
<1>2. r \in RcvStates /\ r.asm = <<>>
  BY <1>1, RcvFacts, ReadingTyped DEF RcvStates, Assemblies, Reading
<1>3. rcv' = [rcv EXCEPT ![p] = r]
  BY <1>1 DEF ForgetPartial, Typed, Running, RcvStates
<1>4. QED
  BY <1>2, <1>3, RcvChanges

(* What stays with a step of the Python session that seals and takes nothing *)
(* and leaves the keys.                                                      *)
LEMMA PassiveKeeps ==
    ASSUME IInv, UNCHANGED <<script, keyvars, last_rx_seq, sent, got, salts, interrupts, call,
                               port>>,
           NetFits, BufferFits, SlotFits, JobsAlike, RcvKept, up' \in [Peers -> BOOLEAN],
           DOMAIN confirmed' = Peers, \A p \in Peers : confirmed'[p] \subseteq DOMAIN sent[p]
    PROVE  IInv'
<1>1. Keyed' /\ DeadStays
  BY KeyedKept DEF IInv
<1>2. QED
  BY <1>1, QuietKeeps

LEMMA CarriedKept ==
    ASSUME Typed PROVE /\ UNCHANGED net => NetFits
                       /\ UNCHANGED slot => SlotFits
                       /\ UNCHANGED up => up' \in [Peers -> BOOLEAN]
                       /\ UNCHANGED confirmed => /\ DOMAIN confirmed' = Peers
                                                 /\ \A p \in Peers :
                                                      confirmed'[p] \subseteq DOMAIN sent[p]
<1>1. UNCHANGED net => NetFits
  BY OtherFacts, NetChanged
<1>2. UNCHANGED slot => SlotFits
  BY DEF SlotFits, Around, PutBy
<1>3. QED
  BY <1>1, <1>2 DEF Typed, Running, Told

-----------------------------------------------------------------------------
(* The steps that seal and take nothing                                      *)

LEMMA RetransmitKeeps ==
    ASSUME IInv, NotC, NEW p \in Peers, Retransmit(p) PROVE IInv'
<1>0. Typed /\ UNCHANGED <<call, slot, port>>
  BY DEF IInv, NotC, cvars
<1>1. net' = [net EXCEPT ![Other(p)] = net[Other(p)] \union {job[p].frame}]
      /\ job[p].op # "none" /\ Other(p) \in Peers /\ Other(Other(p)) = p
  BY <1>0, JobFacts, OtherFacts DEF Retransmit
<1>2. net[Other(p)] \union {job[p].frame} \subseteq Around(Other(p))
  BY <1>1 DEF Around, Pending
<1>3. NetFits
  BY <1>0, <1>1, <1>2, NetChanged
<1>4. UNCHANGED <<script, keyvars, last_rx_seq, read_buffer, job, rcv, up, salts, sent, got,
                  confirmed, interrupts>>
  BY DEF Retransmit, history
<1>5. QED
  BY <1>0, <1>3, <1>4, CarriedKept, BufferKept, JobsSame, RcvSame, PassiveKeeps

LEMMA FinishSendKeeps ==
    ASSUME IInv, NotC, NEW p \in Peers, FinishSend(p) PROVE IInv'
<1>0. Typed /\ UNCHANGED <<call, slot, port>>
  BY DEF IInv, NotC, cvars
<1>1. UNCHANGED <<script, keyvars, last_rx_seq, read_buffer, rcv, up, net, salts, sent, got,
                  interrupts>>
      /\ job' = [job EXCEPT ![p] = Idle]
  BY DEF FinishSend
<1>2. job[p].op = "send"
  BY <1>0, JobFacts DEF FinishSend, IInv, JobFits
<1>3. job[p].frame.data[2] \in DOMAIN sent[p]
  <2>1. Len(sent[p]) # 0 /\ \E i : job[p].frame.data = <<p, Len(sent[p]), i>>
    BY <1>2 DEF IInv, JobFits
  <2>2. sent[p] \in Seq(Seq(Fragments))
    BY <1>0 DEF Typed, Told
  <2>3. QED
    BY <2>1, <2>2
<1>4. DOMAIN confirmed' = Peers /\ \A q \in Peers : confirmed'[q] \subseteq DOMAIN sent[q]
  BY <1>0, <1>3 DEF FinishSend, Typed, Told
<1>5. QED
  BY <1>0, <1>1, <1>4, CarriedKept, BufferKept, JobEnds, RcvSame, PassiveKeeps

LEMMA FinishRekeyKeeps ==
    ASSUME IInv, NotC, NEW p \in Peers, FinishRekey(p) PROVE IInv'
<1>0. Typed /\ UNCHANGED <<call, slot, port>>
  BY DEF IInv, NotC, cvars
<1>1. UNCHANGED <<script, last_rx_seq, read_buffer, rcv, up, net, salts, sent, got, confirmed,
                  interrupts>>
      /\ job' = [job EXCEPT ![p] = Idle] /\ Rotate(p, job[p].frame.data[1])
  BY DEF FinishRekey, history
<1>2. job[p].op = "rekey" /\ job[p].frame \in Frames /\ job[p].frame.type = "REKEY"
      /\ job[p].frame \in Around(Other(p))
  BY <1>0, JobFacts, OtherFacts DEF FinishRekey, IInv, JobFits, Around, Pending
<1>3. job[p].frame.data[1] \in Salts /\ job[p].frame.data[1] <= salts
  BY <1>2, FrameFacts, OtherFacts DEF IInv, Once, SealedOnce
<1>4. Keyed' /\ DeadStays
  BY <1>0, <1>1, <1>3, RotatedDead DEF Typed, Keyed
<1>5. QED
  BY <1>0, <1>1, <1>4, CarriedKept, BufferKept, JobEnds, RcvSame, QuietKeeps

LEMMA FinishPingKeeps ==
    ASSUME IInv, NotC, NEW p \in Peers, FinishPing(p) PROVE IInv'
<1>0. Typed /\ UNCHANGED <<call, slot, port>>
  BY DEF IInv, NotC, cvars
<1>1. UNCHANGED <<script, keyvars, last_rx_seq, read_buffer, rcv, up, net, salts, sent, got,
                  confirmed, interrupts>>
      /\ job' = [job EXCEPT ![p] = Idle]
  BY DEF FinishPing, history
<1>2. QED
  BY <1>0, <1>1, CarriedKept, BufferKept, JobEnds, RcvSame, PassiveKeeps

LEMMA FinishPongKeeps ==
    ASSUME IInv, NotC, NEW p \in Peers, FinishPong(p) PROVE IInv'
<1>0. Typed /\ UNCHANGED <<call, slot, port>>
  BY DEF IInv, NotC, cvars
<1>1. UNCHANGED <<script, keyvars, last_rx_seq, read_buffer, net, salts, sent, got, confirmed,
                  interrupts>>
      /\ job' = [job EXCEPT ![p] = Idle] /\ \E fresh \in BOOLEAN : CountCtrl(p, fresh)
  BY DEF FinishPong, history
<1>2. QED
  BY <1>0, <1>1, CarriedKept, BufferKept, JobEnds, CtrlCounted, PassiveKeeps

LEMMA FinishByeKeeps ==
    ASSUME IInv, NotC, NEW p \in Peers, FinishBye(p) PROVE IInv'
<1>0. Typed /\ UNCHANGED <<call, slot, port>>
  BY DEF IInv, NotC, cvars
<1>1. UNCHANGED <<script, keyvars, last_rx_seq, read_buffer, rcv, net, salts, sent, got,
                  confirmed, interrupts>>
      /\ job' = [job EXCEPT ![p] = Idle] /\ up' = [up EXCEPT ![p] = FALSE]
  BY DEF FinishBye, history
<1>2. up' \in [Peers -> BOOLEAN]
  BY <1>0, <1>1 DEF Typed, Running
<1>3. QED
  BY <1>0, <1>1, <1>2, CarriedKept, BufferKept, JobEnds, RcvSame, PassiveKeeps

LEMMA GiveUpKeeps ==
    ASSUME IInv, NotC, NEW p \in Peers, GiveUp(p) PROVE IInv'
<1>0. Typed /\ UNCHANGED <<call, slot, port>>
  BY DEF IInv, NotC, cvars
<1>1. UNCHANGED <<script, keyvars, last_rx_seq, read_buffer, net, salts, sent, got, confirmed,
                  interrupts>>
      /\ job' = [job EXCEPT ![p] = Idle] /\ up' = [up EXCEPT ![p] = @ /\ interrupts]
      /\ (rcv' = rcv \/ rcv' = [rcv EXCEPT ![p] = Reading])
  BY DEF GiveUp, history
<1>2. up' \in [Peers -> BOOLEAN]
  <2>1. (up[p] /\ interrupts) \in BOOLEAN
    OBVIOUS
  <2>2. QED
    BY <1>0, <1>1, <2>1 DEF Typed, Running
<1>3. RcvKept
  BY <1>0, <1>1, ReadingTyped, RcvSame, RcvChanges
<1>4. QED
  BY <1>0, <1>1, <1>2, <1>3, CarriedKept, BufferKept, JobEnds, PassiveKeeps

LEMMA FeedFrameKeeps ==
    ASSUME IInv, NotC, NEW q \in Peers, NEW f, FeedFrame(q, f) PROVE IInv'
<1>0. Typed /\ UNCHANGED <<call, slot, port>>
  BY DEF IInv, NotC, cvars
<1>1. UNCHANGED <<script, keyvars, last_rx_seq, job, rcv, up, salts, sent, got, confirmed,
                  interrupts>>
      /\ f \in net[q] /\ Feed(q, f) /\ net' = [net EXCEPT ![q] = Taken(net[q], f)]
  BY DEF FeedFrame, history
<1>2. Taken(net[q], f) \subseteq Around(q)
  BY DEF Taken, Around
<1>3. NetFits /\ BufferFits
  BY <1>0, <1>1, <1>2, NetChanged, BufferFed
<1>4. QED
  BY <1>0, <1>1, <1>3, CarriedKept, JobsSame, RcvSame, PassiveKeeps

LEMMA FeedAckKeeps ==
    ASSUME IInv, NotC, NEW p \in Peers, NEW a, FeedAck(p, a) PROVE IInv'
<1>0. Typed /\ UNCHANGED <<call, slot, port>>
  BY DEF IInv, NotC, cvars
<1>1. UNCHANGED <<script, keyvars, last_rx_seq, read_buffer, rcv, up, net, salts, sent, got,
                  confirmed, interrupts>>
  BY DEF FeedAck, history
<1>2. CASE AckMatches(p, a) /\ job' = [job EXCEPT ![p].acked = TRUE]
  <2>1. PICK j : j = [job[p] EXCEPT !.acked = TRUE]
    OBVIOUS
  <2>2. job[p] \in Jobs /\ job[p].op # "none" /\ job[p] # Idle
    BY <1>0, <1>2, JobFacts DEF AckMatches
  <2>3. j \in Jobs /\ j.op = job[p].op /\ j.frame = job[p].frame
    BY <2>1, <2>2 DEF Jobs
  <2>4. job' = [job EXCEPT ![p] = j]
    BY <1>0, <1>2, <2>1 DEF Typed, Running
  <2>5. JobsAlike
    BY <1>0, <2>3, <2>4 DEF Typed, Running, JobsAlike, JobKept
  <2>6. QED
    BY <1>0, <1>1, <2>5, CarriedKept, BufferKept, RcvSame, PassiveKeeps
<1>3. CASE UNCHANGED job
  BY <1>0, <1>1, <1>3, CarriedKept, BufferKept, JobsSame, RcvSame, PassiveKeeps
<1>4. QED
  BY <1>2, <1>3 DEF FeedAck

LEMMA LoseKeeps ==
    ASSUME IInv, NotC, NEW p \in Peers, Lose(p) PROVE IInv'
<1>0. Typed /\ UNCHANGED <<call, slot, port>>
  BY DEF IInv, NotC, cvars
<1>1. UNCHANGED <<script, keyvars, last_rx_seq, read_buffer, job, rcv, up, salts, sent, got,
                  confirmed, interrupts>>
      /\ \/ net' = net
         \/ \E f \in net[p] : net' = [net EXCEPT ![p] = net[p] \ {f}]
  BY DEF Lose, history
<1>2. \A f : net[p] \ {f} \subseteq Around(p)
  BY DEF Around
<1>3. NetFits
  BY <1>0, <1>1, <1>2, NetChanged
<1>4. QED
  BY <1>0, <1>1, <1>3, CarriedKept, BufferKept, JobsSame, RcvSame, PassiveKeeps

LEMMA DropFrameKeeps ==
    ASSUME IInv, NotC, NEW q \in Peers, DropFrame(q) PROVE IInv'
<1>0. Typed /\ UNCHANGED <<call, slot, port>>
  BY DEF IInv, NotC, cvars
<1>1. UNCHANGED <<script, keyvars, last_rx_seq, job, rcv, up, net, salts, sent, got, confirmed,
                  interrupts>>
      /\ read_buffer[q] # <<>> /\ Consume(q)
  BY DEF DropFrame, history, CanRead
<1>2. BufferFits
  BY <1>0, <1>1, BufferConsumed
<1>3. QED
  BY <1>0, <1>1, <1>2, CarriedKept, JobsSame, RcvSame, PassiveKeeps

LEMMA RecvTimeoutKeeps ==
    ASSUME IInv, NotC, NEW q \in Peers, RecvTimeout(q) PROVE IInv'
<1>0. Typed /\ UNCHANGED <<call, slot, port>>
  BY DEF IInv, NotC, cvars
<1>1. UNCHANGED <<script, keyvars, last_rx_seq, read_buffer, up, net, salts, sent, got,
                  confirmed, interrupts>>
      /\ rcv' = [rcv EXCEPT ![q] = Reading]
      /\ (job' = job \/ job' = [job EXCEPT ![q] = Idle])
  BY DEF RecvTimeout, history
<1>2. RcvKept
  BY <1>0, <1>1, ReadingTyped, RcvChanges
<1>3. JobsAlike
  BY <1>0, <1>1, JobsSame, JobEnds
<1>4. QED
  BY <1>0, <1>1, <1>2, <1>3, CarriedKept, BufferKept, PassiveKeeps

-----------------------------------------------------------------------------
(* The steps that seal a frame                                               *)

LEMMA EmitKeeps ==
    ASSUME IInv, NEW p \in Peers, NEW o \in {"send", "rekey", "ping", "pong", "bye"},
           NEW type, NEW data, NEW f \in Frames,
           f = [gen |-> gen[p], type |-> type, seq |-> tx_seq[p], data |-> data],
           Emit(p, o, type, data),
           UNCHANGED <<gen, rx_seq, rx_window_bitmap, last_rx_seq, read_buffer, rcv, up, got,
                       confirmed, interrupts, slot, call, port>>,
           salts' \in Nat, salts <= salts', type = "REKEY" => data[1] <= salts',
           type \in DataTypes => ~Emitted(p, data) /\ Emitted(p, data)',
           EmittedStays, script' \in [Peers -> Seq(Operations)],
           sent' \in [Peers -> Seq(Seq(Fragments))],
           \A q \in Peers : DOMAIN sent[q] \subseteq DOMAIN sent'[q],
           \A q \in Peers : q # p => sent'[q] = sent[q],
           JobFits(p)',
           o = "pong" /\ port = "c" /\ p = "B" => call.called /\ call.pong
    PROVE  IInv'
<1>0. Typed
  BY DEF IInv
<1>1. PICK j : j = [op |-> o, frame |-> f, acked |-> FALSE]
  OBVIOUS
<1>2. /\ job' = [job EXCEPT ![p] = j]
      /\ tx_seq' = [tx_seq EXCEPT ![p] = tx_seq[p] + 1]
      /\ net' = [net EXCEPT ![Other(p)] = net[Other(p)] \union {f}]
  BY <1>1 DEF Emit
<1>3. j \in Jobs /\ j.op = o /\ j.frame = f /\ f.type = type /\ f.data = data
  BY <1>1 DEF Jobs
<1>4. /\ job' \in [Peers -> Jobs] /\ job'[p] = j
      /\ \A q \in Peers : q # p => job'[q] = job[q]
  BY <1>0, <1>2, <1>3 DEF Typed, Running
<1>5. /\ net' \in [Peers -> SUBSET Frames] /\ net'[Other(p)] = net[Other(p)] \union {f}
      /\ \A q \in Peers : q # Other(p) => net'[q] = net[q]
  BY <1>0, <1>2, OtherFacts DEF Typed, Carried
<1>6. Keyed'
  <2>1. salts \in Nat /\ \A q \in Peers : \A i \in DOMAIN gen[q] : gen[q][i] \in Nat
    BY <1>0 DEF Typed, Keyed, Salts
  <2>2. \A q \in Peers : \A i \in DOMAIN gen[q] : gen[q][i] <= salts'
    BY <1>0, <2>1 DEF Typed, Keyed
  <2>3. QED
    BY <1>0, <1>2, <2>2 DEF Typed, Keyed
<1>7. Carried'
  BY <1>0, <1>5 DEF Typed, Carried
<1>8. Running' /\ Told'
  BY <1>0, <1>4 DEF Typed, Running, Told
<1>9. OnePort'
  BY <1>0, <1>3, <1>4, OtherFacts DEF Typed, OnePort
<1>10. \A q \in Peers : JobFits(q)'
  <2>1. ASSUME NEW q \in Peers, q # p PROVE JobFits(q)'
    <3>1. JobFits(q) /\ job'[q] = job[q] /\ sent'[q] = sent[q]
      BY <1>4, <2>1 DEF IInv
    <3>2. QED
      BY <3>1 DEF JobFits
  <2>2. QED
    BY <2>1
<1>11. AroundFits
  <2>1. ASSUME NEW q \in Peers, NEW g \in Around(q)' PROVE g \in Around(q) \/ Sealed(q, g)
    <3>1. CASE q = Other(p)
      <4>1. Other(q) = p
        BY <3>1, OtherFacts
      <4>2. g \in Around(q) \/ g = f
        BY <1>3, <1>4, <1>5, <3>1, <4>1 DEF Around, Buffered, PutBy, Pending
      <4>3. Sealed(q, f)
        BY <1>3, <1>4, <4>1 DEF Sealed, Fragment
      <4>4. QED
        BY <4>2, <4>3
    <3>2. CASE q = p
      <4>1. Other(q) # p /\ Other(q) \in Peers /\ q # Other(p)
        BY <3>2, OtherFacts
      <4>2. g \in Around(q)
        BY <1>4, <1>5, <4>1 DEF Around, Buffered, PutBy, Pending
      <4>3. QED
        BY <4>2
    <3>3. QED
      BY <3>1, <3>2, OtherFacts
  <2>2. QED
    BY <2>1 DEF AroundFits
<1>12. DeadStays
  BY DeadKept DEF KeysKept
<1>13. StreamFits
  <2>1. \A q \in Peers : Assembled(q)' = Assembled(q)
    BY DEF Assembled
  <2>2. QED
    BY <2>1, StreamsStay DEF StreamsKept
<1>14. Once'
  BY <1>0, <1>11, <1>12, <1>13, OnceKept DEF Typed, Keyed
<1>15. QED
  BY <1>6, <1>7, <1>8, <1>9, <1>10, <1>14 DEF IInv, Typed

LEMMA ControlKeeps ==
    ASSUME IInv, NEW p \in Peers, NEW o \in {"rekey", "ping", "pong", "bye"},
           NEW data, Emit(p, o, ControlOf[o], data),
           IF o = "rekey" THEN \E k \in Salts : k <= salts' /\ data = <<k>> ELSE data = <<>>,
           UNCHANGED <<gen, rx_seq, rx_window_bitmap, last_rx_seq, read_buffer, rcv, up, got,
                       sent, confirmed, interrupts, slot, call, port>>,
           salts' \in Nat, salts <= salts', script' \in [Peers -> Seq(Operations)],
           o = "pong" /\ port = "c" /\ p = "B" => call.called /\ call.pong
    PROVE  IInv'
<1>0. Typed
  BY DEF IInv
<1>1. PICK type : type = ControlOf[o]
  OBVIOUS
<1>2. /\ type \in {"REKEY", "PING", "PONG", "BYE"} /\ type \notin DataTypes
      /\ o = "rekey" <=> type = "REKEY"
  BY <1>1 DEF ControlOf, DataTypes
<1>3. PICK f : f = [gen |-> gen[p], type |-> type, seq |-> tx_seq[p], data |-> data]
  OBVIOUS
<1>4. f \in Frames
  <2>1. gen[p] \in Seq(Salts) /\ tx_seq[p] \in Nat
    BY <1>0 DEF Typed, Keyed
  <2>2. CASE o = "rekey"
    <3>1. PICK k \in Salts : data = <<k>>
      BY <2>2
    <3>4. data \in {t \in Seq(Salts) : Len(t) = 1}
      BY <3>1
    <3>2. f \in [gen : Seq(Salts), type : {"REKEY"}, seq : Nat,
                 data : {t \in Seq(Salts) : Len(t) = 1}]
      BY <1>2, <1>3, <2>1, <2>2, <3>4
    <3>3. QED
      BY <3>2 DEF Frames
  <2>3. CASE o # "rekey"
    <3>1. f \in [gen : Seq(Salts), type : {"PING", "PONG", "BYE"}, seq : Nat, data : {<<>>}]
      BY <1>2, <1>3, <2>1, <2>3
    <3>2. QED
      BY <3>1 DEF Frames
  <2>4. QED
    BY <2>2, <2>3
<1>5. /\ job'[p].op = o /\ job'[p].frame = f /\ f.type = type
      /\ \A q \in Peers : q # p => job'[q] = job[q]
  BY <1>0, <1>1, <1>3 DEF Emit, Typed, Running
<1>6. JobFits(p)'
  BY <1>2, <1>5 DEF JobFits
<1>7. EmittedStays
  BY <1>5 DEF EmittedStays, Emitted
<1>8. sent \in [Peers -> Seq(Seq(Fragments))]
  BY <1>0 DEF Typed, Told
<1>9. type = "REKEY" => data[1] <= salts'
  BY <1>2
<1>10. QED
  BY <1>1, <1>2, <1>3, <1>4, <1>6, <1>7, <1>8, <1>9, EmitKeeps

LEMMA ScriptFacts ==
    ASSUME Typed, NEW p \in Peers, NEW o, Ready(p, o), Pop(p)
    PROVE  /\ script' \in [Peers -> Seq(Operations)]
           /\ Head(script[p]).op = o
           /\ o = "send" => Head(script[p]).frags \in 1 .. MaxFrags
<1>1. script[p] \in Seq(Operations) /\ script[p] # <<>> /\ Head(script[p]).op = o
  BY DEF Typed, Running, Ready
<1>2. Tail(script[p]) \in Seq(Operations) /\ Head(script[p]) \in Operations
  BY <1>1
<1>3. QED
  BY <1>1, <1>2 DEF Typed, Running, Pop, Operations

LEMMA StartControlKeeps ==
    ASSUME IInv, NotC, NEW p \in Peers, StartRekey(p) \/ StartPing(p) \/ StartBye(p)
    PROVE  IInv'
<1>0. Typed /\ UNCHANGED <<call, slot, port>> /\ salts \in Nat
  BY DEF IInv, NotC, cvars, Typed, Keyed
<1>1. CASE StartRekey(p)
  <2>1. /\ salts' = salts + 1 /\ Emit(p, "rekey", ControlOf["rekey"], <<salts + 1>>)
        /\ UNCHANGED <<gen, rx_seq, rx_window_bitmap, last_rx_seq, read_buffer, rcv, up, got,
                       sent, confirmed, interrupts>>
        /\ Ready(p, "rekey") /\ Pop(p)
    BY <1>1 DEF StartRekey, history, ControlOf
  <2>2. PICK data : data = <<salts + 1>>
    OBVIOUS
  <2>3. /\ salts + 1 \in Salts /\ salts' \in Nat /\ salts <= salts'
        /\ salts + 1 <= salts' /\ script' \in [Peers -> Seq(Operations)]
    BY <1>0, <2>1, ScriptFacts DEF Salts
  <2>4. \E k \in Salts : k <= salts' /\ data = <<k>>
    BY <2>2, <2>3
  <2>5. QED
    BY <1>0, <2>1, <2>2, <2>3, <2>4, ControlKeeps
<1>2. CASE StartPing(p)
  <2>1. /\ Emit(p, "ping", ControlOf["ping"], <<>>)
        /\ UNCHANGED <<gen, rx_seq, rx_window_bitmap, last_rx_seq, read_buffer, rcv, up, got,
                       sent, confirmed, interrupts, salts>>
        /\ Ready(p, "ping") /\ Pop(p)
    BY <1>2 DEF StartPing, history, ControlOf
  <2>2. QED
    BY <1>0, <2>1, ScriptFacts, ControlKeeps
<1>3. CASE StartBye(p)
  <2>1. /\ Emit(p, "bye", ControlOf["bye"], <<>>)
        /\ UNCHANGED <<gen, rx_seq, rx_window_bitmap, last_rx_seq, read_buffer, rcv, up, got,
                       sent, confirmed, interrupts, salts>>
        /\ Ready(p, "bye") /\ Pop(p)
    BY <1>3 DEF StartBye, history, ControlOf
  <2>2. QED
    BY <1>0, <2>1, ScriptFacts, ControlKeeps
<1>4. QED
  BY <1>1, <1>2, <1>3

LEMMA StartPongKeeps ==
    ASSUME IInv, NotC, NEW p \in Peers, StartPong(p), port = "c" => p # "B" PROVE IInv'
<1>0. Typed /\ UNCHANGED <<call, slot, port>> /\ salts \in Nat
  BY DEF IInv, NotC, cvars, Typed, Keyed
<1>1. /\ Emit(p, "pong", ControlOf["pong"], <<>>)
      /\ UNCHANGED <<gen, rx_seq, rx_window_bitmap, last_rx_seq, read_buffer, rcv, up, got,
                     sent, confirmed, interrupts, salts, script>>
  BY DEF StartPong, history, ControlOf
<1>2. script \in [Peers -> Seq(Operations)]
  BY <1>0 DEF Typed, Running
<1>3. QED
  BY <1>0, <1>1, <1>2, ControlKeeps

LEMMA MessageFacts ==
    ASSUME NEW p \in Peers, NEW m \in Nat, NEW n \in 1 .. MaxFrags
    PROVE  /\ Message(p, m, n) \in Seq(Fragments) /\ Len(Message(p, m, n)) = n
           /\ \A i \in 1 .. n : Message(p, m, n)[i] = <<p, m, i>>
<1>1. n \in Nat
  BY UdpSessionAssumption
<1>2. \A i \in 1 .. n : <<p, m, i>> \in Fragments
  BY <1>1 DEF Fragments
<1>3. QED
  BY <1>1, <1>2 DEF Message

LEMMA StartSendKeeps ==
    ASSUME IInv, NotC, NEW p \in Peers, StartSend(p) PROVE IInv'
<1>0. Typed /\ UNCHANGED <<call, slot, port>> /\ salts \in Nat
  BY DEF IInv, NotC, cvars, Typed, Keyed
<1>1. PICK n : n = Head(script[p]).frags
  OBVIOUS
<1>2. PICK m : m = Len(sent[p])
  OBVIOUS
<1>3. /\ sent[p] \in Seq(Seq(Fragments)) /\ m \in Nat
      /\ n \in 1 .. MaxFrags /\ n \in Nat /\ 1 \in 1 .. n
      /\ script' \in [Peers -> Seq(Operations)]
      /\ job[p].op = "none"
  <2>1. Ready(p, "send") /\ Pop(p)
    BY DEF StartSend
  <2>2. QED
    BY <1>0, <1>1, <1>2, <2>1, ScriptFacts, JobFacts, UdpSessionAssumption
       DEF Typed, Told, Ready
<1>4. PICK data : data = <<p, m + 1, 1>>
  OBVIOUS
<1>5. PICK type : type = FragType(1, n)
  OBVIOUS
<1>6. PICK msg : msg = Message(p, m + 1, n)
  OBVIOUS
<1>7. /\ msg \in Seq(Fragments) /\ Len(msg) = n /\ msg[1] = data
      /\ data \in Fragments /\ data[2] = m + 1 /\ data[3] = 1 /\ type \in DataTypes
  BY <1>3, <1>4, <1>5, <1>6, MessageFacts, FragmentFacts DEF FragType, DataTypes
<1>8. /\ sent' = [sent EXCEPT ![p] = Append(sent[p], msg)] /\ Emit(p, "send", type, data)
      /\ UNCHANGED <<gen, rx_seq, rx_window_bitmap, last_rx_seq, read_buffer, rcv, up, got,
                     confirmed, interrupts, salts>>
  BY <1>1, <1>2, <1>5, <1>6, <1>7 DEF StartSend
<1>9. PICK f : f = [gen |-> gen[p], type |-> type, seq |-> tx_seq[p], data |-> data]
  OBVIOUS
<1>10. f \in Frames
  <2>1. gen[p] \in Seq(Salts) /\ tx_seq[p] \in Nat
    BY <1>0 DEF Typed, Keyed
  <2>2. QED
    BY <1>7, <1>9, <2>1 DEF Frames
<1>11. /\ job'[p].op = "send" /\ job'[p].frame = f /\ f.type = type /\ f.data = data
       /\ \A q \in Peers : q # p => job'[q] = job[q]
  BY <1>0, <1>8, <1>9 DEF Emit, Typed, Running
<1>12. /\ sent'[p] = Append(sent[p], msg) /\ Len(sent'[p]) = m + 1 /\ sent'[p][m + 1] = msg
       /\ sent' \in [Peers -> Seq(Seq(Fragments))]
       /\ \A q \in Peers : q # p => sent'[q] = sent[q]
       /\ \A q \in Peers : DOMAIN sent[q] \subseteq DOMAIN sent'[q]
  <2>1. Append(sent[p], msg) \in Seq(Seq(Fragments))
        /\ Len(Append(sent[p], msg)) = m + 1 /\ Append(sent[p], msg)[m + 1] = msg
        /\ DOMAIN sent[p] \subseteq DOMAIN Append(sent[p], msg)
    BY <1>2, <1>3, <1>7
  <2>2. QED
    BY <1>0, <1>8, <2>1 DEF Typed, Told
<1>13. EmittedStays /\ ~Emitted(p, data) /\ Emitted(p, data)'
  <2>1. ASSUME NEW d \in Fragments, Emitted(p, d) PROVE Emitted(p, d)'
    BY <1>2, <1>3, <1>11, <1>12, <2>1, FragmentFacts DEF Emitted
  <2>2. \A q \in Peers : q # p => \A d : Emitted(q, d) => Emitted(q, d)'
    BY <1>11, <1>12 DEF Emitted
  <2>3. ~Emitted(p, data)
    BY <1>2, <1>3, <1>7 DEF Emitted
  <2>4. Emitted(p, data)'
    BY <1>3, <1>7, <1>11, <1>12 DEF Emitted
  <2>5. QED
    BY <2>1, <2>2, <2>3, <2>4 DEF EmittedStays
<1>14. JobFits(p)'
  BY <1>3, <1>4, <1>5, <1>6, <1>11, <1>12 DEF JobFits
<1>15. salts' \in Nat /\ salts <= salts' /\ type # "REKEY"
  BY <1>0, <1>7, <1>8 DEF DataTypes
<1>16. QED
  BY <1>0, <1>3, <1>8, <1>9, <1>10, <1>12, <1>13, <1>14, <1>15, EmitKeeps

LEMMA NextFragmentKeeps ==
    ASSUME IInv, NotC, NEW p \in Peers, NextFragment(p) PROVE IInv'
<1>0. Typed /\ UNCHANGED <<call, slot, port>> /\ salts \in Nat
  BY DEF IInv, NotC, cvars, Typed, Keyed
<1>1. job[p].op = "send" /\ job[p].frame.type = "DATA_FRAG" /\ job[p].frame \in Frames
  BY <1>0, JobFacts DEF NextFragment, IInv, JobFits
<1>2. PICK m : m = Len(sent[p])
  OBVIOUS
<1>17. PICK n \in 1 .. MaxFrags : \E i \in 1 .. n :
           /\ m # 0 /\ sent[p][m] = Message(p, m, n)
           /\ job[p].frame.data = <<p, m, i>> /\ job[p].frame.type = FragType(i, n)
  BY <1>1, <1>2 DEF IInv, JobFits
<1>3. PICK i \in 1 .. n :
           /\ m # 0 /\ sent[p][m] = Message(p, m, n)
           /\ job[p].frame.data = <<p, m, i>> /\ job[p].frame.type = FragType(i, n)
  BY <1>17
<1>4. /\ sent[p] \in Seq(Seq(Fragments)) /\ m \in Nat /\ n \in Nat /\ i \in Nat
      /\ i + 1 \in 1 .. n
  BY <1>0, <1>1, <1>2, <1>3, UdpSessionAssumption DEF Typed, Told, FragType
<1>5. PICK data : data = <<p, m, i + 1>>
  OBVIOUS
<1>6. PICK type : type = FragType(i + 1, n)
  OBVIOUS
<1>7. /\ data \in Fragments /\ data[2] = m /\ data[3] = i + 1 /\ type \in DataTypes
      /\ Len(Message(p, m, n)) = n /\ Message(p, m, n)[i + 1] = data
  BY <1>4, <1>5, <1>6, MessageFacts, FragmentFacts DEF FragType, DataTypes
<1>8. /\ Emit(p, "send", type, data)
      /\ UNCHANGED <<gen, rx_seq, rx_window_bitmap, last_rx_seq, read_buffer, rcv, up, got,
                     sent, confirmed, interrupts, salts, script>>
  <2>1. job[p].frame.data[2] = m /\ job[p].frame.data[3] = i
    BY <1>3
  <2>2. QED
    BY <1>3, <1>6, <1>7, <2>1 DEF NextFragment, history
<1>9. PICK f : f = [gen |-> gen[p], type |-> type, seq |-> tx_seq[p], data |-> data]
  OBVIOUS
<1>10. f \in Frames
  <2>1. gen[p] \in Seq(Salts) /\ tx_seq[p] \in Nat
    BY <1>0 DEF Typed, Keyed
  <2>2. QED
    BY <1>7, <1>9, <2>1 DEF Frames
<1>11. /\ job'[p].op = "send" /\ job'[p].frame = f /\ f.type = type /\ f.data = data
       /\ \A q \in Peers : q # p => job'[q] = job[q]
  BY <1>0, <1>8, <1>9 DEF Emit, Typed, Running
<1>12. EmittedStays /\ ~Emitted(p, data) /\ Emitted(p, data)'
  <2>0. job[p].frame.data[3] = i
    BY <1>3
  <2>1. ASSUME NEW d \in Fragments, Emitted(p, d) PROVE Emitted(p, d)'
    <3>1. d[3] \in Nat
      BY FragmentFacts
    <3>2. QED
      BY <1>1, <1>2, <1>4, <1>7, <1>8, <1>11, <2>0, <2>1, <3>1 DEF Emitted
  <2>2. \A q \in Peers : q # p => \A d : Emitted(q, d) => Emitted(q, d)'
    BY <1>8, <1>11 DEF Emitted
  <2>3. ~Emitted(p, data)
    BY <1>1, <1>2, <1>4, <1>7, <2>0 DEF Emitted
  <2>4. Emitted(p, data)'
    BY <1>2, <1>4, <1>7, <1>8, <1>11 DEF Emitted
  <2>5. QED
    BY <2>1, <2>2, <2>3, <2>4 DEF EmittedStays
<1>13. JobFits(p)'
  BY <1>2, <1>3, <1>4, <1>5, <1>6, <1>8, <1>11 DEF JobFits
<1>14. salts' \in Nat /\ salts <= salts' /\ type # "REKEY"
  BY <1>0, <1>7, <1>8 DEF DataTypes
<1>15. sent \in [Peers -> Seq(Seq(Fragments))] /\ script \in [Peers -> Seq(Operations)]
  BY <1>0 DEF Typed, Told, Running
<1>16. QED
  BY <1>0, <1>8, <1>9, <1>10, <1>12, <1>13, <1>14, <1>15, EmitKeeps

-----------------------------------------------------------------------------
(* The steps of a Python session that take a frame off the buffer            *)

LEMMA AcceptFacts ==
    ASSUME Typed, NotC, NEW q \in Peers, NEW types, Accept(q, types),
           NEW f, f = Head(read_buffer[q])
    PROVE  /\ f \in Frames /\ f \in Around(q) /\ Authentic(q, f) /\ f.type \in types
           /\ NetFits /\ BufferFits /\ SlotFits
           /\ UNCHANGED <<script, salts, interrupts, sent, confirmed, call, slot, port>>
<1>1. /\ read_buffer[q] # <<>> /\ Consume(q) /\ Authentic(q, f) /\ f.type \in types
      /\ UNCHANGED <<script, net, salts, interrupts, sent, confirmed, call, slot, port>>
  BY DEF Accept, CanRead, NotC, cvars
<1>2. BufferFits /\ f \in Around(q)
  BY <1>1, BufferConsumed
<1>3. QED
  BY <1>1, <1>2, AroundTyped, CarriedKept

(* A frame marked in the window, of which nothing is kept. *)
LEMMA MarkedKeeps ==
    ASSUME IInv, NotC, NEW q \in Peers, NEW types, Accept(q, types),
           Mark(q, Head(read_buffer[q]).seq), UNCHANGED <<gen, tx_seq, job, got>>,
           RcvKept, up' \in [Peers -> BOOLEAN]
    PROVE  IInv'
<1>0. Typed
  BY DEF IInv
<1>1. PICK f : f = Head(read_buffer[q])
  OBVIOUS
<1>2. /\ f \in Frames /\ f \in Around(q) /\ Authentic(q, f)
      /\ NetFits /\ BufferFits /\ SlotFits
      /\ UNCHANGED <<script, salts, interrupts, sent, confirmed, call, slot, port>>
  BY <1>0, <1>1, AcceptFacts
<1>3. Keyed' /\ DeadStays
  BY <1>0, <1>1, <1>2, MarkedDead
<1>4. QED
  BY <1>0, <1>2, <1>3, CarriedKept, JobsSame, QuietKeeps

LEMMA RecvByeKeeps ==
    ASSUME IInv, NotC, NEW q \in Peers, RecvBye(q) PROVE IInv'
<1>1. Typed /\ up' \in [Peers -> BOOLEAN] /\ RcvKept
  BY RcvSame DEF RecvBye, IInv, Typed, Running
<1>2. QED
  BY <1>1, MarkedKeeps DEF RecvBye

LEMMA RecvPingKeeps ==
    ASSUME IInv, NotC, NEW q \in Peers, RecvPing(q) PROVE IInv'
<1>1. Typed /\ up' \in [Peers -> BOOLEAN]
  BY DEF RecvPing, IInv, Typed, Running
<1>2. CASE ForgetPartial(q)
  BY <1>1, <1>2, Forgotten, MarkedKeeps DEF RecvPing
<1>3. CASE rcv' = [rcv EXCEPT ![q].pong = TRUE]
  <2>1. PICK r : r = [rcv[q] EXCEPT !.pong = TRUE]
    OBVIOUS
  <2>2. r \in RcvStates /\ r.asm = rcv[q].asm
    BY <1>1, <2>1, RcvFacts DEF RcvStates
  <2>3. rcv' = [rcv EXCEPT ![q] = r]
    BY <1>1, <1>3, <2>1 DEF Typed, Running
  <2>4. RcvKept
    BY <1>1, <2>2, <2>3, RcvChanges
  <2>5. QED
    BY <1>1, <2>4, MarkedKeeps DEF RecvPing
<1>4. QED
  BY <1>2, <1>3 DEF RecvPing

LEMMA RecvPongKeeps ==
    ASSUME IInv, NotC, NEW q \in Peers, RecvPong(q) PROVE IInv'
<1>1. Typed /\ up \in [Peers -> BOOLEAN]
  BY DEF IInv, Typed, Running
<1>2. CASE ForgetPartial(q) /\ UNCHANGED up
  BY <1>1, <1>2, Forgotten, MarkedKeeps DEF RecvPong
<1>3. CASE \E fresh \in BOOLEAN : CountCtrl(q, fresh)
  BY <1>1, <1>3, CtrlCounted, MarkedKeeps DEF RecvPong
<1>4. QED
  BY <1>2, <1>3 DEF RecvPong

LEMMA RecvRekeyKeeps ==
    ASSUME IInv, NotC, NEW q \in Peers, RecvRekey(q) PROVE IInv'
<1>0. Typed /\ up \in [Peers -> BOOLEAN]
  BY DEF IInv, Typed, Running
<1>1. PICK f : f = Head(read_buffer[q])
  OBVIOUS
<1>2. Accept(q, {"REKEY"}) /\ UNCHANGED <<job, up, got>>
  BY DEF RecvRekey
<1>3. /\ f \in Frames /\ f \in Around(q) /\ Authentic(q, f) /\ f.type = "REKEY"
      /\ NetFits /\ BufferFits /\ SlotFits
      /\ UNCHANGED <<script, salts, interrupts, sent, confirmed, call, slot, port>>
  BY <1>0, <1>1, <1>2, AcceptFacts
<1>4. CASE Mark(q, f.seq) /\ ForgetPartial(q) /\ UNCHANGED <<gen, tx_seq>>
  BY <1>0, <1>1, <1>2, <1>4, Forgotten, MarkedKeeps
<1>5. CASE /\ Rotate(q, f.data[1])
           /\ last_rx_seq' = [last_rx_seq EXCEPT ![q] = Advance(last_rx_seq[q], f.seq)]
           /\ UNCHANGED rcv
  <2>1. f.data[1] \in Salts /\ f.data[1] <= salts /\ f.seq \in Nat
    BY <1>3, FrameFacts DEF IInv, Once, SealedOnce
  <2>2. last_rx_seq' \in [Peers -> Nat \union {-1}]
    <3>1. Advance(last_rx_seq[q], f.seq) \in Nat \union {-1}
      BY <1>0, <2>1 DEF Advance, Typed, Keyed
    <3>2. QED
      BY <1>0, <1>5, <3>1 DEF Typed, Keyed
  <2>3. Keyed' /\ DeadStays
    BY <1>0, <1>3, <1>5, <2>1, <2>2, RotatedDead
  <2>4. QED
    BY <1>0, <1>2, <1>3, <1>5, <2>3, CarriedKept, JobsSame, RcvSame, QuietKeeps
<1>6. QED
  BY <1>1, <1>4, <1>5 DEF RecvRekey

LEMMA AssembleKeeps ==
    ASSUME IInv, NotC, NEW q \in Peers, Assemble(q), port = "c" => q # "B" PROVE IInv'
<1>0. Typed /\ up \in [Peers -> BOOLEAN]
  BY DEF IInv, Typed, Running
<1>1. PICK f : f = Head(read_buffer[q])
  OBVIOUS
<1>2. /\ Accept(q, DataTypes) /\ Mark(q, f.seq) /\ UNCHANGED <<gen, tx_seq, job, up>>
  BY <1>1 DEF Assemble, DataTypes
<1>3. /\ f \in Frames /\ f \in Around(q) /\ Authentic(q, f) /\ f.type \in DataTypes
      /\ NetFits /\ BufferFits /\ SlotFits
      /\ UNCHANGED <<script, salts, interrupts, sent, confirmed, call, slot, port>>
  BY <1>0, <1>1, <1>2, AcceptFacts
<1>4. Keyed' /\ DeadStays /\ Dead(q, f)' /\ ~Dead(q, f)
  BY <1>0, <1>2, <1>3, MarkedDead
<1>5. CASE ForgetPartial(q) /\ UNCHANGED got
  BY <1>0, <1>1, <1>2, <1>5, Forgotten, MarkedKeeps
<1>6. PICK whole : whole = Append(rcv[q].asm, f.data)
  OBVIOUS
<1>7. /\ f.data \in Fragments /\ f.seq \in Nat /\ rcv[q] \in RcvStates
      /\ rcv[q].asm \in Seq(Fragments) /\ whole \in Seq(Fragments)
  BY <1>0, <1>3, <1>6, FrameFacts, RcvFacts DEF Assemblies
<1>8. ASSUME NEW r \in RcvStates, rcv' = [rcv EXCEPT ![q] = r],
             \/ r.asm = whole /\ UNCHANGED got
             \/ r.asm = <<>> /\ got' = [got EXCEPT ![Other(q)] = Append(@, whole)]
      PROVE  IInv'
  <2>1. /\ rcv' \in [Peers -> RcvStates] /\ rcv'[q] = r
        /\ \A p \in Peers : p # q => rcv'[p] = rcv[p]
    BY <1>0, <1>8 DEF Typed, Running
  <2>2. /\ Assembled(q) = rcv[q].asm /\ Assembled(q)' = r.asm
        /\ Assembled(Other(q))' = Assembled(Other(q))
    BY <1>3, <2>1, OtherFacts DEF Assembled
  <2>3. Takes(q, f)
    BY <1>6, <1>8, <2>2 DEF Takes
  <2>4. StreamFits
    BY <1>3, <1>4, <2>2, <2>3, TakenFits DEF Fragment
  <2>5. got' \in [Peers -> Seq(Seq(Fragments))]
    <3>1. CASE UNCHANGED got
      BY <1>0, <3>1 DEF Typed, Told
    <3>2. CASE got' = [got EXCEPT ![Other(q)] = Append(got[Other(q)], whole)]
      <4>1. Append(got[Other(q)], whole) \in Seq(Seq(Fragments))
        BY <1>0, <1>7, OtherFacts DEF Typed, Told
      <4>2. QED
        BY <1>0, <3>2, <4>1 DEF Typed, Told
    <3>3. QED
      BY <1>8, <3>1, <3>2
  <2>6. Running' /\ Told' /\ OnePort'
    <3>1. Running'
      BY <1>0, <1>2, <1>3, <2>1 DEF Typed, Running
    <3>2. Told'
      BY <1>0, <1>3, <2>5 DEF Typed, Told
    <3>3. OnePort'
      BY <1>0, <1>2, <1>3, <2>1, OtherFacts DEF Typed, OnePort
    <3>4. QED
      BY <3>1, <3>2, <3>3
  <2>7. QED
    BY <1>0, <1>2, <1>3, <1>4, <2>4, <2>6, JobsSame, StepKeeps DEF JobsAlike
<1>9. CASE rcv' = [rcv EXCEPT ![q] = Reading]
           /\ got' = [got EXCEPT ![Other(q)] = Append(@, whole)]
  BY <1>8, <1>9, ReadingTyped
<1>10. CASE /\ rcv' = [rcv EXCEPT ![q].asm = whole, ![q].expected = f.seq + 1]
            /\ UNCHANGED got /\ ~(Len(whole) >= MaxFrags)
  <2>1. PICK r : r = [rcv[q] EXCEPT !.asm = whole, !.expected = f.seq + 1]
    OBVIOUS
  <2>2. Len(whole) \in Nat /\ Len(whole) < MaxFrags /\ f.seq + 1 \in Nat
    BY <1>7, <1>10, UdpSessionAssumption
  <2>3. whole \in Assemblies
    BY <1>7, <2>2 DEF Assemblies
  <2>4. r \in RcvStates /\ r.asm = whole
    BY <1>7, <2>1, <2>2, <2>3 DEF RcvStates
  <2>5. rcv' = [rcv EXCEPT ![q] = r]
    BY <1>0, <1>7, <1>10, <2>1 DEF Typed, Running, RcvStates
  <2>6. QED
    BY <1>8, <1>10, <2>4, <2>5
<1>11. QED
  BY <1>1, <1>5, <1>6, <1>9, <1>10 DEF Assemble

(* A step of a Python peer. *)
LEMMA PythonKeeps ==
    ASSUME IInv, NotC, NEW p \in Peers, port = "c" => p # "B",
           Application(p) \/ Writing(p) \/ Datagrams(p) \/ Receiving(p)
    PROVE  IInv'
<1>1. CASE Application(p)
  BY <1>1, StartSendKeeps, StartControlKeeps DEF Application
<1>2. CASE Writing(p)
  BY <1>2, RetransmitKeeps, NextFragmentKeeps, FinishSendKeeps, FinishRekeyKeeps,
     FinishPingKeeps, FinishPongKeeps, FinishByeKeeps, GiveUpKeeps DEF Writing
<1>3. CASE Datagrams(p)
  BY <1>3, FeedFrameKeeps, FeedAckKeeps, LoseKeeps DEF Datagrams
<1>4. CASE Receiving(p)
  BY <1>4, DropFrameKeeps, RecvByeKeeps, RecvPingKeeps, RecvPongKeeps, RecvRekeyKeeps,
     AssembleKeeps, RecvTimeoutKeeps, StartPongKeeps DEF Receiving
<1>5. QED
  BY <1>1, <1>2, <1>3, <1>4

-----------------------------------------------------------------------------
(* The device in C                                                           *)

LEMMA CStepKeeps ==
    ASSUME IInv, port = "c", UNCHANGED <<script, sent, salts, interrupts, confirmed, rcv, port>>,
           Keyed', DeadStays, NetFits, BufferFits, SlotFits, JobsAlike, CallFits,
           got' \in [Peers -> Seq(Seq(Fragments))], StreamFits
    PROVE  IInv'
<1>0. Typed
  BY DEF IInv
<1>1. Running'
  BY <1>0 DEF Typed, Running, JobsAlike, CallFits
<1>2. Told'
  BY <1>0 DEF Typed, Told
<1>3. OnePort'
  BY <1>0 DEF Typed, OnePort, CallFits
<1>4. QED
  BY <1>1, <1>2, <1>3, StepKeeps DEF JobsAlike

LEMMA CQuietKeeps ==
    ASSUME IInv, port = "c",
           UNCHANGED <<script, sent, got, salts, interrupts, confirmed, rcv, port>>,
           Keyed', DeadStays, NetFits, BufferFits, SlotFits, JobsAlike, CallFits,
           call'.asm = call.asm \/ call'.asm = <<>>
    PROVE  IInv'
<1>1. \A q \in Peers : Assembled(q)' = Assembled(q) \/ Assembled(q)' = <<>>
  BY DEF Assembled
<1>2. StreamFits
  BY <1>1, StreamsStay DEF StreamsKept
<1>3. got' \in [Peers -> Seq(Seq(Fragments))]
  BY DEF IInv, Typed, Told
<1>4. QED
  BY <1>2, <1>3, CStepKeeps

LEMMA CallStates ==
    /\ NotCalled.called = FALSE /\ NotCalled.asm = <<>>
    /\ Called \in Calls /\ Called.called = TRUE /\ Called.pong = FALSE /\ Called.asm = <<>>
<1>1. <<>> \in Assemblies
  BY UdpSessionAssumption DEF Assemblies
<1>2. 0 \in 0 .. CtrlLimit /\ 0 \in 0 .. MaxAttempts
  BY UdpSessionAssumption, AttemptsAssumption
<1>3. QED
  BY <1>1, <1>2 DEF NotCalled, Called, Calls

(* The call under way and the ways it goes on or ends. *)
LEMMA CallRunning ==
    ASSUME Typed, call.called
    PROVE  /\ call \in Calls /\ call.asm \in Assemblies /\ call.expected \in Nat
           /\ call.ctrl \in 0 .. CtrlLimit /\ call.attempts \in 0 .. MaxAttempts
           /\ call.pong \in BOOLEAN /\ call.called = TRUE
  BY CallFacts DEF CallTyped

LEMMA Returned ==
    ASSUME Typed, job'["B"].op # "pong", Return \/ EndSession \/ Fail
    PROVE  CallFits /\ call'.asm = <<>>
  BY CallStates DEF Return, EndSession, Fail, CallFits, Typed, Running

LEMMA ReadAgain ==
    ASSUME Typed, job'["B"].op # "pong", call.called, ~call.pong, call.attempts < MaxAttempts,
           Again
    PROVE  CallFits /\ call'.asm = call.asm
<1>1. call.attempts + 1 \in 0 .. MaxAttempts
  BY CallRunning, AttemptsAssumption
<1>2. /\ call' = [call EXCEPT !.attempts = call.attempts + 1]
      /\ up' = up /\ up \in [Peers -> BOOLEAN]
  BY DEF Again, Typed, Running
<1>3. call' \in Calls /\ call'.asm = call.asm /\ call'.pong = FALSE
  BY <1>1, <1>2, CallRunning DEF Calls
<1>4. QED
  BY <1>2, <1>3 DEF CallFits

LEMMA Counted ==
    ASSUME Typed, job'["B"].op # "pong", call.called, call.attempts < MaxAttempts, CountControl
    PROVE  CallFits /\ (call'.asm = call.asm \/ call'.asm = <<>>)
<1>1. CASE Return \/ Fail
  BY <1>1, Returned
<1>2. CASE /\ ~(call.ctrl + 1 > CtrlLimit) /\ UNCHANGED up
           /\ call' = [call EXCEPT !.ctrl = @ + 1, !.attempts = @ + 1, !.pong = FALSE]
  <2>1. call.attempts + 1 \in 0 .. MaxAttempts /\ call.ctrl + 1 \in 0 .. CtrlLimit
    BY <1>2, CallRunning, AttemptsAssumption, UdpSessionAssumption
  <2>2. call' \in Calls /\ call'.asm = call.asm /\ call'.pong = FALSE
    BY <1>2, <2>1, CallRunning DEF Calls
  <2>3. up' \in [Peers -> BOOLEAN]
    BY <1>2 DEF Typed, Running
  <2>4. QED
    BY <2>2, <2>3 DEF CallFits
<1>3. QED
  BY <1>1, <1>2 DEF CountControl

LEMMA NotPong == Typed /\ port = "c" /\ ~call.pong => job["B"].op # "pong"
  BY DEF Typed, OnePort

LEMMA CSendFailedKeeps ==
    ASSUME IInv, port = "c", UNCHANGED port, CGiveUp PROVE IInv'
<1>0. Typed /\ "B" \in Peers
  BY OtherFacts DEF IInv
<1>1. /\ UNCHANGED <<script, keyvars, last_rx_seq, read_buffer, rcv, net, salts, sent, got,
                     confirmed, interrupts, slot>>
      /\ job' = [job EXCEPT !["B"] = Idle] /\ EndSession
  BY DEF CGiveUp, history, EndSession
<1>2. JobsAlike /\ job'["B"].op = "none"
  BY <1>0, <1>1, JobEnds DEF Typed, Running, Idle
<1>3. CallFits /\ call'.asm = <<>>
  BY <1>0, <1>1, <1>2, Returned
<1>4. QED
  BY <1>0, <1>1, <1>2, <1>3, KeyedKept, CarriedKept, BufferKept, CQuietKeeps

LEMMA CFeedFrameKeeps ==
    ASSUME IInv, port = "c", UNCHANGED port, NEW f, CFeedFrame(f) PROVE IInv'
<1>0. Typed /\ "B" \in Peers
  BY OtherFacts DEF IInv
<1>1. /\ UNCHANGED <<script, keyvars, last_rx_seq, read_buffer, job, rcv, up, salts, sent, got,
                     confirmed, interrupts, call>>
      /\ f \in net["B"] /\ (slot' = f \/ slot' = slot)
      /\ net' = [net EXCEPT !["B"] = Taken(net["B"], f)]
  BY DEF CFeedFrame, history, PutAside
<1>2. Taken(net["B"], f) \subseteq Around("B") /\ f \in Around("B")
  BY <1>1 DEF Taken, Around
<1>3. NetFits
  BY <1>0, <1>1, <1>2, NetChanged
<1>4. SlotFits
  BY <1>1, <1>2 DEF SlotFits, Around, PutBy
<1>5. CallFits
  BY <1>0, <1>1 DEF Typed, Running, OnePort, CallFits
<1>6. QED
  BY <1>0, <1>1, <1>3, <1>4, <1>5, KeyedKept, BufferKept, JobsSame, CQuietKeeps

LEMMA CRecvKeeps ==
    ASSUME IInv, port = "c", UNCHANGED port, CRecv PROVE IInv'
<1>0. Typed
  BY DEF IInv
<1>1. /\ UNCHANGED <<script, keyvars, last_rx_seq, read_buffer, job, rcv, up, net, salts, sent,
                     got, confirmed, interrupts, slot>>
      /\ call' = Called /\ job["B"] = Idle
  BY DEF CRecv, vars, history, InApplication
<1>2. job'["B"].op = "none"
  BY <1>1 DEF Idle
<1>3. CallFits /\ call'.asm = <<>>
  BY <1>0, <1>1, <1>2, CallStates DEF CallFits, Typed, Running
<1>4. QED
  BY <1>0, <1>1, <1>3, KeyedKept, CarriedKept, BufferKept, JobsSame, CQuietKeeps

LEMMA CPollKeeps ==
    ASSUME IInv, port = "c", UNCHANGED port, CAttemptsSpent \/ CPollNothing PROVE IInv'
<1>0. Typed
  BY DEF IInv
<1>1. /\ UNCHANGED <<script, keyvars, last_rx_seq, read_buffer, job, rcv, net, salts, sent,
                     got, confirmed, interrupts, slot>>
      /\ call.called /\ ~call.pong
      /\ Return \/ EndSession \/ (Again /\ ~(call.attempts >= MaxAttempts))
  BY DEF CAttemptsSpent, CPollNothing, history, Polling, Spent
<1>2. job'["B"].op # "pong"
  BY <1>0, <1>1, NotPong
<1>3. Again => call.attempts < MaxAttempts \/ Return \/ EndSession
  BY <1>0, <1>1, CallRunning, AttemptsAssumption
<1>4. CallFits /\ (call'.asm = call.asm \/ call'.asm = <<>>)
  BY <1>0, <1>1, <1>2, <1>3, Returned, ReadAgain
<1>5. QED
  BY <1>0, <1>1, <1>4, KeyedKept, CarriedKept, BufferKept, JobsSame, CQuietKeeps

LEMMA CReadFacts ==
    ASSUME Typed, port = "c", NEW f, CRead(f)
    PROVE  /\ f \in Frames /\ f \in Around("B") /\ NetFits /\ BufferFits /\ SlotFits
           /\ call.called /\ ~call.pong /\ call.attempts < MaxAttempts
           /\ job["B"].op # "pong"
           /\ UNCHANGED <<script, rcv, salts, interrupts, sent, confirmed>>
<1>1. /\ UNCHANGED <<script, read_buffer, rcv, salts, interrupts, sent, confirmed>>
      /\ call.called /\ ~call.pong /\ ~(call.attempts >= MaxAttempts)
      /\ \/ slot # Empty /\ f = slot /\ slot' = Empty /\ UNCHANGED net
         \/ f \in net["B"] /\ net' = [net EXCEPT !["B"] = Taken(net["B"], f)] /\ UNCHANGED slot
  BY DEF CRead, Polling, Spent
<1>2. f \in Around("B")
  BY <1>1 DEF Around, PutBy
<1>3. Taken(net["B"], f) \subseteq Around("B") /\ "B" \in Peers
  BY OtherFacts DEF Taken, Around
<1>4. NetFits
  BY <1>1, <1>3, NetChanged, CarriedKept
<1>5. SlotFits
  BY <1>1, CarriedKept DEF SlotFits
<1>6. call.attempts < MaxAttempts
  BY <1>1, CallRunning, AttemptsAssumption
<1>7. QED
  BY <1>1, <1>2, <1>3, <1>4, <1>5, <1>6, AroundTyped, BufferKept, NotPong

LEMMA CDropKeeps ==
    ASSUME IInv, port = "c", UNCHANGED port, NEW f, CDrop(f) PROVE IInv'
<1>0. Typed
  BY DEF IInv
<1>1. CRead(f) /\ Again /\ UNCHANGED <<keyvars, last_rx_seq, job, got>>
  BY DEF CDrop
<1>2. CallFits /\ call'.asm = call.asm
  BY <1>0, <1>1, CReadFacts, ReadAgain
<1>3. QED
  BY <1>0, <1>1, <1>2, CReadFacts, KeyedKept, JobsSame, CQuietKeeps

LEMMA CMarkedKeeps ==
    ASSUME IInv, port = "c", UNCHANGED port, NEW f, NEW types, CAccept(f, types),
           Mark("B", f.seq), UNCHANGED <<gen, tx_seq, job, got>>,
           CallFits, call'.asm = call.asm \/ call'.asm = <<>>
    PROVE  IInv'
<1>0. Typed /\ "B" \in Peers
  BY OtherFacts DEF IInv
<1>1. CRead(f) /\ Authentic("B", f)
  BY DEF CAccept, Dropped
<1>2. Keyed' /\ DeadStays
  BY <1>0, <1>1, CReadFacts, MarkedDead
<1>3. QED
  BY <1>0, <1>1, <1>2, CReadFacts, JobsSame, CQuietKeeps

LEMMA CControlKeeps ==
    ASSUME IInv, port = "c", UNCHANGED port, NEW f, CRecvPong(f) \/ CRecvBye(f) \/ CRecvPing(f)
    PROVE  IInv'
<1>0. Typed
  BY DEF IInv
<1>1. CASE CRecvPong(f)
  <2>1. /\ CAccept(f, {"PONG"}) /\ CRead(f) /\ Mark("B", f.seq) /\ CountControl
        /\ UNCHANGED <<gen, tx_seq, job, got>>
    BY <1>1 DEF CRecvPong, CAccept
  <2>2. CallFits /\ (call'.asm = call.asm \/ call'.asm = <<>>)
    BY <1>0, <2>1, CReadFacts, Counted
  <2>3. QED
    BY <2>1, <2>2, CMarkedKeeps
<1>2. CASE CRecvBye(f)
  <2>1. /\ CAccept(f, {"BYE"}) /\ CRead(f) /\ Mark("B", f.seq) /\ EndSession
        /\ UNCHANGED <<gen, tx_seq, job, got>>
    BY <1>2 DEF CRecvBye, CAccept
  <2>2. CallFits /\ (call'.asm = call.asm \/ call'.asm = <<>>)
    BY <1>0, <2>1, CReadFacts, Returned
  <2>3. QED
    BY <2>1, <2>2, CMarkedKeeps
<1>3. CASE CRecvPing(f)
  <2>1. /\ CAccept(f, {"PING"}) /\ CRead(f) /\ Mark("B", f.seq)
        /\ call' = [call EXCEPT !.pong = TRUE]
        /\ UNCHANGED <<gen, tx_seq, job, up, got>>
    BY <1>3 DEF CRecvPing, CAccept
  <2>2. call' \in Calls /\ call'.asm = call.asm /\ call'.pong = TRUE /\ call'.called = TRUE
        /\ call'.attempts = call.attempts
    BY <1>0, <2>1, CReadFacts, CallRunning DEF Calls
  <2>3. CallFits
    BY <1>0, <2>1, <2>2, CReadFacts DEF CallFits, Typed, Running
  <2>4. QED
    BY <2>1, <2>2, <2>3, CMarkedKeeps
<1>4. QED
  BY <1>1, <1>2, <1>3

LEMMA CRecvRekeyKeeps ==
    ASSUME IInv, port = "c", UNCHANGED port, NEW f, CRecvRekey(f) PROVE IInv'
<1>0. Typed /\ "B" \in Peers
  BY OtherFacts DEF IInv
<1>1. /\ CRead(f) /\ f.type = "REKEY" /\ Rotate("B", f.data[1]) /\ CountControl
      /\ UNCHANGED <<last_rx_seq, job, got>>
  BY DEF CRecvRekey, CAccept
<1>2. f.data[1] \in Salts /\ f.data[1] <= salts
  BY <1>0, <1>1, CReadFacts, FrameFacts DEF IInv, Once, SealedOnce
<1>3. last_rx_seq' \in [Peers -> Nat \union {-1}]
  BY <1>0, <1>1 DEF Typed, Keyed
<1>4. Keyed' /\ DeadStays
  BY <1>0, <1>1, <1>2, <1>3, CReadFacts, RotatedDead
<1>5. CallFits /\ (call'.asm = call.asm \/ call'.asm = <<>>)
  BY <1>0, <1>1, CReadFacts, Counted
<1>6. QED
  BY <1>0, <1>1, <1>4, <1>5, CReadFacts, JobsSame, CQuietKeeps

LEMMA CStartPongKeeps ==
    ASSUME IInv, port = "c", UNCHANGED port, CStartPong PROVE IInv'
<1>0. Typed /\ "B" \in Peers /\ salts \in Nat /\ script \in [Peers -> Seq(Operations)]
  BY OtherFacts DEF IInv, Typed, Keyed, Running
<1>1. /\ Emit("B", "pong", ControlOf["pong"], <<>>) /\ call.called /\ call.pong
      /\ UNCHANGED <<gen, rx_seq, rx_window_bitmap, last_rx_seq, read_buffer, rcv, up, got,
                     sent, confirmed, interrupts, salts, script, slot, call>>
  BY DEF CStartPong, history, cvars, ControlOf
<1>2. QED
  BY <1>0, <1>1, ControlKeeps

LEMMA CFinishPongKeeps ==
    ASSUME IInv, port = "c", UNCHANGED port, CFinishPong PROVE IInv'
<1>0. Typed /\ "B" \in Peers
  BY OtherFacts DEF IInv
<1>1. /\ job' = [job EXCEPT !["B"] = Idle] /\ CountControl /\ job["B"].op = "pong"
      /\ UNCHANGED <<script, keyvars, last_rx_seq, read_buffer, rcv, net, salts, sent, got,
                     confirmed, interrupts, slot>>
  BY DEF CFinishPong, history
<1>2. JobsAlike /\ job'["B"].op = "none"
  BY <1>0, <1>1, JobEnds DEF Typed, Running, Idle
<1>3. call.called /\ call.attempts < MaxAttempts
  BY <1>0, <1>1 DEF Typed, OnePort
<1>4. CallFits /\ (call'.asm = call.asm \/ call'.asm = <<>>)
  BY <1>0, <1>1, <1>2, <1>3, Counted
<1>5. QED
  BY <1>0, <1>1, <1>2, <1>4, KeyedKept, CarriedKept, BufferKept, CQuietKeeps

LEMMA CRecvDataKeeps ==
    ASSUME IInv, port = "c", UNCHANGED port, NEW f, CRecvData(f) PROVE IInv'
<1>0. Typed /\ "B" \in Peers /\ Other("B") = "A" /\ "A" \in Peers
  BY OtherFacts DEF IInv
<1>1. /\ CAccept(f, DataTypes) /\ CRead(f) /\ Authentic("B", f) /\ f.type \in DataTypes
      /\ Mark("B", f.seq) /\ UNCHANGED <<gen, tx_seq, job>>
  BY DEF CRecvData, CAccept, Dropped, DataTypes
<1>2. /\ f \in Frames /\ f \in Around("B") /\ NetFits /\ BufferFits /\ SlotFits
      /\ call.called /\ ~call.pong /\ call.attempts < MaxAttempts
      /\ job["B"].op # "pong"
      /\ UNCHANGED <<script, rcv, salts, interrupts, sent, confirmed>>
  BY <1>0, <1>1, CReadFacts
<1>3. Keyed' /\ DeadStays /\ Dead("B", f)' /\ ~Dead("B", f)
  BY <1>0, <1>1, <1>2, MarkedDead
<1>4. PICK whole : whole = Append(call.asm, f.data)
  OBVIOUS
<1>5. /\ f.data \in Fragments /\ f.seq \in Nat /\ call.asm \in Seq(Fragments)
      /\ whole \in Seq(Fragments)
  BY <1>0, <1>1, <1>2, <1>4, FrameFacts, CallRunning DEF Assemblies
<1>6. CASE Fail /\ UNCHANGED got
  <2>1. CallFits /\ call'.asm = <<>>
    BY <1>0, <1>1, <1>2, <1>6, Returned
  <2>2. QED
    BY <1>1, <1>6, <2>1, CMarkedKeeps
<1>7. ASSUME CallFits,
             \/ call'.asm = whole /\ UNCHANGED got
             \/ call'.asm = <<>> /\ got' = [got EXCEPT !["A"] = Append(@, whole)]
      PROVE  IInv'
  <2>1. /\ Assembled("B") = call.asm /\ Assembled("B")' = call'.asm
        /\ Assembled("A")' = Assembled("A")
    BY <1>2 DEF Assembled
  <2>2. Takes("B", f)
    BY <1>0, <1>4, <1>7, <2>1 DEF Takes
  <2>3. StreamFits
    BY <1>0, <1>1, <1>2, <1>3, <2>1, <2>2, TakenFits DEF Fragment
  <2>4. got' \in [Peers -> Seq(Seq(Fragments))]
    <3>1. CASE UNCHANGED got
      BY <1>0, <3>1 DEF Typed, Told
    <3>2. CASE got' = [got EXCEPT !["A"] = Append(got["A"], whole)]
      <4>1. Append(got["A"], whole) \in Seq(Seq(Fragments))
        BY <1>0, <1>5 DEF Typed, Told
      <4>2. QED
        BY <1>0, <3>2, <4>1 DEF Typed, Told
    <3>3. QED
      BY <1>7, <3>1, <3>2
  <2>5. QED
    BY <1>0, <1>1, <1>2, <1>3, <1>7, <2>3, <2>4, JobsSame, CStepKeeps
<1>8. CASE Return /\ got' = [got EXCEPT !["A"] = Append(@, whole)]
  BY <1>0, <1>1, <1>2, <1>7, <1>8, Returned
<1>9. CASE /\ UNCHANGED <<up, got>> /\ Len(whole) < MaxFrags
           /\ call' = [call EXCEPT !.asm = whole, !.expected = f.seq + 1, !.attempts = @ + 1]
  <2>1. call.attempts + 1 \in 0 .. MaxAttempts /\ f.seq + 1 \in Nat /\ whole \in Assemblies
    BY <1>0, <1>2, <1>5, <1>9, CallRunning, AttemptsAssumption DEF Assemblies
  <2>2. call' \in Calls /\ call'.asm = whole /\ call'.pong = FALSE
    BY <1>0, <1>2, <1>9, <2>1, CallRunning DEF Calls
  <2>3. CallFits
    BY <1>0, <1>1, <1>2, <1>9, <2>2 DEF CallFits, Typed, Running
  <2>4. QED
    BY <1>7, <1>9, <2>2, <2>3
<1>10. QED
  BY <1>4, <1>6, <1>8, <1>9 DEF CRecvData

-----------------------------------------------------------------------------
(* The invariant                                                             *)

LEMMA CPeerKeeps == ASSUME IInv, port = "c", UNCHANGED port, CPeer PROVE IInv'
<1>0. "B" \in Peers
  BY OtherFacts
<1>1. CASE CStart
  <2>1. NotC
    BY <1>1 DEF CStart, NotC
  <2>2. QED
    BY <1>0, <1>1, <2>1, StartSendKeeps, StartControlKeeps DEF CStart
<1>2. CASE CSending
  <2>1. NotC
    BY <1>2 DEF CSending, NotC
  <2>2. QED
    BY <1>0, <1>2, <2>1, RetransmitKeeps, NextFragmentKeeps, FinishSendKeeps, FinishRekeyKeeps,
       FinishPingKeeps, FinishByeKeeps, FeedAckKeeps DEF CSending
<1>3. CASE CGiveUp
  BY <1>3, CSendFailedKeeps
<1>4. CASE \E f \in net["B"] : CFeedFrame(f)
  BY <1>4, CFeedFrameKeeps
<1>5. CASE CReceiving
  BY <1>5, CRecvKeeps, CPollKeeps, CStartPongKeeps, CFinishPongKeeps, CDropKeeps, CControlKeeps,
     CRecvRekeyKeeps, CRecvDataKeeps DEF CReceiving
<1>6. CASE Lose("B") /\ UNCHANGED cvars
  <2>1. NotC
    BY <1>6 DEF NotC
  <2>2. QED
    BY <1>0, <1>6, <2>1, LoseKeeps
<1>7. QED
  BY <1>1, <1>2, <1>3, <1>4, <1>5, <1>6 DEF CPeer

LEMMA NextIInv == IInv /\ [CNext]_<<vars, cvars, port>> => IInv'
<1> SUFFICES ASSUME IInv, [CNext]_<<vars, cvars, port>> PROVE IInv'
  OBVIOUS
<1>1. CASE port = "python" /\ Next /\ UNCHANGED cvars /\ UNCHANGED port
  <2>1. NotC
    BY <1>1 DEF NotC
  <2>2. QED
    BY <1>1, <2>1, PythonKeeps DEF Next
<1>2. CASE port = "c" /\ PythonPeer /\ UNCHANGED port
  <2>1. NotC /\ "A" \in Peers
    BY <1>2, OtherFacts DEF PythonPeer, NotC
  <2>2. Application("A") \/ Writing("A") \/ Datagrams("A") \/ Receiving("A")
    BY <1>2 DEF PythonPeer
  <2>3. QED
    BY <2>1, <2>2, PythonKeeps
<1>3. CASE port = "c" /\ CPeer /\ UNCHANGED port
  BY <1>3, CPeerKeeps
<1>4. CASE UNCHANGED <<vars, cvars, port>>
  <2>1. UNCHANGED <<script, keyvars, last_rx_seq, read_buffer, job, rcv, up, net, salts, sent,
                    got, confirmed, interrupts, call, slot, port>>
    BY <1>4 DEF vars, history, cvars
  <2>2. QED
    BY <2>1, CarriedKept, BufferKept, JobsSame, RcvSame, PassiveKeeps DEF IInv
<1>5. QED
  BY <1>1, <1>2, <1>3, <1>4 DEF CNext

LEMMA InitIInv == CInit => IInv
<1> SUFFICES ASSUME CInit PROVE IInv
  OBVIOUS
<1>1. PICK any \in {Scripts, CScripts} :
        \E onTimely \in {TimelyScripts, CTimelyScripts} :
            \E interrupted \in {InterruptedScripts, {}} :
                /\ InitWith(any, onTimely, interrupted)
                /\ any \union onTimely \union interrupted \subseteq
                     Scripts \union TimelyScripts \union InterruptedScripts
                       \union CScripts \union CTimelyScripts
  <2>1. CASE Init
    BY <2>1 DEF Init
  <2>2. CASE InitWith(CScripts, CTimelyScripts, {})
    BY <2>2
  <2>3. QED
    BY <2>1, <2>2 DEF CInit
<1>2. /\ script \in [Peers -> Seq(Operations)] /\ interrupts \in BOOLEAN
      /\ gen = [p \in Peers |-> <<>>]
      /\ tx_seq = [p \in Peers |-> 0]
      /\ rx_seq = [p \in Peers |-> 0]
      /\ rx_window_bitmap = [p \in Peers |-> {}]
      /\ last_rx_seq = [p \in Peers |-> -1]
      /\ read_buffer = [p \in Peers |-> <<>>]
      /\ job = [p \in Peers |-> Idle]
      /\ rcv = [p \in Peers |-> Reading]
      /\ up = [p \in Peers |-> TRUE]
      /\ net = [p \in Peers |-> {}]
      /\ salts = 0
      /\ sent = [p \in Peers |-> <<>>]
      /\ got = [p \in Peers |-> <<>>]
      /\ confirmed = [p \in Peers |-> {}]
  <2>1. \A s \in Scripts \union TimelyScripts \union InterruptedScripts
                  \union CScripts \union CTimelyScripts : s \in [Peers -> Seq(Operations)]
    BY ScriptsAssumption, CScriptsAssumption DEF AreScripts
  <2>2. QED
    BY <1>1, <2>1 DEF InitWith
<1>3. call = NotCalled /\ slot = Empty /\ port \in {"python", "c"}
  BY DEF CInit
<1>4. Idle \in Jobs /\ Idle.op = "none" /\ Reading \in RcvStates /\ Reading.asm = <<>>
      /\ NotCalled.called = FALSE /\ NotCalled.asm = <<>>
  BY ReadingTyped, CallStates DEF Idle, Jobs
<1>5. Keyed
  BY <1>2 DEF Keyed, Bits
<1>6. Carried
  <2>1. Len(<<>>) <= BufferCap /\ <<>> \in Seq(Frames)
    BY UdpSessionAssumption
  <2>2. QED
    BY <1>2, <1>3, <2>1 DEF Carried
<1>7. Running
  BY <1>2, <1>3, <1>4 DEF Running
<1>8. Told
  BY <1>2 DEF Told
<1>9. OnePort
  BY <1>2, <1>3, <1>4, OtherFacts DEF OnePort
<1>10. \A p \in Peers : JobFits(p)
  BY <1>2, <1>4 DEF JobFits
<1>11. \A q \in Peers : Around(q) = {}
  <2>1. \A q \in Peers : Buffered(q) = {} /\ PutBy(q) = {} /\ Pending(Other(q)) = {}
    BY <1>2, <1>3, <1>4, OtherFacts DEF Buffered, PutBy, Pending
  <2>2. QED
    BY <1>2, <2>1 DEF Around
<1>12. \A p \in Peers : Stream(p) = Append(<<>>, <<>>)
  BY <1>2, <1>3, <1>4, OtherFacts DEF Stream, Assembled
<1>13. \A k \in DOMAIN Append(<<>>, <<>>) : DOMAIN Append(<<>>, <<>>)[k] = {}
  OBVIOUS
<1>14. Once
  BY <1>11, <1>12, <1>13 DEF Once, SealedOnce, TakenOnce, Distinct
<1>15. QED
  BY <1>5, <1>6, <1>7, <1>8, <1>9, <1>10, <1>14 DEF IInv, Typed

LEMMA Invariant == CSpec => []IInv
  BY InitIInv, NextIInv, PTL DEF CSpec

LEMMA TypedIsTypeOK == IInv => CTypeOK
<1> SUFFICES ASSUME IInv PROVE CTypeOK
  OBVIOUS
<1>0. Typed
  BY DEF IInv
<1>1. ASSUME NEW p \in Peers
      PROVE  /\ tx_seq[p] \in Nat /\ rx_seq[p] \in Nat
             /\ rx_window_bitmap[p] \subseteq Bits
             /\ last_rx_seq[p] \in Nat \union {-1}
             /\ Len(read_buffer[p]) <= BufferCap
             /\ Len(rcv[p].asm) < MaxFrags
             /\ gen[p] \in Seq(1 .. salts)
             /\ job[p] # Idle => job[p].frame.type \in FrameTypes
             /\ confirmed[p] \subseteq DOMAIN sent[p]
  <2>1. /\ tx_seq[p] \in Nat /\ rx_seq[p] \in Nat /\ rx_window_bitmap[p] \subseteq Bits
        /\ last_rx_seq[p] \in Nat \union {-1}
    BY <1>0 DEF Typed, Keyed
  <2>2. gen[p] \in Seq(1 .. salts)
    <3>1. gen[p] \in Seq(Salts) /\ salts \in Nat /\ \A i \in DOMAIN gen[p] : gen[p][i] <= salts
      BY <1>0 DEF Typed, Keyed
    <3>2. \A i \in 1 .. Len(gen[p]) : gen[p][i] \in 1 .. salts
      BY <3>1 DEF Salts
    <3>3. QED
      BY <3>1, <3>2
  <2>3. Len(read_buffer[p]) <= BufferCap /\ Len(rcv[p].asm) < MaxFrags
        /\ confirmed[p] \subseteq DOMAIN sent[p]
    BY <1>0, RcvFacts DEF Typed, Carried, Told, Assemblies
  <2>4. job[p] # Idle => job[p].frame.type \in FrameTypes
    BY <1>0, JobFacts, FrameFacts
  <2>5. QED
    BY <2>1, <2>2, <2>3, <2>4
<1>2. TypeOK
  BY <1>0, <1>1 DEF TypeOK, Typed, Running
<1>3. CallTyped(call)
  BY <1>0, CallFacts
<1>4. slot # Empty => slot.type \in FrameTypes
  BY <1>0, FrameFacts DEF Typed, Carried
<1>5. QED
  BY <1>2, <1>3, <1>4 DEF CTypeOK, CallTyped, Assemblies

(* At every step of a session over UDP, between two Python peers or with a    *)
(* device in C, the windows, buffers, partial messages and counters of both   *)
(* ends are in their ranges, and every key in use is made of drawn salts.     *)
THEOREM TypeCorrect == CSpec => []CTypeOK
  BY Invariant, TypedIsTypeOK, PTL

LEMMA IsDeliveredOnce == IInv => DeliveredOnce
<1> SUFFICES ASSUME IInv, NEW p \in Peers, NEW k \in DOMAIN got[p], NEW l \in DOMAIN got[p],
                    NEW i \in DOMAIN got[p][k], NEW j \in DOMAIN got[p][l],
                    got[p][k][i] = got[p][l][j]
             PROVE  k = l /\ i = j
  BY DEF DeliveredOnce
<1>1. got[p] \in Seq(Seq(Fragments)) /\ Assembled(Other(p)) \in Seq(Fragments)
      /\ Distinct(Stream(p))
  BY OtherFacts, StreamTyped DEF IInv, Once, TakenOnce
<1>2. \A n \in DOMAIN got[p] : n \in DOMAIN Stream(p) /\ Stream(p)[n] = got[p][n]
  BY <1>1 DEF Stream
<1>3. QED
  BY <1>1, <1>2 DEF Distinct

(* Whatever is lost, delivered again, retransmitted, given up or sent under  *)
(* new keys, no fragment is handed to an application twice: _session.py      *)
(* 164-179 and usmp_session.c's window.                                      *)
THEOREM NeverTwice == CSpec => []DeliveredOnce
  BY Invariant, IsDeliveredOnce, PTL

-----------------------------------------------------------------------------
(* Alive frames                                                              *)

LEMMA AliveFacts ==
    ASSUME Typed, NEW q \in Peers, NEW f \in Alive(q)
    PROVE  /\ f \in Around(q) /\ f \in Frames /\ ~Dead(q, f)
           /\ f.gen \in Seq(Salts) /\ f.seq \in Nat /\ Len(f.gen) \in Nat
           /\ f.type \in FrameTypes /\ (Fragment(f) => f.data \in Fragments)
           /\ \/ f.gen = gen[q] /\ Fresh(rx_seq[q], rx_window_bitmap[q], f.seq)
              \/ Len(f.gen) > Len(gen[q])
<1>1. f \in Around(q) /\ f \in Frames /\ ~Dead(q, f)
  BY AroundTyped DEF Alive
<1>2. f.gen \in Seq(Salts) /\ f.seq \in Nat /\ f.type \in FrameTypes
      /\ (Fragment(f) => f.data \in Fragments)
  BY <1>1, FrameFacts DEF Fragment
<1>3. Len(f.gen) \in Nat /\ Len(gen[q]) \in Nat
  BY <1>2 DEF Typed, Keyed
<1>4. \/ f.gen = gen[q] /\ Fresh(rx_seq[q], rx_window_bitmap[q], f.seq)
      \/ Len(f.gen) > Len(gen[q])
  BY <1>1, <1>3 DEF Dead
<1>5. QED
  BY <1>1, <1>2, <1>3, <1>4

(* Alive frames are ordered, next to one that is sealed under the keys of q. *)
LEMMA AliveOrdered ==
    ASSUME Typed, NEW q \in Peers, Ranked(q), NEW h \in Alive(q), h.gen = gen[q],
           NEW g \in Alive(q)
    PROVE  g = h \/ Before(g, h) \/ Before(h, g)
<1>1. /\ h \in Around(q) /\ g \in Around(q) /\ h.seq \in Nat /\ g.seq \in Nat
      /\ g.gen = h.gen \/ Len(g.gen) > Len(h.gen)
  BY AliveFacts
<1>2. QED
  BY <1>1 DEF Ranked, Before

LEMMA BufferTyped ==
    ASSUME Typed, NEW q \in Peers
    PROVE  /\ read_buffer[q] \in Seq(Frames) /\ Len(read_buffer[q]) \in Nat
           /\ DOMAIN read_buffer[q] = 1 .. Len(read_buffer[q])
           /\ Buffered(q) \subseteq Around(q)
<1>1. read_buffer[q] \in Seq(Frames)
  BY DEF Typed, Carried
<1>2. QED
  BY <1>1 DEF Around

LEMMA ExpectedTyped ==
    ASSUME Typed, NEW q \in Peers, Assembled(q) # <<>>
    PROVE  Expected(q) \in Nat /\ Len(Assembled(q)) \in Nat
<1>1. Len(Assembled(q)) \in Nat
  BY StreamTyped
<1>2. CASE q = "B" /\ port = "c"
  <2>1. CallTyped(call)
    BY CallFacts
  <2>2. call.called
    BY <1>2, <2>1 DEF CallTyped, Assembled
  <2>3. QED
    BY <1>1, <1>2, <2>1, <2>2 DEF CallTyped, Expected
<1>3. CASE ~(q = "B" /\ port = "c")
  BY <1>1, <1>3, RcvFacts DEF Expected
<1>4. QED
  BY <1>2, <1>3

-----------------------------------------------------------------------------
(* A step that seals nothing, takes nothing and rotates no keys              *)

LEMMA BufferStays ==
    ASSUME Typed, Typed', NEW q \in Peers, BufferGoes(q), NEW f \in Buffered(q), ~Dead(q, f)
    PROVE  f \in Buffered(q)'
<1>1. /\ read_buffer[q] \in Seq(Frames) /\ Len(read_buffer[q]) \in Nat
      /\ DOMAIN read_buffer[q] = 1 .. Len(read_buffer[q])
  BY BufferTyped
<1>2. PICK i \in 1 .. Len(read_buffer[q]) : f = read_buffer[q][i]
  BY <1>1 DEF Buffered
<1>3. CASE read_buffer'[q] = read_buffer[q]
  BY <1>1, <1>2, <1>3 DEF Buffered
<1>4. CASE /\ read_buffer[q] # <<>> /\ Dead(q, Head(read_buffer[q]))
           /\ read_buffer'[q] = Tail(read_buffer[q])
  <2>1. i # 1
    BY <1>1, <1>2, <1>4
  <2>2. i - 1 \in DOMAIN Tail(read_buffer[q]) /\ Tail(read_buffer[q])[i - 1] = f
    BY <1>1, <1>2, <2>1
  <2>3. QED
    BY <1>4, <2>2 DEF Buffered
<1>5. CASE \E g \in Around(q) : read_buffer'[q] = Append(read_buffer[q], g)
  <2>1. PICK g : read_buffer'[q] = Append(read_buffer[q], g)
    BY <1>5
  <2>2. i \in DOMAIN Append(read_buffer[q], g) /\ Append(read_buffer[q], g)[i] = f
    BY <1>1, <1>2
  <2>3. QED
    BY <2>1, <2>2 DEF Buffered
<1>6. QED
  BY <1>3, <1>4, <1>5 DEF BufferGoes

(* What a calm step leaves alive. *)
LEMMA CalmAlive ==
    ASSUME Typed, Typed', NEW q \in Peers, NEW p \in Peers, p = Other(q), Linked(p, q),
           Calm(p, q)
    PROVE  /\ \A f : Dead(q, f)' <=> Dead(q, f)
           /\ Alive(q)' \subseteq Alive(q)
           /\ \A f \in Alive(q) : f \in Buffered(q) => f \in Alive(q)' /\ f \in Buffered(q)'
           /\ Going(p)' => Going(p) /\ Alive(q) \subseteq Alive(q)'
           /\ Stream(p)' = Stream(p)
           /\ \A d : Waits(q, d) => Waits(q, d)'
           /\ \A d : Secured(p, q, d) => Secured(p, q, d)'
           /\ \A g : Turned(q, g) => Turned(q, g)'
<1>0. UNCHANGED <<gen, rx_seq[q], rx_window_bitmap[q], got[p], Assembled(q)>> /\ Other(p) = q
      /\ BufferGoes(q) /\ Around(q)' \subseteq Around(q) /\ JobGoes(p) /\ (up'[p] => up[p])
  BY OtherFacts DEF Calm
<1>1. \A f : Dead(q, f)' <=> Dead(q, f)
  BY <1>0 DEF Dead
<1>2. Alive(q)' \subseteq Alive(q)
  BY <1>0, <1>1 DEF Alive
<1>3. ASSUME NEW f \in Alive(q), f \in Buffered(q)
      PROVE  f \in Alive(q)' /\ f \in Buffered(q)'
  <2>1. f \in Buffered(q)'
    BY <1>0, <1>3, BufferStays DEF Alive
  <2>2. QED
    BY <1>1, <1>3, <2>1 DEF Alive, Around
<1>4. ASSUME Going(p)'
      PROVE  Going(p) /\ Alive(q) \subseteq Alive(q)'
  <2>1. Going(p)
    BY <1>0, <1>4 DEF Going, JobGoes
  <2>2. ASSUME NEW f \in Alive(q), f \notin Buffered(q) PROVE f \in Alive(q)'
    <3>1. ~Answered(p) /\ f = job[p].frame
      BY <2>1, <2>2 DEF Linked, Waiting, Placed
    <3>2. job[p].op # "none" /\ ~job[p].acked
      BY <3>1 DEF Answered
    <3>3. job'[p].op # "none" /\ job'[p].frame = f
      BY <1>0, <1>4, <3>1, <3>2 DEF JobGoes, Going
    <3>4. f \in Pending(p)'
      BY <3>3 DEF Pending
    <3>5. QED
      BY <1>0, <1>1, <2>2, <3>4 DEF Alive, Around
  <2>3. QED
    BY <1>3, <2>1, <2>2
<1>5. Stream(p)' = Stream(p)
  BY <1>0 DEF Stream
<1>6. \A d : Waits(q, d) => Waits(q, d)'
  BY <1>3 DEF Waits, Carries, Fragment
<1>7. \A d : Secured(p, q, d) => Secured(p, q, d)'
  BY <1>5, <1>6 DEF Secured, Holds
<1>8. \A g : Turned(q, g) => Turned(q, g)'
  BY <1>3 DEF Turned, Turns
<1>9. QED
  BY <1>1, <1>2, <1>3, <1>4, <1>5, <1>6, <1>7, <1>8

LEMMA CalmNumbered ==
    ASSUME Typed, Typed', NEW q \in Peers, NEW p \in Peers, p = Other(q), Linked(p, q),
           Calm(p, q)
    PROVE  Numbered(p, q)'
<1>0. /\ UNCHANGED <<gen, tx_seq[p], sent[p]>> /\ Around(q)' \subseteq Around(q)
      /\ JobGoes(p) /\ AcksGo(p, q) /\ Numbered(p, q) /\ (Going(p)' => Going(p))
  BY CalmAlive DEF Calm, Linked
<1>1. Genuine(p, q)' /\ Ranked(q)'
  BY <1>0 DEF Numbered, Genuine, Ranked, Fragment
<1>2. ASSUME Going(p)' PROVE Latest(p, q)'
  <2>1. Latest(p, q) /\ Going(p)
    BY <1>0, <1>2 DEF Numbered
  <2>2. \/ job'[p].op = job[p].op /\ job'[p].frame = job[p].frame
        \/ job'[p].op = "none" /\ job[p].op # "rekey"
    BY <1>0, <1>2 DEF JobGoes, Going
  <2>3. \A a \in acks'[p] : a.seq \in Nat /\ (a.gen = gen[p] => a.seq < tx_seq[p])
    BY <1>0, <2>1 DEF AcksGo, Latest
  <2>4. \A f \in Around(q)' :
         \/ Len(f.gen) < Len(gen[p])
         \/ /\ f.gen = gen[p] /\ f.seq < tx_seq[p]
            /\ f.type = "REKEY" => job'[p].op = "rekey" /\ f = job'[p].frame
    BY <1>0, <2>1, <2>2 DEF Latest
  <2>5. job'[p].op # "none" => job'[p].frame.gen = gen[p] /\ job'[p].frame.seq + 1 = tx_seq[p]
    BY <2>1, <2>2 DEF Latest
  <2>6. QED
    BY <1>0, <2>3, <2>4, <2>5 DEF Latest
<1>3. QED
  BY <1>1, <1>2 DEF Numbered

LEMMA CalmRotating ==
    ASSUME Typed, Typed', NEW q \in Peers, NEW p \in Peers, p = Other(q), Linked(p, q),
           Calm(p, q)
    PROVE  Rotating(p, q)'
<1>0. /\ UNCHANGED <<gen, tx_seq[p], rx_seq[q], rx_window_bitmap[q], Assembled(q)>>
      /\ Assembled(q) # <<>> => UNCHANGED Expected(q)
      /\ Around(q)' \subseteq Around(q)
      /\ JobGoes(p) /\ Rotating(p, q) /\ (Going(p)' => Going(p))
      /\ \A f : Dead(q, f)' <=> Dead(q, f)
      /\ \A g : Turned(q, g) => Turned(q, g)'
  BY CalmAlive DEF Calm, Linked
<1>1. KeyLine(q)'
  BY <1>0 DEF Rotating, KeyLine
<1>2. ASSUME Going(p)' PROVE Keys(p, q)'
  <2>1. Keys(p, q) /\ Going(p)
    BY <1>0, <1>2 DEF Rotating
  <2>2. \/ job'[p].op = job[p].op /\ job'[p].frame = job[p].frame
        \/ job'[p].op = "none" /\ job[p].op # "rekey"
    BY <1>0, <1>2 DEF JobGoes, Going
  <2>3. CASE InTune(p, q)
    BY <1>0, <2>2, <2>3 DEF InTune, Keys
  <2>4. CASE Ahead(p, q)
    BY <1>0, <2>2, <2>4 DEF Ahead, Keys
  <2>5. CASE Lags(p, q)
    BY <1>0, <2>5 DEF Lags, Keys
  <2>6. QED
    BY <2>1, <2>3, <2>4, <2>5 DEF Keys
<1>3. QED
  BY <1>1, <1>2 DEF Rotating

(* The buffer with its dead head gone, or one frame more at its end.         *)
LEMMA CalmWaiting ==
    ASSUME Typed, Typed', NEW q \in Peers, NEW p \in Peers, p = Other(q), Linked(p, q),
           Calm(p, q)
    PROVE  Waiting(p, q)'
<1>0. /\ Around(q)' \subseteq Around(q) /\ UNCHANGED gen
      /\ JobGoes(p) /\ AcksGo(p, q) /\ BufferGoes(q) /\ Placed(p, q) /\ Queued(q)
      /\ (Going(p)' => Going(p))
      /\ \A f : Dead(q, f)' <=> Dead(q, f)
      /\ Alive(q)' \subseteq Alive(q)
      /\ \A f \in Alive(q) : f \in Buffered(q) => f \in Buffered(q)'
  BY CalmAlive DEF Calm, Linked, Waiting
<1>1. Placed(p, q)'
  <2>1. SUFFICES ASSUME NEW f \in Alive(q)', f \notin Buffered(q)'
                 PROVE  /\ \A g \in Around(q)' : ~Before(f, g)
                        /\ Going(p)' => ~Answered(p)' /\ f = job'[p].frame
    BY DEF Placed, Before
  <2>2. f \in Alive(q) /\ f \notin Buffered(q)
    BY <1>0, <2>1
  <2>3. \A g \in Around(q)' : ~Before(f, g)
    BY <1>0, <2>2 DEF Placed
  <2>4. ASSUME Going(p)' PROVE ~Answered(p)' /\ f = job'[p].frame
    <3>1. ~Answered(p) /\ f = job[p].frame
      BY <1>0, <2>2, <2>4 DEF Placed
    <3>2. ~Answered(p)'
      BY <1>0, <2>1, <2>2, <2>4, <3>1 DEF AcksGo, Alive
    <3>3. job'[p].op # "none"
      BY <3>2 DEF Answered
    <3>4. QED
      BY <1>0, <3>1, <3>2, <3>3 DEF JobGoes
  <2>5. QED
    BY <2>3, <2>4
<1>2. Queued(q)'
  <2>1. SUFFICES ASSUME NEW g \in Alive(q)', NEW i \in DOMAIN read_buffer'[q],
                        (~Dead(q, read_buffer[q][i]))', Before(g, read_buffer'[q][i])
                 PROVE  \E k \in 1 .. i - 1 : read_buffer'[q][k] = g
    BY DEF Queued, Before
  <2>2. g \in Alive(q) /\ ~Dead(q, read_buffer'[q][i])
    BY <1>0, <2>1
  <2>3. /\ read_buffer[q] \in Seq(Frames) /\ Len(read_buffer[q]) \in Nat
        /\ DOMAIN read_buffer[q] = 1 .. Len(read_buffer[q])
    BY BufferTyped
  <2>4. CASE read_buffer'[q] = read_buffer[q]
    BY <1>0, <2>1, <2>2, <2>4 DEF Queued
  <2>5. CASE /\ read_buffer[q] # <<>> /\ Dead(q, Head(read_buffer[q]))
             /\ read_buffer'[q] = Tail(read_buffer[q])
    <3>1. /\ i \in 1 .. Len(read_buffer[q]) - 1 /\ i + 1 \in DOMAIN read_buffer[q]
          /\ read_buffer'[q][i] = read_buffer[q][i + 1]
          /\ Head(read_buffer[q]) = read_buffer[q][1]
          /\ \A j \in 1 .. Len(read_buffer[q]) - 1 : Tail(read_buffer[q])[j] = read_buffer[q][j + 1]
      BY <2>1, <2>3, <2>5
    <3>2. PICK k \in 1 .. (i + 1) - 1 : read_buffer[q][k] = g
      BY <1>0, <2>1, <2>2, <3>1 DEF Queued
    <3>3. k # 1
      BY <2>2, <2>5, <3>1, <3>2 DEF Alive
    <3>4. k - 1 \in 1 .. i - 1 /\ Tail(read_buffer[q])[k - 1] = g
      BY <2>3, <3>1, <3>2, <3>3
    <3>5. QED
      BY <2>5, <3>4
  <2>6. CASE \E f \in Around(q) : read_buffer'[q] = Append(read_buffer[q], f)
    <3>1. PICK f \in Around(q) : read_buffer'[q] = Append(read_buffer[q], f)
      BY <2>6
    <3>2. /\ DOMAIN read_buffer'[q] = 1 .. Len(read_buffer[q]) + 1
          /\ read_buffer'[q][Len(read_buffer[q]) + 1] = f
          /\ \A k \in 1 .. Len(read_buffer[q]) : read_buffer'[q][k] = read_buffer[q][k]
      BY <2>3, <3>1
    <3>3. CASE i \in 1 .. Len(read_buffer[q])
      <4>1. read_buffer'[q][i] = read_buffer[q][i]
        BY <3>2, <3>3
      <4>2. PICK k \in 1 .. i - 1 : read_buffer[q][k] = g
        BY <1>0, <2>1, <2>2, <2>3, <3>3, <4>1 DEF Queued
      <4>3. k \in 1 .. Len(read_buffer[q])
        BY <2>3, <3>3, <4>2
      <4>4. QED
        BY <3>2, <4>2, <4>3
    <3>4. CASE i = Len(read_buffer[q]) + 1
      <4>1. g \in Buffered(q)
        BY <1>0, <2>1, <2>2, <3>1, <3>2, <3>4 DEF Placed
      <4>2. PICK k \in 1 .. Len(read_buffer[q]) : read_buffer[q][k] = g
        BY <2>3, <4>1 DEF Buffered
      <4>3. k \in 1 .. i - 1
        BY <2>3, <3>4, <4>2
      <4>4. QED
        BY <3>2, <4>2, <4>3
    <3>5. QED
      BY <2>1, <2>3, <3>2, <3>3, <3>4
  <2>7. QED
    BY <1>0, <2>4, <2>5, <2>6 DEF BufferGoes
<1>3. QED
  BY <1>1, <1>2 DEF Waiting

(* A message whose last fragment has been sealed has been sealed as a whole. *)
LEMMA LastEmitted ==
    ASSUME Typed, NEW p \in Peers, JobFits(p), job[p].op = "send" => job[p].frame.type # "DATA_FRAG",
           NEW m \in DOMAIN sent[p], NEW i \in DOMAIN sent[p][m]
    PROVE  Emitted(p, <<p, m, i>>)
<1>0. sent[p] \in Seq(Seq(Fragments)) /\ m \in Nat /\ i \in Nat /\ m <= Len(sent[p])
  BY DEF Typed, Told
<1>1. <<p, m, i>>[2] = m /\ <<p, m, i>>[3] = i
  OBVIOUS
<1>2. CASE job[p].op = "send" /\ m = Len(sent[p])
  <2>1. PICK n \in 1 .. MaxFrags : \E k \in 1 .. n :
               /\ sent[p][m] = Message(p, m, n)
               /\ job[p].frame.data = <<p, m, k>> /\ job[p].frame.type = FragType(k, n)
    BY <1>2 DEF JobFits
  <2>2. PICK k \in 1 .. n : job[p].frame.data = <<p, m, k>> /\ job[p].frame.type = FragType(k, n)
                            /\ sent[p][m] = Message(p, m, n)
    BY <2>1
  <2>3. k = n
    BY <1>2, <2>1, <2>2, UdpSessionAssumption DEF FragType
  <2>4. DOMAIN sent[p][m] = 1 .. n
    BY <2>2 DEF Message
  <2>5. i <= job[p].frame.data[3]
    BY <2>1, <2>2, <2>3, <2>4, UdpSessionAssumption
  <2>6. QED
    BY <1>0, <1>1, <2>5 DEF Emitted
<1>3. CASE ~(job[p].op = "send" /\ m = Len(sent[p]))
  BY <1>0, <1>1, <1>3 DEF Emitted
<1>4. QED
  BY <1>2, <1>3

(* Once the peer has answered, what was sealed is secured. *)
LEMMA AnsweredSecured ==
    ASSUME Typed, NEW q \in Peers, NEW p \in Peers, p = Other(q), Linked(p, q),
           Going(p), Answered(p)
    PROVE  /\ Alive(q) \subseteq Buffered(q)
           /\ \A m \in DOMAIN sent[p] : \A i \in DOMAIN sent[p][m] :
                Emitted(p, <<p, m, i>>) => Secured(p, q, <<p, m, i>>)
<1>1. Alive(q) \subseteq Buffered(q)
  BY DEF Linked, Waiting, Placed
<1>2. QED
  BY <1>1 DEF Linked, Complete, EmittedKept, Secured, Waits

LEMMA CalmComplete ==
    ASSUME Typed, Typed', NEW q \in Peers, NEW p \in Peers, p = Other(q), Linked(p, q),
           Calm(p, q), JobFits(p)
    PROVE  Complete(p, q)'
<1>0. /\ UNCHANGED <<sent[p], got[p], Assembled(q)>> /\ JobGoes(p) /\ ConfirmedGoes(p)
      /\ Alive(q)' \subseteq Alive(q) /\ Stream(p)' = Stream(p)
      /\ Going(p)' => Going(p) /\ Alive(q) \subseteq Alive(q)'
      /\ \A d : Secured(p, q, d) => Secured(p, q, d)'
      /\ Complete(p, q)
  BY CalmAlive DEF Calm, Linked
<1>1. \A m \in DOMAIN sent[p] : AllSecured(p, q, m) => AllSecured(p, q, m)'
  BY <1>0 DEF AllSecured
<1>2. Sooner(q)'
  BY <1>0 DEF Complete, Sooner, Fragment, PartBefore, Before
<1>3. NoneMissing(p, q)'
  <2>1. SUFFICES ASSUME NEW g \in Alive(q)', Fragment(g), NEW m \in DOMAIN sent[p],
                        NEW i \in DOMAIN sent[p][m], PartBefore(<<p, m, i>>, g.data)
                 PROVE  Secured(p, q, <<p, m, i>>)'
    BY <1>0 DEF NoneMissing, Fragment, PartBefore
  <2>2. Secured(p, q, <<p, m, i>>)
    BY <1>0, <2>1 DEF Complete, NoneMissing
  <2>3. QED
    BY <1>0, <2>2
<1>4. NoneCut(p, q)'
  <2>1. SUFFICES ASSUME NEW f \in Alive(q)', NEW g \in Alive(q)', Fragment(f), ~Fragment(g),
                        Before(f, g)
                 PROVE  AllSecured(p, q, f.data[2])'
    BY DEF NoneCut, Fragment, Before
  <2>2. AllSecured(p, q, f.data[2])
    BY <1>0, <2>1 DEF Complete, NoneCut
  <2>3. QED
    BY <1>0, <2>2 DEF AllSecured
<1>5. OneWhole(p, q)'
  <2>1. SUFFICES ASSUME Assembled(q) # <<>>, NEW g \in Alive(q)', ~Fragment(g)
                 PROVE  AllSecured(p, q, Len(got[p]) + 1)'
    BY <1>0 DEF OneWhole, Fragment, AllSecured
  <2>2. AllSecured(p, q, Len(got[p]) + 1)
    BY <1>0, <2>1 DEF Complete, OneWhole
  <2>3. QED
    BY <1>0, <2>2 DEF AllSecured
<1>6. ConfirmedKept(p, q)'
  <2>1. SUFFICES ASSUME NEW m \in confirmed'[p] PROVE AllSecured(p, q, m)'
    BY DEF ConfirmedKept, AllSecured
  <2>2. CASE m \in confirmed[p]
    <3>1. AllSecured(p, q, m)
      BY <1>0, <2>2 DEF Complete, ConfirmedKept
    <3>2. QED
      BY <1>0, <3>1 DEF AllSecured
  <2>3. CASE m \notin confirmed[p]
    <3>1. /\ job[p].op = "send" /\ job[p].acked /\ job[p].frame.type = "DATA"
          /\ m \in DOMAIN sent[p]
      <4>1. m \in DOMAIN sent'[p]
        BY <2>1 DEF Typed, Told
      <4>2. QED
        BY <1>0, <2>1, <2>3, <4>1 DEF ConfirmedGoes
    <3>2. Going(p) /\ Answered(p)
      BY <3>1 DEF Going, Answered
    <3>3. AllSecured(p, q, m)
      BY <3>1, <3>2, AnsweredSecured, LastEmitted DEF AllSecured
    <3>4. QED
      BY <1>0, <3>3 DEF AllSecured
  <2>4. QED
    BY <2>2, <2>3
<1>7. EmittedKept(p, q)'
  <2>1. SUFFICES ASSUME Going(p)', NEW m \in DOMAIN sent[p], NEW i \in DOMAIN sent[p][m],
                        Emitted(p, <<p, m, i>>)'
                 PROVE  \/ Holds(Stream(p), <<p, m, i>>)'
                        \/ \E f \in Alive(q)' : Carries(f, <<p, m, i>>)
    BY <1>0 DEF EmittedKept, Carries, Fragment
  <2>2. Emitted(p, <<p, m, i>>)
    <3>1. CASE job'[p].op = job[p].op /\ job'[p].frame = job[p].frame
      BY <1>0, <2>1, <3>1 DEF Emitted
    <3>2. CASE job[p].frame.type # "DATA_FRAG"
      BY <3>2, LastEmitted
    <3>3. QED
      BY <1>0, <2>1, <3>1, <3>2 DEF JobGoes, Going
  <2>3. \/ Holds(Stream(p), <<p, m, i>>)
        \/ \E f \in Alive(q) : Carries(f, <<p, m, i>>)
    BY <1>0, <2>1, <2>2 DEF Complete, EmittedKept
  <2>4. QED
    BY <1>0, <2>1, <2>3 DEF Holds
<1>8. QED
  BY <1>2, <1>3, <1>4, <1>5, <1>6, <1>7 DEF Complete

LEMMA CalmFollowed ==
    ASSUME Typed, Typed', NEW q \in Peers, NEW p \in Peers, p = Other(q), Linked(p, q),
           Calm(p, q)
    PROVE  Followed(p, q)' /\ InReach(p, q)'
<1>0. /\ UNCHANGED <<gen, tx_seq[p], rx_seq[q], rx_window_bitmap[q], last_rx_seq[q], sent[p],
                     got[p], Assembled(q)>>
      /\ Assembled(q) # <<>> => UNCHANGED Expected(q)
      /\ Around(q)' \subseteq Around(q) /\ Alive(q)' \subseteq Alive(q)
      /\ JobGoes(p) /\ (Going(p)' => Going(p))
      /\ Followed(p, q) /\ InReach(p, q)
  BY CalmAlive DEF Calm, Linked
<1>1. Consecutive(q)' /\ Windowed(q)'
  BY <1>0 DEF Followed, Consecutive, Windowed, Fragment
<1>2. Partial(p, q)'
  BY <1>0 DEF Followed, Partial, Fragment
<1>3. InReach(p, q)'
  <2>1. Going(p)' /\ job'[p].op = "rekey" => job[p].op = "rekey"
    BY <1>0 DEF JobGoes
  <2>2. QED
    BY <1>0, <2>1 DEF InReach, Before, Young
<1>4. QED
  BY <1>1, <1>2, <1>3 DEF Followed

LEMMA CalmKeeps ==
    ASSUME Typed, Typed', NEW q \in Peers, NEW p \in Peers, p = Other(q), Linked(p, q),
           Calm(p, q), JobFits(p)
    PROVE  Linked(p, q)'
  BY CalmNumbered, CalmRotating, CalmWaiting, CalmComplete, CalmFollowed DEF Linked

-----------------------------------------------------------------------------
(* p seals frame f                                                           *)

LEMMA SealedLast ==
    ASSUME IInv, NEW q \in Peers, NEW p \in Peers, p = Other(q), Linked(p, q),
           NEW f, Seals(p, q, f)
    PROVE  /\ f.seq \in Nat /\ Len(f.gen) \in Nat /\ Len(gen[q]) \in Nat
           /\ \A g \in Around(q) : /\ Before(g, f) /\ ~Before(f, g) /\ g # f
                                   /\ g.gen = f.gen => g.type # "REKEY" /\ g.seq < f.seq
           /\ ~Dead(q, f)
           /\ Alive(q) \subseteq Buffered(q)
           /\ f \in Around(q)' /\ Around(q)' \subseteq Around(q) \union {f}
           /\ f \in Alive(q)' /\ Alive(q) \subseteq Alive(q)'
           /\ Alive(q)' \subseteq Alive(q) \union {f}
           /\ (f.gen = gen[q] /\ InTune(p, q)) \/ (Len(f.gen) > Len(gen[q]) /\ Lags(p, q))
<1>0. /\ Typed /\ Going(p) /\ Latest(p, q) /\ Keys(p, q) /\ Windowed(q)
      /\ f \in Frames /\ f.gen = gen[p] /\ f.seq = tx_seq[p] /\ Other(p) = q
      /\ job[p].op # "rekey" /\ Answered(p) /\ up[p]
  BY OtherFacts DEF IInv, Seals, Linked, Numbered, Rotating, Going, Answered, Followed
<1>1. /\ f.seq \in Nat /\ Len(f.gen) \in Nat /\ Len(gen[q]) \in Nat
      /\ rx_seq[q] \in Nat /\ rx_window_bitmap[q] \in SUBSET Bits
  BY <1>0, FrameFacts DEF Typed, Keyed
<1>2. \A g \in Around(q) : g.seq \in Nat /\ Len(g.gen) \in Nat
  BY <1>0, AroundTyped, FrameFacts
<1>3. \A g \in Around(q) : /\ Before(g, f) /\ ~Before(f, g) /\ g # f
                           /\ g.gen = f.gen => g.type # "REKEY" /\ g.seq < f.seq
  BY <1>0, <1>1, <1>2 DEF Latest, Before
<1>4. (f.gen = gen[q] /\ InTune(p, q)) \/ (Len(f.gen) > Len(gen[q]) /\ Lags(p, q))
  BY <1>0 DEF Keys, InTune, Ahead, Lags
<1>5. ~Dead(q, f)
  <2>1. CASE f.gen = gen[q] /\ InTune(p, q)
    <3>1. CASE rx_window_bitmap[q] = {}
      <4>1. rx_seq[q] = 0
        BY <1>0, <3>1 DEF Windowed
      <4>2. Fresh(rx_seq[q], rx_window_bitmap[q], f.seq)
        BY <1>1, <3>1, <4>1, WAssumption DEF Fresh, TooOld, Duplicate
      <4>3. QED
        BY <2>1, <4>2 DEF Dead
    <3>2. CASE rx_window_bitmap[q] # {}
      <4>1. rx_seq[q] < f.seq
        BY <1>0, <2>1, <3>2 DEF InTune
      <4>2. Fresh(rx_seq[q], rx_window_bitmap[q], f.seq)
        BY <1>1, <4>1, WAssumption DEF Fresh, TooOld, Duplicate
      <4>3. QED
        BY <2>1, <4>2 DEF Dead
    <3>3. QED
      BY <3>1, <3>2
  <2>2. CASE Len(f.gen) > Len(gen[q])
    BY <1>1, <2>2 DEF Dead
  <2>3. QED
    BY <1>4, <2>1, <2>2
<1>6. Alive(q) \subseteq Buffered(q)
  BY <1>0, AnsweredSecured
<1>7. f \in Around(q)' /\ Around(q)' \subseteq Around(q) \union {f}
      /\ Buffered(q)' = Buffered(q) /\ Buffered(q) \subseteq Around(q)'
  <2>1. Buffered(q)' = Buffered(q)
    BY DEF Seals, Buffered
  <2>2. Pending(p)' = {f} /\ net'[q] = net[q] \union {f} /\ PutBy(q)' = PutBy(q)
    BY DEF Seals, Pending
  <2>3. QED
    BY <1>0, <2>1, <2>2 DEF Around
<1>8. \A g : Dead(q, g)' <=> Dead(q, g)
  BY DEF Seals, Dead
<1>9. f \in Alive(q)' /\ Alive(q) \subseteq Alive(q)' /\ Alive(q)' \subseteq Alive(q) \union {f}
  BY <1>5, <1>6, <1>7, <1>8 DEF Alive
<1>10. QED
  BY <1>1, <1>3, <1>4, <1>5, <1>6, <1>7, <1>9

LEMMA SealSecures ==
    ASSUME IInv, NEW q \in Peers, NEW p \in Peers, p = Other(q), Linked(p, q),
           NEW f, Seals(p, q, f)
    PROVE  /\ \A d : Secured(p, q, d) => Secured(p, q, d)'
           /\ \A g : Turned(q, g) => Turned(q, g)'
           /\ \A m \in DOMAIN sent[p] : AllSecured(p, q, m) => AllSecured(p, q, m)'
           /\ \A m \in DOMAIN sent[p] : \A i \in DOMAIN sent[p][m] :
                Emitted(p, <<p, m, i>>) => Secured(p, q, <<p, m, i>>)
<1>0. Typed /\ Going(p) /\ Answered(p) /\ Other(p) = q
  BY OtherFacts DEF IInv, Seals, Going, Answered
<1>1. Alive(q) \subseteq Alive(q)' /\ Buffered(q)' = Buffered(q) /\ Stream(p)' = Stream(p)
  <2>1. Alive(q) \subseteq Alive(q)'
    BY SealedLast
  <2>2. QED
    BY <1>0, <2>1 DEF Seals, Buffered, Stream
<1>2. \A d : Secured(p, q, d) => Secured(p, q, d)'
  BY <1>1 DEF Secured, Waits, Holds, Carries, Fragment
<1>3. \A g : Turned(q, g) => Turned(q, g)'
  BY <1>1 DEF Turned, Turns
<1>4. \A m \in DOMAIN sent[p] : AllSecured(p, q, m) => AllSecured(p, q, m)'
  BY <1>2 DEF AllSecured, Seals
<1>5. QED
  BY <1>0, <1>2, <1>3, <1>4, AnsweredSecured

LEMMA SealNumbered ==
    ASSUME IInv, NEW q \in Peers, NEW p \in Peers, p = Other(q), Linked(p, q),
           NEW f, Seals(p, q, f)
    PROVE  Numbered(p, q)'
<1>0. /\ f.seq \in Nat /\ Around(q)' \subseteq Around(q) \union {f}
      /\ \A g \in Around(q) : /\ Before(g, f) /\ ~Before(f, g) /\ g # f
                              /\ g.gen = f.gen => g.type # "REKEY" /\ g.seq < f.seq
      /\ Numbered(p, q) /\ Latest(p, q)
      /\ f.gen = gen[p] /\ f.seq = tx_seq[p] /\ tx_seq'[p] = f.seq + 1
      /\ UNCHANGED gen
      /\ \A m \in DOMAIN sent[p] : m \in DOMAIN sent'[p] /\ sent'[p][m] = sent[p][m]
  <2>1. /\ f.seq \in Nat /\ Around(q)' \subseteq Around(q) \union {f}
        /\ \A g \in Around(q) : /\ Before(g, f) /\ ~Before(f, g) /\ g # f
                                /\ g.gen = f.gen => g.type # "REKEY" /\ g.seq < f.seq
    BY SealedLast
  <2>2. Numbered(p, q) /\ Latest(p, q)
    BY DEF Linked, Numbered, Seals, Going
  <2>3. /\ f.gen = gen[p] /\ f.seq = tx_seq[p] /\ tx_seq'[p] = f.seq + 1 /\ UNCHANGED gen
        /\ \A m \in DOMAIN sent[p] : m \in DOMAIN sent'[p] /\ sent'[p][m] = sent[p][m]
    BY DEF Seals
  <2>4. QED
    BY <2>1, <2>2, <2>3
<1>1. Genuine(p, q)'
  <2>1. SUFFICES ASSUME NEW g \in Around(q)', Fragment(g)
                 PROVE  /\ g.data[1] = p /\ g.data[2] \in DOMAIN sent'[p]
                        /\ g.data[3] \in DOMAIN sent'[p][g.data[2]]
                        /\ g.type = FragType(g.data[3], Len(sent'[p][g.data[2]]))
    BY DEF Genuine, Fragment
  <2>2. CASE g = f
    BY <2>1, <2>2 DEF Seals, NewPart
  <2>3. CASE g \in Around(q)
    BY <1>0, <2>1, <2>3 DEF Numbered, Genuine
  <2>4. QED
    BY <1>0, <2>2, <2>3
<1>2. Ranked(q)'
  <2>1. ASSUME NEW g \in Around(q)', NEW h \in Around(q)', g.gen = h.gen, g.seq = h.seq
        PROVE  g = h
    BY <1>0, <2>1 DEF Numbered, Ranked, Before
  <2>2. ASSUME NEW g \in Around(q)', NEW r \in Around(q)', r.type = "REKEY", g.gen = r.gen
        PROVE  g = r \/ g.seq < r.seq
    BY <1>0, <2>2 DEF Numbered, Ranked, Before
  <2>3. QED
    BY <2>1, <2>2 DEF Ranked
<1>3. Latest(p, q)'
  <2>1. /\ job'[p].frame = f /\ (job'[p].op = "rekey" <=> f.type = "REKEY")
        /\ acks'[p] = acks[p] /\ Typed
    BY DEF Seals, IInv
  <2>2. \A g \in Around(q) : g.seq \in Nat /\ Len(g.gen) \in Nat
    BY <2>1, AroundTyped, FrameFacts
  <2>3. ASSUME NEW g \in Around(q)'
        PROVE  \/ Len(g.gen) < Len(gen[p])
               \/ /\ g.gen = gen[p] /\ g.seq < f.seq + 1
                  /\ g.type = "REKEY" => job'[p].op = "rekey" /\ g = job'[p].frame
    <3>1. CASE g = f
      BY <1>0, <2>1, <3>1
    <3>2. CASE g \in Around(q)
      BY <1>0, <2>2, <3>2 DEF Before
    <3>3. QED
      BY <1>0, <3>1, <3>2
  <2>4. \A a \in acks[p] : a.seq \in Nat /\ (a.gen = gen[p] => a.seq < f.seq + 1)
    BY <1>0 DEF Latest
  <2>5. QED
    BY <1>0, <2>1, <2>3, <2>4 DEF Latest
<1>4. QED
  BY <1>1, <1>2, <1>3 DEF Numbered

LEMMA SealRotating ==
    ASSUME IInv, NEW q \in Peers, NEW p \in Peers, p = Other(q), Linked(p, q),
           NEW f, Seals(p, q, f)
    PROVE  Rotating(p, q)'
<1>1. /\ Typed /\ UNCHANGED <<gen, rx_seq[q], rx_window_bitmap[q], Assembled(q), Expected(q)>>
      /\ f.gen = gen[p] /\ tx_seq'[p] = tx_seq[p] + 1 /\ job'[p].frame = f
      /\ KeyLine(q)
  BY DEF IInv, Seals, Linked, Rotating
<1>2. /\ Around(q)' \subseteq Around(q) \union {f} /\ ~Dead(q, f)
      /\ (f.gen = gen[q] /\ InTune(p, q)) \/ (Len(f.gen) > Len(gen[q]) /\ Lags(p, q))
      /\ \A g : Turned(q, g) => Turned(q, g)'
      /\ Len(f.gen) \in Nat /\ Len(gen[q]) \in Nat
  BY SealedLast, SealSecures
<1>3. KeyLine(q)'
  <2>1. SUFFICES ASSUME NEW g \in Around(q)', Len(g.gen) > Len(gen[q])
                 PROVE  Turned(q, g.gen)'
    BY <1>1 DEF KeyLine
  <2>2. CASE g \in Around(q)
    BY <1>1, <1>2, <2>1, <2>2 DEF KeyLine
  <2>3. CASE g = f
    BY <1>1, <1>2, <2>1, <2>3 DEF Lags
  <2>4. QED
    BY <1>2, <2>2, <2>3
<1>4. Keys(p, q)'
  <2>1. ~Dead(q, f)'
    BY <1>1, <1>2 DEF Dead
  <2>2. CASE InTune(p, q)
    <3>1. /\ tx_seq[p] \in Nat /\ rx_seq[q] \in Nat
          /\ Assembled(q) # <<>> => Expected(q) \in Nat
      BY <1>1, ExpectedTyped DEF Typed, Keyed
    <3>2. InTune(p, q)'
      BY <1>1, <2>1, <2>2, <3>1 DEF InTune
    <3>3. QED
      BY <3>2 DEF Keys
  <2>3. CASE Lags(p, q)
    BY <1>1, <1>2, <2>3 DEF Lags, Keys
  <2>4. QED
    BY <1>2, <2>2, <2>3
<1>5. QED
  BY <1>3, <1>4 DEF Rotating

LEMMA SealWaiting ==
    ASSUME IInv, NEW q \in Peers, NEW p \in Peers, p = Other(q), Linked(p, q),
           NEW f, Seals(p, q, f)
    PROVE  Waiting(p, q)'
<1>1. /\ Around(q)' \subseteq Around(q) \union {f}
      /\ \A g \in Around(q) : ~Before(f, g)
      /\ Alive(q) \subseteq Buffered(q) /\ Alive(q)' \subseteq Alive(q) \union {f}
      /\ f.seq \in Nat /\ Len(f.gen) \in Nat
  BY SealedLast
<1>2. /\ Typed /\ UNCHANGED <<gen, rx_seq[q], rx_window_bitmap[q], read_buffer[q], acks[p]>>
      /\ f.gen = gen[p] /\ f.seq = tx_seq[p]
      /\ job'[p].op # "none" /\ job'[p].frame = f /\ job'[p].acked = FALSE
      /\ Latest(p, q) /\ Queued(q)
  BY DEF IInv, Seals, Linked, Numbered, Going, Waiting
<1>3. ~Before(f, f)
  BY <1>1 DEF Before
<1>4. Buffered(q)' = Buffered(q)
  BY <1>2 DEF Buffered
<1>5. ~Answered(p)'
  BY <1>1, <1>2 DEF Answered, AckMatches, Latest
<1>6. Placed(p, q)'
  <2>1. SUFFICES ASSUME NEW g \in Alive(q)', g \notin Buffered(q)
                 PROVE  /\ \A h \in Around(q)' : ~Before(g, h)
                        /\ ~Answered(p)' /\ g = job'[p].frame
    BY <1>4 DEF Placed, Before
  <2>2. g = f
    BY <1>1, <2>1
  <2>3. QED
    BY <1>1, <1>2, <1>3, <1>5, <2>2
<1>7. Queued(q)'
  <2>1. SUFFICES ASSUME NEW g \in Alive(q)', NEW i \in DOMAIN read_buffer[q],
                        ~Dead(q, read_buffer[q][i]), Before(g, read_buffer[q][i])
                 PROVE  \E k \in 1 .. i - 1 : read_buffer[q][k] = g
    BY <1>2 DEF Queued, Before, Dead
  <2>2. read_buffer[q][i] \in Around(q)
    BY <1>2, <2>1 DEF Around, Buffered
  <2>3. g \in Alive(q)
    BY <1>1, <2>1, <2>2
  <2>4. QED
    BY <1>2, <2>1, <2>3 DEF Queued
<1>8. QED
  BY <1>6, <1>7 DEF Waiting

LEMMA SealComplete ==
    ASSUME IInv, IInv', NEW q \in Peers, NEW p \in Peers, p = Other(q), Linked(p, q),
           NEW f, Seals(p, q, f)
    PROVE  Complete(p, q)'
<1>0. /\ f.seq \in Nat /\ Len(f.gen) \in Nat
      /\ \A g \in Around(q) : Before(g, f) /\ ~Before(f, g)
      /\ Alive(q) \subseteq Alive(q)' /\ Alive(q)' \subseteq Alive(q) \union {f}
      /\ f \in Alive(q)' /\ Alive(q) \subseteq Around(q)
  BY SealedLast DEF Alive
<1>1. /\ \A d : Secured(p, q, d) => Secured(p, q, d)'
      /\ \A m \in DOMAIN sent[p] : AllSecured(p, q, m) => AllSecured(p, q, m)'
      /\ \A m \in DOMAIN sent[p] : \A i \in DOMAIN sent[p][m] :
           Emitted(p, <<p, m, i>>) => Secured(p, q, <<p, m, i>>)
  BY SealSecures
<1>2. /\ Typed /\ SealedOnce /\ Other(q) = p /\ Other(p) = q
      /\ UNCHANGED <<got[p], Assembled(q), confirmed[p]>>
      /\ \A m \in DOMAIN sent[p] : m \in DOMAIN sent'[p] /\ sent'[p][m] = sent[p][m]
      /\ Fragment(f) => NewPart(p, f)
      /\ Complete(p, q) /\ Genuine(p, q) /\ Partial(p, q) /\ Going(p)
      /\ f \in Frames
  BY OtherFacts DEF IInv, Once, Seals, Linked, Numbered, Followed, Going
<1>3. \A g \in Around(q) : Fragment(g) => g.data \in Fragments /\ Emitted(p, g.data)
  BY <1>2, AroundTyped, FrameFacts DEF SealedOnce, Fragment
<1>4. \A m \in DOMAIN sent[p] : ~Fragment(f) => AllSecured(p, q, m)
  BY <1>1 DEF AllSecured, Seals
<1>5. Sooner(q)'
  <2>1. SUFFICES ASSUME NEW g \in Alive(q)', NEW h \in Alive(q)', Fragment(g), Fragment(h),
                        PartBefore(g.data, h.data)
                 PROVE  Before(g, h)
    BY DEF Sooner, Fragment, PartBefore, Before
  <2>2. CASE g \in Alive(q) /\ h \in Alive(q)
    BY <1>2, <2>1, <2>2 DEF Complete, Sooner
  <2>3. CASE h = f /\ g \in Alive(q)
    BY <1>0, <2>3
  <2>4. CASE g = f
    <3>1. /\ g.data[2] \in Nat /\ g.data[3] \in Nat /\ h.data[2] \in Nat /\ h.data[3] \in Nat
          /\ f.data \in Fragments
      <4>1. g.data \in Fragments /\ f.data \in Fragments
        BY <1>2, <2>1, <2>4, FrameFacts DEF Fragment
      <4>2. h.data \in Fragments
        BY <1>0, <1>3, <2>1, <2>4, <4>1
      <4>3. QED
        BY <4>1, <4>2, FragmentFacts
    <3>2. h \in Alive(q)
      <4>1. h # f
        BY <2>1, <2>4, <3>1 DEF PartBefore
      <4>2. QED
        BY <1>0, <2>1, <4>1
    <3>3. PartBefore(h.data, g.data)
      BY <1>0, <1>2, <1>3, <2>1, <2>4, <3>2 DEF NewPart
    <3>4. QED
      BY <2>1, <3>1, <3>3 DEF PartBefore
  <2>5. QED
    BY <1>0, <2>1, <2>2, <2>3, <2>4
<1>6. NoneMissing(p, q)'
  <2>1. SUFFICES ASSUME NEW g \in Alive(q)', Fragment(g), NEW m \in DOMAIN sent'[p],
                        NEW i \in DOMAIN sent'[p][m], PartBefore(<<p, m, i>>, g.data)
                 PROVE  Secured(p, q, <<p, m, i>>)'
    BY DEF NoneMissing, Fragment, PartBefore
  <2>2. CASE g \in Alive(q)
    <3>1. g.data[2] \in DOMAIN sent[p] /\ sent[p] \in Seq(Seq(Fragments))
      BY <1>0, <1>2, <2>1, <2>2 DEF Genuine, Typed, Told
    <3>2. m \in Nat /\ m >= 1 /\ <<p, m, i>>[2] = m
      <4>1. sent'[p] \in Seq(Seq(Fragments))
        <5>1. IInv'
          OBVIOUS
        <5>2. QED
          BY <5>1 DEF IInv, Typed, Told
      <4>2. QED
        BY <2>1, <4>1
    <3>3. m \in DOMAIN sent[p]
      BY <2>1, <3>1, <3>2 DEF PartBefore
    <3>4. Secured(p, q, <<p, m, i>>)
      BY <1>2, <2>1, <2>2, <3>3 DEF Complete, NoneMissing
    <3>5. QED
      BY <1>1, <3>4
  <2>3. CASE g = f
    <3>1. m \in DOMAIN sent[p] /\ Emitted(p, <<p, m, i>>)
      BY <1>2, <2>1, <2>3 DEF NewPart
    <3>2. QED
      BY <1>1, <1>2, <2>1, <3>1
  <2>4. QED
    BY <1>0, <2>2, <2>3
<1>7. NoneCut(p, q)'
  <2>1. SUFFICES ASSUME NEW g \in Alive(q)', NEW h \in Alive(q)', Fragment(g), ~Fragment(h),
                        Before(g, h)
                 PROVE  AllSecured(p, q, g.data[2])'
    BY DEF NoneCut, Fragment, Before
  <2>2. g \in Alive(q)
    <3>1. ~(g = f /\ h \in Alive(q))
      BY <1>0, <2>1
    <3>2. QED
      BY <1>0, <2>1, <3>1
  <2>3. g.data[2] \in DOMAIN sent[p]
    BY <1>0, <1>2, <2>1, <2>2 DEF Genuine
  <2>4. AllSecured(p, q, g.data[2])
    <3>1. CASE h = f
      BY <1>4, <2>1, <2>3, <3>1
    <3>2. CASE h \in Alive(q)
      BY <1>2, <2>1, <2>2, <3>2 DEF Complete, NoneCut
    <3>3. QED
      BY <1>0, <3>1, <3>2
  <2>5. QED
    BY <1>1, <2>3, <2>4
<1>8. OneWhole(p, q)'
  <2>1. SUFFICES ASSUME Assembled(q) # <<>>, NEW g \in Alive(q)', ~Fragment(g)
                 PROVE  AllSecured(p, q, Len(got[p]) + 1)'
    BY <1>2 DEF OneWhole, Fragment, AllSecured
  <2>2. Len(got[p]) + 1 \in DOMAIN sent[p]
    BY <1>2, <2>1 DEF Partial
  <2>3. AllSecured(p, q, Len(got[p]) + 1)
    <3>1. CASE g = f
      BY <1>4, <2>1, <2>2, <3>1
    <3>2. CASE g \in Alive(q)
      BY <1>2, <2>1, <3>2 DEF Complete, OneWhole
    <3>3. QED
      BY <1>0, <3>1, <3>2
  <2>4. QED
    BY <1>1, <1>2, <2>2, <2>3
<1>9. ConfirmedKept(p, q)'
  <2>1. SUFFICES ASSUME NEW m \in confirmed[p] PROVE AllSecured(p, q, m)'
    BY <1>2 DEF ConfirmedKept, AllSecured
  <2>2. m \in DOMAIN sent[p] /\ AllSecured(p, q, m)
    BY <1>2 DEF Typed, Told, Complete, ConfirmedKept
  <2>3. QED
    BY <1>1, <2>2
<1>10. EmittedKept(p, q)'
  <2>1. SUFFICES ASSUME NEW m \in DOMAIN sent'[p], NEW i \in DOMAIN sent'[p][m],
                        Emitted(p, <<p, m, i>>)'
                 PROVE  \/ Holds(Stream(p), <<p, m, i>>)'
                        \/ \E g \in Alive(q)' : Carries(g, <<p, m, i>>)
    BY DEF EmittedKept, Carries, Fragment
  <2>2. CASE Carries(f, <<p, m, i>>)
    BY <1>0, <2>2
  <2>3. CASE ~Carries(f, <<p, m, i>>)
    <3>1. m \in DOMAIN sent[p] /\ Emitted(p, <<p, m, i>>)
      BY <2>1, <2>3 DEF Seals
    <3>2. \/ Holds(Stream(p), <<p, m, i>>)
          \/ \E g \in Alive(q) : Carries(g, <<p, m, i>>)
      BY <1>2, <2>1, <3>1 DEF Complete, EmittedKept
    <3>3. Stream(p)' = Stream(p)
      BY <1>2 DEF Stream
    <3>4. QED
      BY <1>0, <3>2, <3>3 DEF Holds
  <2>4. QED
    BY <2>2, <2>3
<1>11. QED
  BY <1>5, <1>6, <1>7, <1>8, <1>9, <1>10 DEF Complete

LEMMA SealFollowed ==
    ASSUME IInv, NEW q \in Peers, NEW p \in Peers, p = Other(q), Linked(p, q),
           NEW f, Seals(p, q, f)
    PROVE  Followed(p, q)' /\ InReach(p, q)'
<1>0. /\ f.seq \in Nat /\ Around(q)' \subseteq Around(q) \union {f}
      /\ \A g \in Around(q) : Before(g, f) /\ ~Before(f, g)
      /\ Alive(q)' \subseteq Alive(q) \union {f} /\ Alive(q) \subseteq Around(q)
      /\ (f.gen = gen[q] /\ InTune(p, q)) \/ (Len(f.gen) > Len(gen[q]) /\ Lags(p, q))
      /\ ~Before(f, f)
  BY SealedLast DEF Alive, Before
<1>1. /\ Typed /\ UNCHANGED <<gen, rx_seq[q], rx_window_bitmap[q], last_rx_seq[q], got[p],
                             Assembled(q), Expected(q)>>
      /\ \A m \in DOMAIN sent[p] : m \in DOMAIN sent'[p] /\ sent'[p][m] = sent[p][m]
      /\ Fragment(f) => NewPart(p, f)
      /\ f.gen = gen[p] /\ f.seq = tx_seq[p] /\ tx_seq'[p] = tx_seq[p] + 1
      /\ job'[p].op = "rekey" <=> f.type = "REKEY"
      /\ f.type = "REKEY" => tx_seq[p] < W
      /\ f \in Frames
  BY DEF IInv, Seals
<1>2. /\ Followed(p, q) /\ Genuine(p, q) /\ Latest(p, q) /\ Going(p) /\ InReach(p, q)
  BY DEF Seals, Linked, Numbered, Going
<1>3. /\ tx_seq[p] \in Nat /\ last_rx_seq[q] \in Int /\ last_rx_seq[q] >= -1
      /\ W \in Nat /\ W > 0
  BY <1>1, WAssumption DEF Typed, Keyed
<1>4. \A g \in Around(q) : g.seq \in Nat /\ (Fragment(g) => g.data \in Fragments)
  BY <1>1, AroundTyped, FrameFacts DEF Fragment
<1>5. Fragment(f) => f.data \in Fragments /\ f.data[3] \in Nat /\ f.data[2] \in Nat
  BY <1>1, FrameFacts, FragmentFacts DEF Fragment
<1>6. ASSUME Fragment(f), f.data[2] \in DOMAIN sent[p]
      PROVE  /\ job[p].frame \in Around(q) /\ Fragment(job[p].frame)
             /\ job[p].frame.data[2] = f.data[2] /\ job[p].frame.gen = f.gen
             /\ job[p].frame.seq + 1 = f.seq /\ job[p].frame.data[3] + 1 = f.data[3]
             /\ job[p].frame.data[3] \in Nat /\ job[p].frame.seq \in Nat
  <2>1. f.data[2] # Len(sent[p]) + 1
    BY <1>1, <1>6 DEF Typed, Told
  <2>2. /\ job[p].op = "send" /\ Fragment(job[p].frame)
        /\ job[p].frame.data[2] = f.data[2] /\ job[p].frame.data[3] + 1 = f.data[3]
    BY <1>1, <1>6, <2>1 DEF NewPart
  <2>3. job[p].frame \in Around(q)
    BY <2>2 DEF Around, Pending
  <2>4. QED
    BY <1>1, <1>2, <1>4, <2>2, <2>3, FragmentFacts DEF Latest
<1>7. Consecutive(q)'
  <2>1. ASSUME NEW g \in Around(q), Fragment(f), Fragment(g), f.data[2] = g.data[2]
        PROVE  f.gen = g.gen /\ f.seq + g.data[3] = g.seq + f.data[3]
    <3>1. f.data[2] \in DOMAIN sent[p] /\ g.data[3] \in Nat /\ g.seq \in Nat
      <4>1. f.data[2] \in DOMAIN sent[p]
        BY <1>2, <2>1 DEF Genuine
      <4>2. QED
        BY <1>4, <2>1, <4>1, FragmentFacts
    <3>2. /\ job[p].frame.gen = g.gen
          /\ job[p].frame.seq + g.data[3] = g.seq + job[p].frame.data[3]
      BY <1>2, <1>6, <2>1, <3>1 DEF Followed, Consecutive
    <3>3. /\ job[p].frame.gen = f.gen /\ f.seq = job[p].frame.seq + 1
          /\ f.data[3] = job[p].frame.data[3] + 1
          /\ job[p].frame.data[3] \in Nat /\ job[p].frame.seq \in Nat
      BY <1>6, <2>1, <3>1
    <3>4. f.seq + g.data[3] = g.seq + f.data[3]
      BY <3>1, <3>2, <3>3, SMT
    <3>5. QED
      BY <3>2, <3>3, <3>4
  <2>2. SUFFICES ASSUME NEW g \in Around(q)', NEW h \in Around(q)', Fragment(g), Fragment(h),
                        g.data[2] = h.data[2]
                 PROVE  g.gen = h.gen /\ g.seq + h.data[3] = h.seq + g.data[3]
    BY DEF Consecutive, Fragment
  <2>3. CASE g \in Around(q) /\ h \in Around(q)
    BY <1>2, <2>2, <2>3 DEF Followed, Consecutive
  <2>4. CASE g = f /\ h \in Around(q)
    BY <2>1, <2>2, <2>4
  <2>5. CASE h = f /\ g \in Around(q)
    BY <2>1, <2>2, <2>5
  <2>6. QED
    BY <1>0, <2>2, <2>3, <2>4, <2>5
<1>8. Partial(p, q)'
  <2>1. SUFFICES ASSUME Assembled(q) # <<>>
                 PROVE  /\ Len(got[p]) + 1 \in DOMAIN sent'[p]
                        /\ Len(Assembled(q)) < Len(sent'[p][Len(got[p]) + 1])
                        /\ \A i \in DOMAIN Assembled(q) :
                             Assembled(q)[i] = <<p, Len(got[p]) + 1, i>>
                        /\ \A g \in Around(q)' : Fragment(g) /\ g.data[2] = Len(got[p]) + 1 =>
                             /\ g.gen = gen[q]
                             /\ g.seq + Len(Assembled(q)) + 1 = Expected(q) + g.data[3]
                        /\ \A g \in Alive(q)' : g.gen = gen[q] => g.seq >= Expected(q)
    BY <1>1 DEF Partial, Fragment
  <2>2. /\ Len(got[p]) + 1 \in DOMAIN sent[p]
        /\ Len(Assembled(q)) < Len(sent[p][Len(got[p]) + 1])
        /\ \A i \in DOMAIN Assembled(q) : Assembled(q)[i] = <<p, Len(got[p]) + 1, i>>
        /\ \A g \in Around(q) : Fragment(g) /\ g.data[2] = Len(got[p]) + 1 =>
             g.gen = gen[q] /\ g.seq + Len(Assembled(q)) + 1 = Expected(q) + g.data[3]
        /\ \A g \in Alive(q) : g.gen = gen[q] => g.seq >= Expected(q)
    BY <1>2, <2>1 DEF Followed, Partial
  <2>3. Len(Assembled(q)) \in Nat /\ Expected(q) \in Nat
    BY <1>1, <2>1, ExpectedTyped
  <2>4. ASSUME Fragment(f), f.data[2] = Len(got[p]) + 1
        PROVE  f.gen = gen[q] /\ f.seq + Len(Assembled(q)) + 1 = Expected(q) + f.data[3]
    <3>1. /\ job[p].frame.gen = gen[q]
          /\ job[p].frame.seq + Len(Assembled(q)) + 1 = Expected(q) + job[p].frame.data[3]
      BY <1>6, <2>2, <2>4
    <3>2. /\ job[p].frame.gen = f.gen /\ f.seq = job[p].frame.seq + 1
          /\ f.data[3] = job[p].frame.data[3] + 1
          /\ job[p].frame.data[3] \in Nat /\ job[p].frame.seq \in Nat
      BY <1>6, <2>2, <2>4
    <3>3. PICK l \in Nat, e \in Nat : l = Len(Assembled(q)) /\ e = Expected(q)
      BY <2>3, Zenon
    <3>4. job[p].frame.seq + l + 1 = e + job[p].frame.data[3]
      BY <3>1, <3>3, Zenon
    <3>5. f.seq + l + 1 = e + f.data[3]
      BY <3>2, <3>4
    <3>6. f.gen = gen[q]
      BY <3>1, <3>2
    <3>7. QED
      BY <3>3, <3>5, <3>6, Zenon
  <2>5. f.gen = gen[q] => f.seq >= Expected(q)
    BY <1>0, <1>1, <1>3, <2>1, <2>3 DEF InTune
  <2>6. QED
    BY <1>0, <1>1, <2>2, <2>4, <2>5
<1>9. Windowed(q)'
  BY <1>1, <1>2 DEF Followed, Windowed
<1>10. InReach(p, q)'
  <2>1. \A g \in Alive(q) : g.seq \in Nat
    BY <1>0, <1>4
  <2>2. /\ Young(last_rx_seq[q], tx_seq[p])
        /\ \A g \in Alive(q) : Young(g.seq, tx_seq[p])
    BY <1>2 DEF InReach
  <2>3. \A g \in Alive(q)' : last_rx_seq[q] < g.seq + W
    BY <1>0, <1>1, <1>2, <1>3, <2>2 DEF InReach, Young
  <2>4. ASSUME NEW g \in Alive(q)', NEW h \in Alive(q)', Before(g, h)
        PROVE  g.seq < h.seq + W
    <3>1. CASE g \in Alive(q) /\ h = f
      BY <1>1, <1>3, <2>1, <2>2, <3>1 DEF Young
    <3>2. CASE g \in Alive(q) /\ h \in Alive(q)
      BY <1>2, <2>4, <3>2 DEF InReach
    <3>3. QED
      BY <1>0, <2>4, <3>1, <3>2
  <2>5. Young(last_rx_seq[q], tx_seq[p] + 1)
    BY <1>3, <2>2 DEF Young
  <2>6. \A g \in Alive(q)' : Young(g.seq, tx_seq[p] + 1)
    BY <1>0, <1>1, <1>3, <2>1, <2>2 DEF Young
  <2>7. ASSUME job'[p].op = "rekey"
        PROVE  last_rx_seq[q] < W /\ \A g \in Alive(q)' : g.seq < W
    BY <1>0, <1>1, <1>3, <2>1, <2>2, <2>7 DEF Young
  <2>8. QED
    BY <1>1, <2>3, <2>4, <2>5, <2>6, <2>7 DEF InReach, Before, Young
<1>11. QED
  BY <1>7, <1>8, <1>9, <1>10 DEF Followed

LEMMA SealKeeps ==
    ASSUME IInv, IInv', NEW q \in Peers, NEW p \in Peers, p = Other(q), Linked(p, q),
           NEW f, Seals(p, q, f)
    PROVE  Linked(p, q)'
  BY SealNumbered, SealRotating, SealWaiting, SealComplete, SealFollowed DEF Linked

-----------------------------------------------------------------------------
(* q takes frame h, the least of the alive ones                              *)

LEMMA MessageIs ==
    ASSUME Typed, NEW p \in Peers, Whole(p), NEW m \in DOMAIN sent[p]
    PROVE  /\ sent[p][m] \in Seq(Fragments) /\ Len(sent[p][m]) \in 1 .. MaxFrags
           /\ DOMAIN sent[p][m] = 1 .. Len(sent[p][m])
           /\ \A i \in DOMAIN sent[p][m] : sent[p][m][i] = <<p, m, i>>
<1>1. PICK n \in 1 .. MaxFrags : sent[p][m] = Message(p, m, n)
  BY DEF Whole
<1>2. n \in Nat /\ DOMAIN sent[p][m] = 1 .. n
      /\ \A i \in 1 .. n : sent[p][m][i] = <<p, m, i>>
  BY <1>1, UdpSessionAssumption DEF Message
<1>3. sent[p] \in Seq(Seq(Fragments)) /\ sent[p][m] \in Seq(Fragments)
  BY DEF Typed, Told
<1>4. Len(sent[p][m]) = n
  BY <1>2, <1>3
<1>5. QED
  BY <1>1, <1>2, <1>3, <1>4

(* The fragments that p's peer has taken.                                    *)
LEMMA HeldIs ==
    ASSUME Typed, NEW q \in Peers, NEW p \in Peers, p = Other(q), Whole(p), Prefix(p),
           Partial(p, q), NEW m \in DOMAIN sent[p], NEW i \in DOMAIN sent[p][m]
    PROVE  /\ m \in Nat /\ i \in Nat /\ Len(got[p]) \in Nat /\ Len(Assembled(q)) \in Nat
           /\ Holds(Stream(p), <<p, m, i>>) <=>
                \/ m <= Len(got[p])
                \/ m = Len(got[p]) + 1 /\ i <= Len(Assembled(q))
<1> DEFINE g == got[p]
           a == Assembled(q)
           M == Len(got[p]) + 1
<1>1. /\ g \in Seq(Seq(Fragments)) /\ a \in Seq(Fragments) /\ Other(p) = q
      /\ sent[p] \in Seq(Seq(Fragments))
  BY StreamTyped, OtherFacts DEF Typed, Told
<1>2. /\ m \in Nat /\ m >= 1 /\ m <= Len(sent[p]) /\ Len(g) \in Nat /\ Len(a) \in Nat
      /\ i \in 1 .. Len(sent[p][m]) /\ i \in Nat /\ i >= 1
  BY <1>1, MessageIs
<1>3. /\ Stream(p) = Append(g, a) /\ DOMAIN Append(g, a) = 1 .. M /\ Append(g, a)[M] = a
      /\ \A k \in 1 .. Len(g) : Append(g, a)[k] = g[k] /\ k # M
      /\ DOMAIN a = 1 .. Len(a) /\ DOMAIN g = 1 .. Len(g)
  BY <1>1 DEF Stream
<1>4. \A k \in 1 .. Len(g) : DOMAIN g[k] = DOMAIN sent[p][k] /\ k \in DOMAIN sent[p]
                             /\ \A j \in DOMAIN g[k] : g[k][j] = <<p, k, j>>
  <2>1. TAKE k \in 1 .. Len(g)
  <2>2. k \in DOMAIN sent[p] /\ g[k] = sent[p][k]
    BY <1>3 DEF Prefix
  <2>3. \A j \in DOMAIN sent[p][k] : sent[p][k][j] = <<p, k, j>>
    BY <2>2, MessageIs
  <2>4. QED
    BY <2>2, <2>3
<1>5. \A j \in DOMAIN a : a[j] = <<p, M, j>>
  <2>1. TAKE j \in DOMAIN a
  <2>2. a # <<>>
    BY <1>3
  <2>3. QED
    BY <2>2 DEF Partial
<1> HIDE DEF g, a, M
<1>6. ASSUME Holds(Stream(p), <<p, m, i>>)
      PROVE  m <= Len(g) \/ (m = M /\ i <= Len(a))
  <2>1. PICK k \in 1 .. M : \E j \in DOMAIN Append(g, a)[k] : Append(g, a)[k][j] = <<p, m, i>>
    BY <1>3, <1>6 DEF Holds
  <2>2. PICK j \in DOMAIN Append(g, a)[k] : Append(g, a)[k][j] = <<p, m, i>>
    BY <2>1
  <2>3. CASE k \in 1 .. Len(g)
    <3>1. <<p, k, j>> = <<p, m, i>>
      BY <1>3, <1>4, <2>2, <2>3
    <3>2. QED
      BY <1>2, <2>3, <3>1
  <2>4. CASE k = M
    <3>1. j \in 1 .. Len(a) /\ <<p, M, j>> = <<p, m, i>>
      BY <1>3, <1>5, <2>2, <2>4
    <3>2. QED
      BY <1>2, <3>1
  <2>5. QED
    BY <1>2, <2>1, <2>3, <2>4 DEF M, g
<1>7. ASSUME m <= Len(g) PROVE Holds(Stream(p), <<p, m, i>>)
  <2>1. m \in 1 .. Len(g) /\ m \in 1 .. M
    BY <1>2, <1>7 DEF M, g
  <2>2. Append(g, a)[m] = g[m] /\ i \in DOMAIN g[m] /\ g[m][i] = <<p, m, i>>
    BY <1>3, <1>4, <2>1
  <2>3. QED
    BY <1>3, <2>1, <2>2 DEF Holds
<1>8. ASSUME m = M, i <= Len(a) PROVE Holds(Stream(p), <<p, m, i>>)
  <2>1. i \in DOMAIN a /\ M \in 1 .. M
    BY <1>2, <1>3, <1>8 DEF M, g
  <2>2. QED
    BY <1>3, <1>5, <1>8, <2>1 DEF Holds
<1>9. QED
  BY <1>2, <1>6, <1>7, <1>8 DEF g, a, M

(* The first fragment that has not been taken. *)
LEMMA FirstMissing ==
    ASSUME Typed, NEW q \in Peers, NEW p \in Peers, p = Other(q), Whole(p), Prefix(p),
           Partial(p, q), Len(got[p]) + 1 \in DOMAIN sent[p]
    PROVE  /\ Len(Assembled(q)) + 1 \in DOMAIN sent[p][Len(got[p]) + 1]
           /\ ~Holds(Stream(p), <<p, Len(got[p]) + 1, Len(Assembled(q)) + 1>>)
<1> DEFINE M == Len(got[p]) + 1
           I == Len(Assembled(q)) + 1
<1>1. Assembled(q) \in Seq(Fragments) /\ Len(Assembled(q)) \in Nat /\ Len(got[p]) \in Nat
  BY StreamTyped
<1>2. I \in DOMAIN sent[p][M]
  <2>1. Len(sent[p][M]) \in 1 .. MaxFrags /\ DOMAIN sent[p][M] = 1 .. Len(sent[p][M])
    BY MessageIs
  <2>2. CASE Assembled(q) = <<>>
    BY <2>1, <2>2, UdpSessionAssumption
  <2>3. CASE Assembled(q) # <<>>
    <3>1. Len(Assembled(q)) < Len(sent[p][M])
      BY <2>3 DEF Partial
    <3>2. QED
      BY <1>1, <2>1, <3>1, UdpSessionAssumption
  <2>4. QED
    BY <2>2, <2>3
<1>3. ~Holds(Stream(p), <<p, M, I>>)
  <2> HIDE DEF M, I
  <2>1. ~(M <= Len(got[p])) /\ ~(I <= Len(Assembled(q)))
    BY <1>1 DEF M, I
  <2>2. M \in DOMAIN sent[p]
    BY DEF M
  <2>3. Holds(Stream(p), <<p, M, I>>) <=> \/ M <= Len(got[p])
                                          \/ M = Len(got[p]) + 1 /\ I <= Len(Assembled(q))
    BY <1>2, <2>2, HeldIs
  <2>4. QED
    BY <2>1, <2>3
<1>4. QED
  BY <1>2, <1>3

(* A control frame never meets a message half assembled. *)
LEMMA ControlAlone ==
    ASSUME Typed, NEW q \in Peers, NEW p \in Peers, p = Other(q), Linked(p, q), Whole(p),
           Prefix(p), NEW h, Least(q, h), ~Fragment(h)
    PROVE  Assembled(q) = <<>>
<1> SUFFICES ASSUME Assembled(q) # <<>> PROVE FALSE
  OBVIOUS
<1> DEFINE M == Len(got[p]) + 1
           I == Len(Assembled(q)) + 1
<1>1. /\ Partial(p, q) /\ OneWhole(p, q) /\ h \in Alive(q) /\ h.gen = gen[q]
      /\ \A g \in Alive(q) : g = h \/ Before(h, g)
  BY DEF Linked, Followed, Complete, Least
<1>2. M \in DOMAIN sent[p] /\ AllSecured(p, q, M)
  BY <1>1 DEF Partial, OneWhole
<1>3. I \in DOMAIN sent[p][M] /\ ~Holds(Stream(p), <<p, M, I>>)
  BY <1>1, <1>2, FirstMissing
<1> HIDE DEF I, M
<1>4. Waits(q, <<p, M, I>>)
  BY <1>2, <1>3 DEF AllSecured, Secured
<1>5. PICK f \in Alive(q) : Fragment(f) /\ f.data = <<p, M, I>>
  BY <1>4 DEF Waits, Carries
<1>6. f \in Around(q) /\ f.seq \in Nat /\ h.seq \in Nat /\ Len(h.gen) \in Nat
  BY <1>1, AliveFacts
<1>7. f.data[2] = M /\ f.data[3] = I
  BY <1>5
<1>8. f.gen = gen[q] /\ f.seq + Len(Assembled(q)) + 1 = Expected(q) + I /\ h.seq >= Expected(q)
  BY <1>1, <1>5, <1>6, <1>7 DEF Partial, M
<1>9. f # h /\ Before(h, f)
  BY <1>1, <1>5
<1>10. h.seq < f.seq
  BY <1>1, <1>6, <1>8, <1>9 DEF Before
<1>11. Expected(q) \in Nat /\ Len(Assembled(q)) \in Nat
  BY ExpectedTyped
<1>12. PICK l \in Nat, e \in Nat : l = Len(Assembled(q)) /\ e = Expected(q)
  BY <1>11, Zenon
<1>13. f.seq + l + 1 = e + (l + 1) /\ h.seq >= e
  BY <1>8, <1>12, Zenon DEF I
<1>14. QED
  BY <1>6, <1>10, <1>12, <1>13

(* A fragment is the next one of the message that is next.                   *)
LEMMA NextPart ==
    ASSUME IInv, NEW q \in Peers, NEW p \in Peers, p = Other(q), Linked(p, q), Whole(p),
           Prefix(p), NEW h, Least(q, h), Fragment(h)
    PROVE  /\ Len(got[p]) + 1 \in DOMAIN sent[p]
           /\ h.data = <<p, Len(got[p]) + 1, Len(Assembled(q)) + 1>>
           /\ Len(Assembled(q)) + 1 \in DOMAIN sent[p][Len(got[p]) + 1]
           /\ h.type = FragType(Len(Assembled(q)) + 1, Len(sent[p][Len(got[p]) + 1]))
           /\ Assembled(q) # <<>> => h.seq = Expected(q)
<1> DEFINE M == Len(got[p]) + 1
           I == Len(Assembled(q)) + 1
<1>1. /\ Typed /\ TakenOnce /\ Other(p) = q
      /\ Partial(p, q) /\ Genuine(p, q) /\ NoneMissing(p, q) /\ Sooner(q)
      /\ h \in Alive(q) /\ h.gen = gen[q] /\ h \in Around(q)
      /\ \A g \in Alive(q) : g = h \/ Before(h, g)
  BY OtherFacts DEF IInv, Once, Linked, Numbered, Followed, Complete, Least, Alive
<1>2. PICK m \in DOMAIN sent[p] : \E i \in DOMAIN sent[p][m] : h.data = <<p, m, i>>
  <2>1. h.data \in Fragments
    BY <1>1, AliveFacts
  <2>2. h.data = <<h.data[1], h.data[2], h.data[3]>>
    BY <2>1 DEF Fragments
  <2>3. QED
    BY <1>1, <2>2 DEF Genuine
<1>3. PICK i \in DOMAIN sent[p][m] : h.data = <<p, m, i>>
  BY <1>2
<1>4. ~Holds(Stream(p), <<p, m, i>>)
  BY <1>1, <1>3, TakenFacts DEF Alive
<1>5. /\ m \in Nat /\ i \in Nat /\ Len(got[p]) \in Nat /\ Len(Assembled(q)) \in Nat
      /\ ~(m <= Len(got[p])) /\ ~(m = M /\ i <= Len(Assembled(q)))
  BY <1>1, <1>4, HeldIs
<1>6. M \in DOMAIN sent[p]
  <2>1. sent[p] \in Seq(Seq(Fragments))
    BY <1>1 DEF Typed, Told
  <2>2. QED
    BY <1>5, <2>1
<1>7. I \in DOMAIN sent[p][M] /\ ~Holds(Stream(p), <<p, M, I>>)
  BY <1>1, <1>6, FirstMissing
<1>8. I \in Nat /\ M \in Nat /\ (m > M \/ (m = M /\ i >= I))
  BY <1>5
<1> HIDE DEF M, I
<1>9. m = M /\ i = I
  <2>1. SUFFICES ASSUME ~(m = M /\ i = I) PROVE FALSE
    OBVIOUS
  <2>2. PartBefore(<<p, M, I>>, h.data)
    <3>1. M < m \/ (M = m /\ I < i)
      BY <1>5, <1>8, <2>1
    <3>2. QED
      BY <1>3, <3>1 DEF PartBefore
  <2>3. Waits(q, <<p, M, I>>)
    BY <1>1, <1>6, <1>7, <2>2 DEF NoneMissing, Secured
  <2>4. PICK f \in Alive(q) : Fragment(f) /\ f.data = <<p, M, I>>
    BY <2>3 DEF Waits, Carries
  <2>5. Before(f, h)
    BY <1>1, <2>2, <2>4 DEF Sooner
  <2>6. f = h \/ Before(h, f)
    BY <1>1
  <2>7. /\ f.seq \in Nat /\ Len(f.gen) \in Nat /\ h.seq \in Nat /\ Len(h.gen) \in Nat
    BY <1>1, AliveFacts
  <2>8. QED
    BY <2>5, <2>6, <2>7 DEF Before
<1>10. h.data = <<p, M, I>> /\ h.data[2] = M /\ h.data[3] = I
  BY <1>3, <1>9
<1>11. h.type = FragType(I, Len(sent[p][M]))
  BY <1>1, <1>10 DEF Genuine
<1>12. ASSUME Assembled(q) # <<>> PROVE h.seq = Expected(q)
  <2>1. h.seq + Len(Assembled(q)) + 1 = Expected(q) + I
    BY <1>1, <1>10, <1>12 DEF Partial, M
  <2>2. Expected(q) \in Nat /\ Len(Assembled(q)) \in Nat /\ h.seq \in Nat
    BY <1>1, <1>12, ExpectedTyped, AliveFacts
  <2>3. PICK l \in Nat, e \in Nat : l = Len(Assembled(q)) /\ e = Expected(q)
    BY <2>2, Zenon
  <2>4. h.seq + l + 1 = e + (l + 1)
    BY <2>1, <2>3, Zenon DEF I
  <2>5. h.seq = e
    BY <2>2, <2>3, <2>4
  <2>6. QED
    BY <2>3, <2>5
<1>13. QED
  BY <1>6, <1>7, <1>10, <1>11, <1>12 DEF I, M

(* What comes later is still accepted. *)
LEMMA FreshLater ==
    ASSUME NEW rx \in Nat, NEW bm \in SUBSET Bits, NEW s \in Nat, NEW t \in Nat, s < t,
           Fresh(rx, bm, t)
    PROVE  Fresh(Advance(rx, s), Slide(rx, bm, s), t)
<1>1. CASE s > rx
  <2>1. Advance(rx, s) = s
    BY <1>1 DEF Advance
  <2>2. QED
    BY <2>1, WAssumption DEF Fresh, TooOld, Duplicate
<1>2. CASE ~(s > rx)
  <2>1. Advance(rx, s) = rx /\ Slide(rx, bm, s) = bm \union {rx - s}
    BY <1>2 DEF Advance, Slide
  <2>2. rx - t # rx - s
    OBVIOUS
  <2>3. QED
    BY <2>1, <2>2 DEF Fresh, TooOld, Duplicate
<1>3. QED
  BY <1>1, <1>2

LEMMA FirstFresh == \A t \in Nat : Fresh(0, {}, t)
  BY WAssumption DEF Fresh, TooOld, Duplicate

LEMMA SlideMarks ==
    ASSUME NEW rx \in Nat, NEW bm, NEW s \in Nat PROVE Slide(rx, bm, s) # {}
  BY DEF Slide

LEMMA TookDead ==
    ASSUME IInv, NEW q \in Peers, NEW p \in Peers, p = Other(q), Linked(p, q),
           NEW h, Took(p, q, h)
    PROVE  /\ \A g \in Around(q) : Dead(q, g) => Dead(q, g)'
           /\ Dead(q, h)'
           /\ \A g \in Alive(q) : g # h => ~Dead(q, g)'
           /\ h.type = "REKEY" => \A g \in Alive(q) : g # h => Len(g.gen) > Len(gen[q])
           /\ Len(gen[q]) \in Nat
           /\ h.type = "REKEY" => Len(gen'[q]) = Len(gen[q]) + 1
<1>1. /\ Typed /\ Ranked(q) /\ KeyLine(q) /\ Least(q, h) /\ h \in Alive(q) /\ h.gen = gen[q]
      /\ \A g \in Alive(q) : g = h \/ Before(h, g)
  BY DEF IInv, Linked, Numbered, Rotating, Took, Consumes, Least
<1>2. /\ gen[q] \in Seq(Salts) /\ Len(gen[q]) \in Nat
      /\ rx_seq[q] \in Nat /\ rx_window_bitmap[q] \in SUBSET Bits
  BY <1>1 DEF Typed, Keyed
<1>3. \A g \in Around(q) : g.seq \in Nat /\ Len(g.gen) \in Nat
  BY <1>1, AroundTyped, FrameFacts
<1>4. h \in Around(q) /\ h.seq \in Nat /\ Fresh(rx_seq[q], rx_window_bitmap[q], h.seq)
  BY <1>1, <1>2, <1>3 DEF Alive, Dead
<1>5. CASE Marked(q, h) /\ h.type # "REKEY"
  <2>1. ASSUME NEW g \in Around(q), Dead(q, g) PROVE Dead(q, g)'
    BY <1>2, <1>3, <1>4, <1>5, <2>1, RefusedForEver DEF Dead, Marked
  <2>2. Dead(q, h)'
    BY <1>1, <1>2, <1>4, <1>5, MarkedIsRefused DEF Dead, Marked
  <2>3. ASSUME NEW g \in Alive(q), g # h PROVE ~Dead(q, g)'
    <3>1. g \in Around(q) /\ ~Dead(q, g) /\ Before(h, g)
      BY <1>1, <2>3 DEF Alive
    <3>2. CASE g.gen = gen[q]
      <4>1. h.seq < g.seq /\ Fresh(rx_seq[q], rx_window_bitmap[q], g.seq)
        BY <1>1, <1>2, <3>1, <3>2 DEF Before, Dead
      <4>2. Fresh(Advance(rx_seq[q], h.seq), Slide(rx_seq[q], rx_window_bitmap[q], h.seq), g.seq)
        BY <1>2, <1>3, <1>4, <3>1, <4>1, FreshLater
      <4>3. QED
        BY <1>5, <3>2, <4>2 DEF Dead, Marked
    <3>3. CASE g.gen # gen[q]
      BY <1>2, <1>3, <1>5, <3>1, <3>3 DEF Dead, Marked
    <3>4. QED
      BY <3>2, <3>3
  <2>4. QED
    BY <1>2, <1>5, <2>1, <2>2, <2>3
<1>6. CASE TakesRekey(p, q, h)
  <2>1. h.data[1] \in Salts
    BY <1>1, <1>6, AroundTyped, FrameFacts DEF Alive, TakesRekey
  <2>2. gen'[q] = Append(gen[q], h.data[1]) /\ Len(gen'[q]) = Len(gen[q]) + 1
        /\ rx_seq'[q] = 0 /\ rx_window_bitmap'[q] = {} /\ h.type = "REKEY"
    BY <1>2, <1>6, <2>1 DEF TakesRekey
  <2>3. ASSUME NEW g \in Around(q), Len(g.gen) <= Len(gen[q]) PROVE Dead(q, g)'
    <3>1. Len(g.gen) < Len(gen'[q])
      BY <1>2, <1>3, <2>2, <2>3
    <3>2. g.gen # gen'[q] /\ Len(g.gen) <= Len(gen'[q])
      BY <1>2, <1>3, <2>2, <2>3, <3>1
    <3>3. QED
      BY <3>2 DEF Dead
  <2>4. ASSUME NEW g \in Alive(q), g # h PROVE Len(g.gen) > Len(gen[q])
    <3>1. g \in Around(q) /\ ~Dead(q, g) /\ Before(h, g)
      BY <1>1, <2>4 DEF Alive
    <3>2. g.gen # gen[q]
      BY <1>1, <1>2, <1>3, <1>4, <2>2, <2>4, <3>1 DEF Ranked, Before
    <3>3. QED
      BY <1>2, <1>3, <3>1, <3>2 DEF Dead
  <2>5. ASSUME NEW g \in Alive(q), g # h PROVE ~Dead(q, g)'
    <3>1. g \in Around(q) /\ Turned(q, g.gen) /\ Len(g.gen) > Len(gen[q])
      BY <1>1, <2>4, <2>5 DEF KeyLine, Alive
    <3>2. PICK r \in Alive(q) : Turns(r, g.gen)
      BY <3>1 DEF Turned
    <3>3. CASE r = h
      <4>1. g.gen = gen'[q]
        BY <1>1, <2>2, <3>2, <3>3 DEF Turns
      <4>2. QED
        BY <1>3, <2>2, <3>1, <4>1, FirstFresh DEF Dead
    <3>4. CASE r # h
      <4>1. Len(r.gen) > Len(gen[q]) /\ r \in Around(q)
        BY <2>4, <3>4 DEF Alive
      <4>2. r.gen \in Seq(Salts) /\ g.gen = Append(r.gen, r.data[1])
        BY <1>1, <3>2, AliveFacts DEF Turns
      <4>3. Len(g.gen) = Len(r.gen) + 1
        BY <4>2
      <4>4. QED
        BY <1>2, <1>3, <2>2, <3>1, <4>1, <4>3 DEF Dead
    <3>5. QED
      BY <3>3, <3>4
  <2>6. \A g \in Around(q) : Dead(q, g) => Dead(q, g)'
    BY <2>3 DEF Dead
  <2>7. Dead(q, h)'
    BY <1>1, <1>2, <1>4, <2>3
  <2>8. QED
    BY <1>2, <2>2, <2>4, <2>5, <2>6, <2>7
<1>7. QED
  <2>1. \/ Marked(q, h) /\ h.type # "REKEY"
        \/ TakesRekey(p, q, h)
    BY DEF Took, TakesControl, TakesPart, Fragment, DataTypes
  <2>2. QED
    BY <1>5, <1>6, <2>1

LEMMA TookAlive ==
    ASSUME IInv, NEW q \in Peers, NEW p \in Peers, p = Other(q), Linked(p, q),
           NEW h, Took(p, q, h)
    PROVE  /\ Alive(q)' \subseteq Alive(q) /\ h \notin Alive(q)'
           /\ \A g \in Alive(q) :
                g # h /\ g \in Buffered(q) => g \in Alive(q)' /\ g \in Buffered(q)'
           /\ Going(p)' <=> Going(p)
           /\ Going(p) => \A g \in Alive(q) : g # h => g \in Alive(q)'
           /\ \A g \in Alive(q)' : g \notin Buffered(q)' => g \notin Buffered(q)
           /\ read_buffer[q] = <<>> => Alive(q)' = {}
<1>1. /\ Typed /\ Consumes(p, q, h) /\ h \in Alive(q) /\ Around(q)' \subseteq Around(q)
      /\ \A g \in Alive(q) : g = h \/ Before(h, g)
      /\ UNCHANGED <<job[p], up[p]>> /\ Other(q) = p /\ Placed(p, q)
  BY DEF IInv, Took, Consumes, Least, Linked, Waiting
<1>2. /\ \A g \in Around(q) : Dead(q, g) => Dead(q, g)'
      /\ Dead(q, h)'
      /\ \A g \in Alive(q) : g # h => ~Dead(q, g)'
  BY TookDead
<1>3. Alive(q)' \subseteq Alive(q) /\ h \notin Alive(q)'
  BY <1>1, <1>2 DEF Alive
<1>4. ASSUME NEW g \in Alive(q), g # h, g \in Buffered(q)
      PROVE  g \in Alive(q)' /\ g \in Buffered(q)'
  <2>1. /\ read_buffer[q] \in Seq(Frames) /\ Len(read_buffer[q]) \in Nat
        /\ DOMAIN read_buffer[q] = 1 .. Len(read_buffer[q])
    BY <1>1, BufferTyped
  <2>2. PICK i \in 1 .. Len(read_buffer[q]) : g = read_buffer[q][i]
    BY <1>4, <2>1 DEF Buffered
  <2>3. read_buffer[q] # <<>>
    BY <2>1, <2>2
  <2>4. h = Head(read_buffer[q]) /\ read_buffer'[q] = Tail(read_buffer[q])
    BY <1>1, <2>3 DEF Consumes
  <2>5. i # 1
    BY <1>4, <2>1, <2>2, <2>3, <2>4
  <2>6. i - 1 \in DOMAIN Tail(read_buffer[q]) /\ Tail(read_buffer[q])[i - 1] = g
    BY <2>1, <2>2, <2>3, <2>5
  <2>7. g \in Buffered(q)'
    BY <2>4, <2>6 DEF Buffered
  <2>8. QED
    BY <1>2, <1>4, <2>7 DEF Alive, Around
<1>5. Going(p)' <=> Going(p)
  BY <1>1 DEF Going
<1>6. ASSUME Going(p), NEW g \in Alive(q), g # h PROVE g \in Alive(q)'
  <2>1. CASE g \in Buffered(q)
    BY <1>4, <1>6, <2>1
  <2>2. CASE g \notin Buffered(q)
    <3>1. ~Answered(p) /\ g = job[p].frame
      BY <1>1, <1>6, <2>2 DEF Placed
    <3>2. g \in Pending(p)'
      BY <1>1, <3>1 DEF Answered, Pending
    <3>3. QED
      BY <1>1, <1>2, <1>6, <3>2 DEF Alive, Around
  <2>3. QED
    BY <2>1, <2>2
<1>7. ASSUME NEW g \in Alive(q)', g \notin Buffered(q)' PROVE g \notin Buffered(q)
  BY <1>3, <1>4, <1>7
<1>8. ASSUME read_buffer[q] = <<>> PROVE Alive(q)' = {}
  <2>1. Buffered(q) = {}
    BY <1>8 DEF Buffered
  <2>2. ASSUME NEW g \in Alive(q) PROVE g = h
    <3>1. ~Before(h, g)
      BY <1>1, <2>1, <2>2 DEF Placed, Alive
    <3>2. QED
      BY <1>1, <3>1
  <2>3. QED
    BY <1>3, <2>2
<1>9. QED
  BY <1>3, <1>4, <1>5, <1>6, <1>7, <1>8

LEMMA TookNumbered ==
    ASSUME IInv, NEW q \in Peers, NEW p \in Peers, p = Other(q), Linked(p, q),
           NEW h, Took(p, q, h)
    PROVE  Numbered(p, q)'
<1>1. /\ UNCHANGED <<gen[p], tx_seq[p], sent[p], job[p], up[p]>> /\ Around(q)' \subseteq Around(q)
      /\ h \in Alive(q) /\ h.gen = gen[q] /\ Numbered(p, q)
      /\ acks'[p] \subseteq acks[p] \union {Utack(q, h)}
  BY DEF Took, Consumes, Least, Linked
<1>2. Genuine(p, q)' /\ Ranked(q)'
  BY <1>1 DEF Numbered, Genuine, Ranked, Fragment
<1>3. ASSUME Going(p)' PROVE Latest(p, q)'
  <2>1. Latest(p, q)
    BY <1>1, <1>3 DEF Going, Numbered
  <2>2. h.seq \in Nat /\ h \in Around(q)
    BY <1>1, AliveFacts DEF IInv
  <2>3. h.gen = gen[p] => h.seq < tx_seq[p]
    <3>1. CASE Len(h.gen) < Len(gen[p])
      <4>1. Len(gen[p]) \in Nat
        BY DEF IInv, Typed, Keyed
      <4>2. h.gen # gen[p]
        BY <3>1, <4>1
      <4>3. QED
        BY <4>2
    <3>2. CASE h.gen = gen[p] /\ h.seq < tx_seq[p]
      BY <3>2
    <3>3. QED
      BY <2>1, <2>2, <3>1, <3>2 DEF Latest
  <2>4. \A a \in acks'[p] : a.seq \in Nat /\ (a.gen = gen[p] => a.seq < tx_seq[p])
    BY <1>1, <2>1, <2>2, <2>3 DEF Latest, Utack
  <2>5. QED
    BY <1>1, <2>1, <2>4 DEF Latest
<1>4. QED
  BY <1>2, <1>3 DEF Numbered

(* Keys that a REKEY in the buffer leads to are still ahead, or are those q  *)
(* has rotated to.                                                           *)
LEMMA TookTurned ==
    ASSUME IInv, NEW q \in Peers, NEW p \in Peers, p = Other(q), Linked(p, q),
           NEW h, Took(p, q, h), NEW g, Turned(q, g)
    PROVE  \/ Turned(q, g)' /\ Len(g) > Len(gen'[q])
           \/ h.type = "REKEY" /\ g = gen'[q]
<1>1. PICK r \in Alive(q) : r \in Buffered(q) /\ Turns(r, g)
  BY DEF Turned
<1>2. /\ r.gen \in Seq(Salts) /\ Len(r.gen) \in Nat /\ g = Append(r.gen, r.data[1])
      /\ Len(g) = Len(r.gen) + 1 /\ r.type = "REKEY" /\ Len(r.gen) >= Len(gen[q])
      /\ Len(gen[q]) \in Nat /\ (Len(r.gen) = Len(gen[q]) => r.gen = gen[q])
  <2>1. r.gen \in Seq(Salts) /\ Len(r.gen) \in Nat
        /\ (r.gen = gen[q] \/ Len(r.gen) > Len(gen[q]))
    BY AliveFacts DEF IInv
  <2>2. Len(gen[q]) \in Nat
    BY TookDead
  <2>3. g = Append(r.gen, r.data[1]) /\ r.type = "REKEY"
    BY <1>1 DEF Turns
  <2>4. QED
    BY <2>1, <2>2, <2>3
<1>3. CASE r = h
  BY <1>1, <1>3 DEF Took, TakesControl, TakesRekey, TakesPart, Fragment, DataTypes, Turns,
                    Consumes, Least
<1>4. CASE r # h
  <2>1. r \in Alive(q)' /\ r \in Buffered(q)'
    BY <1>1, <1>4, TookAlive
  <2>2. Turned(q, g)'
    BY <1>1, <2>1 DEF Turned, Turns
  <2>3. Len(g) > Len(gen'[q])
    <3>1. CASE h.type = "REKEY"
      BY <1>2, <1>4, <3>1, TookDead
    <3>2. CASE h.type # "REKEY"
      <4>1. gen'[q] = gen[q]
        BY <3>2 DEF Took, TakesControl, TakesRekey, TakesPart, Marked
      <4>2. QED
        BY <1>2, <4>1
    <3>3. QED
      BY <3>1, <3>2
  <2>4. QED
    BY <2>2, <2>3
<1>5. QED
  BY <1>3, <1>4

LEMMA TookRotating ==
    ASSUME IInv, NEW q \in Peers, NEW p \in Peers, p = Other(q), Linked(p, q),
           NEW h, Took(p, q, h)
    PROVE  Rotating(p, q)'
<1>1. /\ Typed /\ KeyLine(q) /\ Windowed(q) /\ h \in Alive(q) /\ h.gen = gen[q]
      /\ UNCHANGED <<gen[p], tx_seq[p], job[p]>> /\ Around(q)' \subseteq Around(q)
  BY DEF IInv, Linked, Rotating, Followed, Took, Consumes, Least
<1>2. /\ Len(gen[q]) \in Nat /\ (h.type = "REKEY" => Len(gen'[q]) = Len(gen[q]) + 1)
      /\ \A g \in Alive(q) : g # h => ~Dead(q, g)'
      /\ (Going(p)' <=> Going(p))
  BY TookDead, TookAlive
<1>3. \A g \in Around(q) : Len(g.gen) \in Nat
  BY <1>1, AroundTyped, FrameFacts
<1>4. KeyLine(q)'
  <2>1. SUFFICES ASSUME NEW g \in Around(q)', Len(g.gen) > Len(gen'[q])
                 PROVE  Turned(q, g.gen)'
    BY DEF KeyLine
  <2>2. g \in Around(q) /\ Len(g.gen) \in Nat
    BY <1>1, <1>3, <2>1
  <2>3. Len(g.gen) > Len(gen[q])
    <3>1. CASE h.type = "REKEY"
      BY <1>2, <2>1, <2>2, <3>1
    <3>2. CASE h.type # "REKEY"
      BY <2>1, <3>2 DEF Took, TakesControl, TakesRekey, TakesPart, Marked
    <3>3. QED
      BY <3>1, <3>2
  <2>4. Turned(q, g.gen)
    BY <1>1, <2>2, <2>3 DEF KeyLine
  <2>5. g.gen # gen'[q]
    BY <2>1, <2>2
  <2>6. QED
    BY <2>4, <2>5, TookTurned
<1>5. ASSUME Going(p)' PROVE Keys(p, q)'
  <2>1. /\ Keys(p, q) /\ Latest(p, q) /\ Going(p)
    BY <1>2, <1>5 DEF Linked, Rotating, Numbered
  <2>2. h \in Around(q) /\ h.seq \in Nat /\ Len(h.gen) \in Nat
    BY <1>1, AliveFacts
  <2>3. /\ rx_seq[q] \in Nat /\ rx_window_bitmap[q] \in SUBSET Bits /\ tx_seq[p] \in Nat
        /\ gen[p] \in Seq(Salts) /\ gen[q] \in Seq(Salts) /\ Len(gen[p]) \in Nat
    BY <1>1 DEF Typed, Keyed
  <2>4. ~Ahead(p, q)
    <3>1. SUFFICES ASSUME job[p].op = "rekey", gen[q] = Append(gen[p], job[p].frame.data[1])
                   PROVE  FALSE
      BY DEF Ahead
    <3>2. Len(h.gen) = Len(gen[p]) + 1
      BY <1>1, <2>3, <3>1
    <3>3. Len(h.gen) < Len(gen[p]) \/ h.gen = gen[p]
      BY <2>1, <2>2 DEF Latest
    <3>4. QED
      BY <2>3, <3>2, <3>3
  <2>5. CASE InTune(p, q)
    <3>1. /\ gen[p] = gen[q] /\ h.seq < tx_seq[p]
          /\ h.type = "REKEY" => job[p].op = "rekey" /\ h = job[p].frame
          /\ rx_window_bitmap[q] # {} => rx_seq[q] < tx_seq[p]
          /\ job[p].op = "rekey" => ~Dead(q, job[p].frame)
      BY <1>1, <2>1, <2>2, <2>3, <2>5 DEF InTune, Latest
    <3>2. CASE h.type = "REKEY"
      <4>1. TakesRekey(p, q, h)
        BY <3>2 DEF Took, TakesControl, TakesRekey, TakesPart, Fragment, DataTypes
      <4>2. Ahead(p, q)'
        BY <1>1, <3>1, <3>2, <4>1 DEF Ahead, TakesRekey
      <4>3. QED
        BY <4>2 DEF Keys
    <3>3. CASE h.type # "REKEY"
      <4>1. Marked(q, h) /\ (TakesControl(p, q, h) \/ TakesPart(p, q, h))
        BY <3>3 DEF Took, TakesControl, TakesRekey, TakesPart
      <4>2. gen[p] = gen'[q]
        BY <3>1, <4>1 DEF Marked
      <4>3. rx_seq'[q] < tx_seq[p]
        <5>1. CASE rx_window_bitmap[q] = {}
          <6>1. rx_seq[q] = 0
            BY <1>1, <5>1 DEF Windowed
          <6>2. QED
            BY <2>2, <2>3, <3>1, <4>1, <6>1 DEF Marked, Advance
        <5>2. CASE rx_window_bitmap[q] # {}
          BY <2>2, <2>3, <3>1, <4>1, <5>2 DEF Marked, Advance
        <5>3. QED
          BY <5>1, <5>2
      <4>4. Assembled(q)' # <<>> => Expected(q)' <= tx_seq[p]
        <5>1. Assembled(q)' # <<>> => Expected(q)' = h.seq + 1
          BY <4>1 DEF TakesControl, TakesPart
        <5>2. QED
          BY <2>2, <2>3, <3>1, <5>1
      <4>5. ASSUME job[p].op = "rekey" PROVE ~Dead(q, job[p].frame)'
        <5>1. job[p].frame \in Around(q)
          BY <1>1, <4>5 DEF Around, Pending
        <5>2. job[p].frame \in Alive(q)
          BY <3>1, <4>5, <5>1 DEF Alive
        <5>3. job[p].frame.type = "REKEY"
          BY <4>5 DEF IInv, JobFits
        <5>4. QED
          BY <1>1, <1>2, <3>3, <5>2, <5>3 DEF Dead
      <4>6. InTune(p, q)'
        <5>1. job[p].op = "rekey" => (~Dead(q, job[p].frame))'
          BY <1>1, <4>5 DEF Dead
        <5>2. QED
          BY <1>1, <4>2, <4>3, <4>4, <5>1 DEF InTune
      <4>7. QED
        BY <4>6 DEF Keys
    <3>4. QED
      BY <3>2, <3>3
  <2>6. CASE Lags(p, q)
    <3>1. PICK g \in Seq(Salts) : g = gen[p]
      BY <2>3
    <3>2. CASE Turned(q, g)' /\ Len(g) > Len(gen'[q])
      <4>1. Turned(q, gen[p])' /\ Len(gen'[p]) > Len(gen'[q])
        BY <1>1, <3>1, <3>2 DEF Turned, Turns
      <4>2. QED
        BY <4>1 DEF Lags, Keys
    <3>3. CASE h.type = "REKEY" /\ gen[p] = gen'[q]
      <4>1. TakesRekey(p, q, h)
        BY <3>3 DEF Took, TakesControl, TakesRekey, TakesPart, Fragment, DataTypes
      <4>2. ASSUME job[p].op = "rekey" PROVE ~Dead(q, job[p].frame)'
        <5>1. job[p].frame.gen = gen[p]
          BY <2>1, <4>2 DEF Latest
        <5>2. job[p].frame.seq \in Nat
          BY <1>1, <4>2, JobFacts, FrameFacts
        <5>3. QED
          BY <1>1, <3>3, <4>1, <5>1, <5>2, FirstFresh DEF Dead, TakesRekey
      <4>3. job[p].op = "rekey" => (~Dead(q, job[p].frame))'
        BY <1>1, <4>2 DEF Dead
      <4>4. InTune(p, q)'
        BY <1>1, <3>3, <4>1, <4>3 DEF InTune, TakesRekey
      <4>5. QED
        BY <4>4 DEF Keys
    <3>4. Turned(q, g)
      BY <2>6, <3>1 DEF Lags
    <3>5. QED
      BY <3>1, <3>2, <3>3, <3>4, TookTurned
  <2>7. QED
    BY <2>1, <2>4, <2>5, <2>6 DEF Keys
<1>6. QED
  BY <1>4, <1>5 DEF Rotating

LEMMA TookWaiting ==
    ASSUME IInv, NEW q \in Peers, NEW p \in Peers, p = Other(q), Linked(p, q),
           NEW h, Took(p, q, h)
    PROVE  Waiting(p, q)'
<1>1. /\ Typed /\ Placed(p, q) /\ Queued(q) /\ Around(q)' \subseteq Around(q)
      /\ UNCHANGED <<gen[p], job[p], up[p]>>
  BY DEF IInv, Linked, Waiting, Took, Consumes
<1>2. /\ Alive(q)' \subseteq Alive(q) /\ h \notin Alive(q)'
      /\ Going(p)' <=> Going(p)
      /\ \A g \in Alive(q)' : g \notin Buffered(q)' => g \notin Buffered(q)
      /\ read_buffer[q] = <<>> => Alive(q)' = {}
      /\ \A g \in Around(q) : Dead(q, g) => Dead(q, g)'
  BY TookAlive, TookDead
<1>3. \/ /\ read_buffer[q] # <<>> /\ h = Head(read_buffer[q])
         /\ read_buffer'[q] = Tail(read_buffer[q]) /\ UNCHANGED acks[p]
      \/ Alive(q)' = {}
  BY <1>2 DEF Took, Consumes
<1>4. Placed(p, q)'
  <2>1. SUFFICES ASSUME NEW f \in Alive(q)', f \notin Buffered(q)'
                 PROVE  /\ \A g \in Around(q)' : ~Before(f, g)
                        /\ Going(p)' => ~Answered(p)' /\ f = job'[p].frame
    BY DEF Placed, Before
  <2>2. f \in Alive(q) /\ f \notin Buffered(q) /\ UNCHANGED acks[p]
    BY <1>2, <1>3, <2>1
  <2>3. \A g \in Around(q)' : ~Before(f, g)
    BY <1>1, <2>2 DEF Placed
  <2>4. Going(p)' => ~Answered(p) /\ f = job[p].frame
    BY <1>1, <1>2, <2>2 DEF Placed
  <2>5. QED
    BY <1>1, <2>2, <2>3, <2>4 DEF Answered, AckMatches
<1>5. Queued(q)'
  <2>1. SUFFICES ASSUME NEW g \in Alive(q)', NEW i \in DOMAIN read_buffer'[q],
                        (~Dead(q, read_buffer[q][i]))', Before(g, read_buffer'[q][i])
                 PROVE  \E k \in 1 .. i - 1 : read_buffer'[q][k] = g
    BY DEF Queued, Before
  <2>2. /\ read_buffer[q] # <<>> /\ h = Head(read_buffer[q])
        /\ read_buffer'[q] = Tail(read_buffer[q])
    BY <1>3, <2>1
  <2>3. /\ read_buffer[q] \in Seq(Frames) /\ Len(read_buffer[q]) \in Nat
        /\ DOMAIN read_buffer[q] = 1 .. Len(read_buffer[q]) /\ Buffered(q) \subseteq Around(q)
    BY <1>1, BufferTyped
  <2>4. /\ i \in 1 .. Len(read_buffer[q]) - 1 /\ i + 1 \in DOMAIN read_buffer[q]
        /\ read_buffer'[q][i] = read_buffer[q][i + 1]
        /\ Head(read_buffer[q]) = read_buffer[q][1]
        /\ \A j \in 1 .. Len(read_buffer[q]) - 1 : Tail(read_buffer[q])[j] = read_buffer[q][j + 1]
    BY <2>1, <2>2, <2>3
  <2>5. ~Dead(q, read_buffer[q][i + 1])
    <3>1. read_buffer[q][i + 1] \in Around(q)
      BY <2>3, <2>4 DEF Buffered
    <3>2. PICK r \in Around(q) : r = read_buffer[q][i + 1]
      BY <3>1
    <3>3. ~Dead(q, r)'
      BY <2>1, <2>4, <3>2 DEF Dead
    <3>4. QED
      BY <1>2, <3>2, <3>3
  <2>6. PICK k \in 1 .. (i + 1) - 1 : read_buffer[q][k] = g
    BY <1>1, <1>2, <2>1, <2>4, <2>5 DEF Queued
  <2>7. k # 1
    BY <1>2, <2>1, <2>2, <2>4, <2>6
  <2>8. k - 1 \in 1 .. i - 1 /\ Tail(read_buffer[q])[k - 1] = g
    BY <2>3, <2>4, <2>6, <2>7
  <2>9. QED
    BY <2>2, <2>8
<1>6. QED
  BY <1>4, <1>5 DEF Waiting

(* One fragment more, and what was held before. *)
LEMMA HoldsMore ==
    ASSUME NEW g \in Seq(Seq(Fragments)), NEW a \in Seq(Fragments), NEW e \in Fragments
    PROVE  /\ \A d : Holds(Append(g, a), d) => /\ Holds(Append(g, Append(a, e)), d)
                                               /\ Holds(Append(Append(g, Append(a, e)), <<>>), d)
           /\ Holds(Append(g, Append(a, e)), e)
           /\ Holds(Append(Append(g, Append(a, e)), <<>>), e)
<1> DEFINE b == Append(a, e)
           M == Len(g) + 1
<1>1. /\ b \in Seq(Fragments) /\ DOMAIN b = 1 .. Len(a) + 1 /\ b[Len(a) + 1] = e
      /\ DOMAIN a = 1 .. Len(a) /\ Len(a) \in Nat /\ \A i \in 1 .. Len(a) : b[i] = a[i]
  OBVIOUS
<1>2. /\ DOMAIN Append(g, a) = 1 .. M /\ Append(g, a)[M] = a
      /\ \A k \in 1 .. Len(g) : Append(g, a)[k] = g[k]
      /\ M \in Nat /\ Len(g) \in Nat
  OBVIOUS
<1> HIDE DEF b
<1>3. /\ DOMAIN Append(g, b) = 1 .. M /\ Append(g, b)[M] = b
      /\ \A k \in 1 .. Len(g) : Append(g, b)[k] = g[k]
      /\ Append(g, b) \in Seq(Seq(Fragments)) /\ Len(Append(g, b)) = M
  BY <1>1
<1>4. /\ DOMAIN Append(Append(g, b), <<>>) = 1 .. M + 1
      /\ \A k \in 1 .. M : Append(Append(g, b), <<>>)[k] = Append(g, b)[k]
  BY <1>2, <1>3
<1>5. ASSUME NEW d, Holds(Append(g, a), d) PROVE Holds(Append(g, b), d)
  <2>1. PICK k \in 1 .. M : \E i \in DOMAIN Append(g, a)[k] : Append(g, a)[k][i] = d
    BY <1>2, <1>5 DEF Holds
  <2>2. PICK i \in DOMAIN Append(g, a)[k] : Append(g, a)[k][i] = d
    BY <2>1
  <2>3. CASE k \in 1 .. Len(g)
    <3>1. Append(g, b)[k] = Append(g, a)[k]
      BY <1>2, <1>3, <2>3
    <3>2. QED
      BY <1>3, <2>2, <3>1 DEF Holds
  <2>4. CASE k = M
    <3>1. i \in 1 .. Len(a) /\ a[i] = d
      BY <1>1, <1>2, <2>2, <2>4
    <3>2. i \in DOMAIN b /\ b[i] = d
      BY <1>1, <3>1
    <3>3. QED
      BY <1>3, <2>1, <2>4, <3>2 DEF Holds
  <2>5. QED
    BY <1>2, <2>1, <2>3, <2>4
<1>6. Holds(Append(g, b), e)
  <2>1. Len(a) + 1 \in DOMAIN b /\ b[Len(a) + 1] = e /\ M \in 1 .. M
    BY <1>1, <1>2
  <2>2. QED
    BY <1>3, <2>1 DEF Holds
<1>7. ASSUME NEW d, Holds(Append(g, b), d) PROVE Holds(Append(Append(g, b), <<>>), d)
  <2>1. PICK k \in 1 .. M : \E i \in DOMAIN Append(g, b)[k] : Append(g, b)[k][i] = d
    BY <1>3, <1>7 DEF Holds
  <2>2. k \in DOMAIN Append(Append(g, b), <<>>)
        /\ Append(Append(g, b), <<>>)[k] = Append(g, b)[k]
    BY <1>2, <1>4, <2>1
  <2>3. QED
    BY <2>1, <2>2 DEF Holds
<1>8. QED
  BY <1>5, <1>6, <1>7 DEF b

LEMMA TookStream ==
    ASSUME IInv, NEW q \in Peers, NEW p \in Peers, p = Other(q), Linked(p, q),
           NEW h, Took(p, q, h)
    PROVE  /\ \A d : Holds(Stream(p), d) => Holds(Stream(p), d)'
           /\ Fragment(h) => Holds(Stream(p), h.data)'
           /\ \A d : Secured(p, q, d) => Secured(p, q, d)'
           /\ \A m : AllSecured(p, q, m) => AllSecured(p, q, m)'
<1>1. /\ Typed /\ Other(p) = q /\ h \in Frames /\ UNCHANGED sent[p]
      /\ got[p] \in Seq(Seq(Fragments)) /\ Assembled(q) \in Seq(Fragments)
      /\ (Fragment(h) => h.data \in Fragments)
  <2>1. Typed /\ Other(p) = q /\ h \in Alive(q) /\ UNCHANGED sent[p]
    BY OtherFacts DEF IInv, Took, Consumes, Least
  <2>2. QED
    BY <2>1, AliveFacts, StreamTyped
<1>2. \A d : Holds(Stream(p), d) => Holds(Stream(p), d)'
  <2>1. CASE TakesPart(p, q, h)
    <3>1. Stream(p) = Append(got[p], Assembled(q)) /\ h.data \in Fragments
      BY <1>1, <2>1 DEF TakesPart, Stream
    <3>2. PICK s1 : s1 = Append(got[p], Append(Assembled(q), h.data))
      OBVIOUS
    <3>3. PICK s2 : s2 = Append(Append(got[p], Append(Assembled(q), h.data)), <<>>)
      OBVIOUS
    <3>4. \A d : Holds(Stream(p), d) => Holds(s1, d) /\ Holds(s2, d)
      BY <1>1, <3>1, <3>2, <3>3, HoldsMore
    <3>5. (Stream(p))' = s1 \/ (Stream(p))' = s2
      BY <1>1, <2>1, <3>2, <3>3 DEF TakesPart, Stream
    <3>6. QED
      BY <3>4, <3>5, StreamIs
  <2>2. CASE TakesControl(p, q, h) \/ TakesRekey(p, q, h)
    <3>1. (Stream(p))' = Stream(p)
      BY <1>1, <2>2 DEF Stream, TakesControl, TakesRekey
    <3>2. QED
      BY <3>1 DEF Holds
  <2>3. QED
    BY <2>1, <2>2 DEF Took
<1>3. ASSUME Fragment(h) PROVE Holds(Stream(p), h.data)'
  <2>1. TakesPart(p, q, h)
    BY <1>3 DEF Took, TakesControl, TakesRekey, Fragment, DataTypes
  <2>2. PICK s1 : s1 = Append(got[p], Append(Assembled(q), h.data))
    OBVIOUS
  <2>3. PICK s2 : s2 = Append(Append(got[p], Append(Assembled(q), h.data)), <<>>)
    OBVIOUS
  <2>4. Holds(s1, h.data) /\ Holds(s2, h.data)
    BY <1>1, <1>3, <2>2, <2>3, HoldsMore
  <2>5. (Stream(p))' = s1 \/ (Stream(p))' = s2
    BY <1>1, <2>1, <2>2, <2>3 DEF TakesPart, Stream
  <2>6. QED
    BY <2>4, <2>5 DEF Holds
<1>4. ASSUME NEW d, Secured(p, q, d) PROVE Secured(p, q, d)'
  <2>1. CASE Holds(Stream(p), d)
    BY <1>2, <2>1 DEF Secured
  <2>2. CASE Waits(q, d)
    <3>1. PICK f \in Alive(q) : f \in Buffered(q) /\ Fragment(f) /\ f.data = d
      BY <2>2 DEF Waits, Carries
    <3>2. CASE f = h
      BY <1>3, <3>1, <3>2 DEF Secured
    <3>3. CASE f # h
      <4>1. f \in Alive(q)' /\ f \in Buffered(q)'
        BY <3>1, <3>3, TookAlive
      <4>2. QED
        BY <3>1, <4>1 DEF Secured, Waits, Carries, Fragment
    <3>4. QED
      BY <3>2, <3>3
  <2>3. QED
    BY <1>4, <2>1, <2>2 DEF Secured
<1>5. \A m : AllSecured(p, q, m) => AllSecured(p, q, m)'
  BY <1>1, <1>4 DEF AllSecured
<1>6. QED
  BY <1>2, <1>3, <1>4, <1>5

LEMMA TookComplete ==
    ASSUME IInv, NEW q \in Peers, NEW p \in Peers, p = Other(q), Linked(p, q), Whole(p),
           Prefix(p), NEW h, Took(p, q, h)
    PROVE  Complete(p, q)'
<1>1. /\ Typed /\ Least(q, h) /\ Complete(p, q)
      /\ UNCHANGED <<gen[p], sent[p], confirmed[p], job[p], up[p]>>
  BY DEF IInv, Linked, Took, Consumes
<1>2. /\ Alive(q)' \subseteq Alive(q) /\ h \notin Alive(q)'
      /\ Going(p)' <=> Going(p)
      /\ Going(p) => \A g \in Alive(q) : g # h => g \in Alive(q)'
  BY TookAlive
<1>3. /\ \A d : Holds(Stream(p), d) => Holds(Stream(p), d)'
      /\ Fragment(h) => Holds(Stream(p), h.data)'
      /\ \A d : Secured(p, q, d) => Secured(p, q, d)'
      /\ \A m : AllSecured(p, q, m) => AllSecured(p, q, m)'
  BY TookStream
<1>4. Sooner(q)'
  BY <1>1, <1>2 DEF Complete, Sooner, Fragment, PartBefore, Before
<1>5. NoneMissing(p, q)'
  <2>1. SUFFICES ASSUME NEW g \in Alive(q)', Fragment(g), NEW m \in DOMAIN sent[p],
                        NEW i \in DOMAIN sent[p][m], PartBefore(<<p, m, i>>, g.data)
                 PROVE  Secured(p, q, <<p, m, i>>)'
    BY <1>1 DEF NoneMissing, Fragment, PartBefore
  <2>2. Secured(p, q, <<p, m, i>>)
    BY <1>1, <1>2, <2>1 DEF Complete, NoneMissing
  <2>3. QED
    BY <1>3, <2>2
<1>6. NoneCut(p, q)'
  <2>1. SUFFICES ASSUME NEW f \in Alive(q)', NEW g \in Alive(q)', Fragment(f), ~Fragment(g),
                        Before(f, g)
                 PROVE  AllSecured(p, q, f.data[2])'
    BY DEF NoneCut, Fragment, Before
  <2>2. AllSecured(p, q, f.data[2])
    BY <1>1, <1>2, <2>1 DEF Complete, NoneCut
  <2>3. QED
    BY <1>3, <2>2
<1>7. OneWhole(p, q)'
  <2>1. SUFFICES ASSUME Assembled(q)' # <<>>, NEW g \in Alive(q)', ~Fragment(g)
                 PROVE  AllSecured(p, q, Len(got[p]) + 1)'
    BY DEF OneWhole, Fragment, AllSecured
  <2>2. TakesPart(p, q, h) /\ UNCHANGED got[p]
    BY <2>1 DEF Took, TakesControl, TakesRekey, TakesPart
  <2>3. Fragment(h) /\ g \in Alive(q) /\ Before(h, g)
    BY <1>1, <1>2, <2>1, <2>2 DEF TakesPart, Least
  <2>4. AllSecured(p, q, h.data[2])
    BY <1>1, <2>1, <2>3 DEF Complete, NoneCut, Least
  <2>5. h.data[2] = Len(got[p]) + 1
    <3>1. h.data = <<p, Len(got[p]) + 1, Len(Assembled(q)) + 1>>
      BY <1>1, <2>3, NextPart
    <3>2. QED
      BY <3>1
  <2>6. PICK m : m = Len(got[p]) + 1
    OBVIOUS
  <2>7. AllSecured(p, q, m)'
    BY <1>3, <2>4, <2>5, <2>6
  <2>8. QED
    BY <2>2, <2>6, <2>7 DEF AllSecured
<1>8. ConfirmedKept(p, q)'
  <2>1. SUFFICES ASSUME NEW m \in confirmed[p] PROVE AllSecured(p, q, m)'
    BY <1>1 DEF ConfirmedKept, AllSecured
  <2>2. AllSecured(p, q, m)
    BY <1>1 DEF Complete, ConfirmedKept
  <2>3. QED
    BY <1>3, <2>2
<1>9. EmittedKept(p, q)'
  <2>1. SUFFICES ASSUME Going(p), NEW m \in DOMAIN sent[p], NEW i \in DOMAIN sent[p][m],
                        Emitted(p, <<p, m, i>>)
                 PROVE  \/ Holds(Stream(p), <<p, m, i>>)'
                        \/ \E f \in Alive(q)' : Carries(f, <<p, m, i>>)
    <3>1. \A d : Emitted(p, d)' <=> Emitted(p, d)
      BY <1>1 DEF Emitted
    <3>2. QED
      BY <1>1, <1>2, <3>1 DEF EmittedKept, Carries, Fragment
  <2>2. CASE Holds(Stream(p), <<p, m, i>>)
    BY <1>3, <2>2
  <2>3. CASE \E f \in Alive(q) : Carries(f, <<p, m, i>>)
    <3>1. PICK f \in Alive(q) : Fragment(f) /\ f.data = <<p, m, i>>
      BY <2>3 DEF Carries
    <3>2. CASE f = h
      BY <1>3, <3>1, <3>2
    <3>3. CASE f # h
      BY <1>2, <2>1, <3>1, <3>3 DEF Carries
    <3>4. QED
      BY <3>2, <3>3
  <2>4. QED
    BY <1>1, <2>1, <2>2, <2>3 DEF Complete, EmittedKept
<1>10. QED
  BY <1>4, <1>5, <1>6, <1>7, <1>8, <1>9 DEF Complete

LEMMA TookFollowed ==
    ASSUME IInv, NEW q \in Peers, NEW p \in Peers, p = Other(q), Linked(p, q), Whole(p),
           Prefix(p), NEW h, Took(p, q, h)
    PROVE  Followed(p, q)' /\ InReach(p, q)'
<1>1. /\ Typed /\ Least(q, h) /\ h \in Alive(q) /\ h.gen = gen[q]
      /\ \A g \in Alive(q) : g = h \/ Before(h, g)
      /\ UNCHANGED <<gen[p], tx_seq[p], sent[p], job[p], up[p]>> /\ Around(q)' \subseteq Around(q)
      /\ last_rx_seq'[q] \in {last_rx_seq[q], Advance(last_rx_seq[q], h.seq)}
      /\ Followed(p, q) /\ InReach(p, q)
  BY DEF IInv, Linked, Took, Consumes, Least
<1>2. /\ Alive(q)' \subseteq Alive(q) /\ h \notin Alive(q)' /\ (Going(p)' <=> Going(p))
  BY TookAlive
<1>3. h \in Around(q) /\ h.seq \in Nat /\ Len(h.gen) \in Nat
  BY <1>1, AliveFacts
<1>4. Consecutive(q)'
  BY <1>1 DEF Followed, Consecutive, Fragment
<1>5. Windowed(q)'
  <2>1. CASE Marked(q, h)
    <3>1. Slide(rx_seq[q], rx_window_bitmap[q], h.seq) # {}
      BY <1>1, <1>3, SlideMarks DEF Typed, Keyed
    <3>2. QED
      BY <2>1, <3>1 DEF Marked, Windowed
  <2>2. CASE TakesRekey(p, q, h)
    BY <2>2 DEF TakesRekey, Windowed
  <2>3. QED
    BY <2>1, <2>2 DEF Took, TakesControl, TakesPart
<1>6. Partial(p, q)'
  <2>1. SUFFICES ASSUME Assembled(q)' # <<>> PROVE Partial(p, q)'
    BY DEF Partial
  <2>2. /\ Fragment(h) /\ h.type = "DATA_FRAG" /\ Marked(q, h)
        /\ Assembled(q)' = Append(Assembled(q), h.data)
        /\ UNCHANGED got[p] /\ Expected(q)' = h.seq + 1
    BY <2>1 DEF Took, TakesControl, TakesRekey, TakesPart
  <2> DEFINE M == Len(got[p]) + 1
             a == Assembled(q)
  <2>3. /\ M \in DOMAIN sent[p] /\ h.data = <<p, M, Len(a) + 1>>
        /\ Len(a) + 1 \in DOMAIN sent[p][M]
        /\ h.type = FragType(Len(a) + 1, Len(sent[p][M]))
    BY <1>1, <2>2, NextPart
  <2>4. a \in Seq(Fragments) /\ h.data \in Fragments /\ Len(a) \in Nat /\ M \in Nat
    BY <1>1, <2>2, StreamTyped, AliveFacts
  <2>5. /\ Len(Append(a, h.data)) = Len(a) + 1 /\ DOMAIN Append(a, h.data) = 1 .. Len(a) + 1
        /\ Append(a, h.data)[Len(a) + 1] = h.data
        /\ \A i \in 1 .. Len(a) : Append(a, h.data)[i] = a[i]
        /\ DOMAIN a = 1 .. Len(a)
    BY <2>4
  <2>6. Len(a) + 1 < Len(sent[p][M])
    BY <2>2, <2>3 DEF FragType
  <2>7. ASSUME NEW i \in DOMAIN Append(a, h.data) PROVE Append(a, h.data)[i] = <<p, M, i>>
    <3>1. CASE i = Len(a) + 1
      BY <2>3, <2>5, <3>1
    <3>2. CASE i \in 1 .. Len(a)
      <4>1. a # <<>> /\ i \in DOMAIN a
        BY <2>4, <2>5, <3>2
      <4>2. a[i] = <<p, M, i>>
        BY <1>1, <4>1 DEF Followed, Partial
      <4>3. QED
        BY <2>5, <3>2, <4>2
    <3>3. QED
      BY <2>4, <2>5, <2>7, <3>1, <3>2
  <2>8. ASSUME NEW f \in Around(q), Fragment(f), f.data[2] = M
        PROVE  f.gen = gen[q] /\ f.seq + (Len(a) + 1) + 1 = (h.seq + 1) + f.data[3]
    <3>1. h.data[2] = M /\ h.data[3] = Len(a) + 1
      BY <2>3
    <3>2. f.gen = h.gen /\ f.seq + h.data[3] = h.seq + f.data[3]
      BY <1>1, <1>3, <2>2, <2>8, <3>1 DEF Followed, Consecutive
    <3>3. f.seq \in Nat /\ f.data[3] \in Nat
      BY <1>1, <2>8, AroundTyped, FrameFacts, FragmentFacts DEF Fragment
    <3>4. PICK l \in Nat : l = Len(a)
      BY <2>4
    <3>5. f.seq + (l + 1) = h.seq + f.data[3]
      BY <3>1, <3>2, <3>4
    <3>6. f.seq + (l + 1) + 1 = (h.seq + 1) + f.data[3]
      BY <1>3, <3>3, <3>5
    <3>7. QED
      BY <1>1, <3>2, <3>4, <3>6
  <2>9. ASSUME NEW g \in Alive(q)', g.gen = gen[q] PROVE g.seq >= h.seq + 1
    <3>1. g \in Alive(q) /\ Before(h, g) /\ g.seq \in Nat
      BY <1>1, <1>2, AliveFacts
    <3>2. QED
      BY <1>1, <1>3, <2>9, <3>1 DEF Before
  <2>10. gen'[q] = gen[q]
    BY <2>2 DEF Marked
  <2>11. /\ M \in DOMAIN sent'[p] /\ Len(Assembled(q)') < Len(sent'[p][M])
         /\ \A i \in DOMAIN Assembled(q)' : Assembled(q)'[i] = <<p, M, i>>
    BY <1>1, <2>2, <2>3, <2>5, <2>6, <2>7
  <2>12. \A f \in Around(q)' : Fragment(f) /\ f.data[2] = M =>
            f.gen = gen'[q] /\ f.seq + Len(Assembled(q)') + 1 = Expected(q)' + f.data[3]
    BY <1>1, <2>2, <2>5, <2>8, <2>10
  <2>13. \A g \in Alive(q)' : g.gen = gen'[q] => g.seq >= Expected(q)'
    BY <2>2, <2>9, <2>10
  <2>14. Len(got'[p]) + 1 = M
    BY <2>2
  <2> HIDE DEF M, a
  <2>15. QED
    BY <2>11, <2>12, <2>13, <2>14 DEF Partial, Fragment
<1>7. InReach(p, q)'
  <2>1. /\ tx_seq[p] \in Nat /\ last_rx_seq[q] \in Int /\ W \in Nat
    BY <1>1, WAssumption DEF Typed, Keyed
  <2>2. \/ last_rx_seq'[q] = last_rx_seq[q]
        \/ last_rx_seq'[q] = h.seq
    BY <1>1 DEF Advance
  <2>3. \A f \in Alive(q)' : last_rx_seq'[q] < f.seq + W
    <3>1. TAKE f \in Alive(q)'
    <3>2. f \in Alive(q) /\ Before(h, f)
      BY <1>1, <1>2
    <3>3. last_rx_seq[q] < f.seq + W /\ h.seq < f.seq + W
      BY <1>1, <3>2 DEF InReach
    <3>4. QED
      BY <2>2, <3>3
  <2>4. \A f, g \in Alive(q)' : Before(f, g) => f.seq < g.seq + W
    BY <1>1, <1>2 DEF InReach
  <2>5. Going(p) => /\ Young(last_rx_seq'[q], tx_seq[p])
                    /\ \A f \in Alive(q)' : Young(f.seq, tx_seq[p])
    BY <1>1, <1>2, <2>2 DEF InReach
  <2>6. Going(p) /\ job[p].op = "rekey" =>
           last_rx_seq'[q] < W /\ \A f \in Alive(q)' : f.seq < W
    BY <1>1, <1>2, <2>2 DEF InReach
  <2>7. QED
    BY <1>1, <1>2, <2>3, <2>4, <2>5, <2>6 DEF InReach, Before, Young
<1>8. QED
  BY <1>4, <1>5, <1>6, <1>7 DEF Followed

(* A message that is handed out is the next one that p has sent. *)
LEMMA TookPrefix ==
    ASSUME IInv, NEW q \in Peers, NEW p \in Peers, p = Other(q), Linked(p, q), Whole(p),
           Prefix(p), NEW h, Took(p, q, h)
    PROVE  /\ Prefix(p)'
           /\ \/ UNCHANGED got[p]
              \/ /\ Len(got[p]) + 1 \in DOMAIN sent[p]
                 /\ got'[p] = Append(got[p], sent[p][Len(got[p]) + 1])
<1>1. Typed /\ Least(q, h) /\ UNCHANGED sent[p] /\ Followed(p, q)
  BY DEF IInv, Linked, Took, Consumes
<1>2. CASE got'[p] = got[p]
  BY <1>1, <1>2 DEF Prefix
<1>3. CASE got'[p] # got[p]
  <2> DEFINE M == Len(got[p]) + 1
             a == Assembled(q)
             w == Append(a, h.data)
  <2>1. Fragment(h) /\ h.type = "DATA" /\ got'[p] = Append(got[p], w)
    BY <1>3 DEF Took, TakesControl, TakesRekey, TakesPart
  <2>2. /\ M \in DOMAIN sent[p] /\ h.data = <<p, M, Len(a) + 1>>
        /\ Len(a) + 1 \in DOMAIN sent[p][M]
        /\ h.type = FragType(Len(a) + 1, Len(sent[p][M]))
    BY <1>1, <2>1, NextPart
  <2>3. /\ a \in Seq(Fragments) /\ h.data \in Fragments /\ Len(a) \in Nat /\ M \in Nat
        /\ got[p] \in Seq(Seq(Fragments)) /\ sent[p] \in Seq(Seq(Fragments))
        /\ Len(got[p]) \in Nat
    BY <1>1, <2>1, StreamTyped, AliveFacts DEF Least, Typed, Told
  <2>4. /\ w \in Seq(Fragments) /\ DOMAIN w = 1 .. Len(a) + 1
        /\ w[Len(a) + 1] = h.data /\ \A i \in 1 .. Len(a) : w[i] = a[i]
        /\ DOMAIN a = 1 .. Len(a)
    BY <2>3
  <2>5. /\ sent[p][M] \in Seq(Fragments) /\ DOMAIN sent[p][M] = 1 .. Len(sent[p][M])
        /\ \A i \in DOMAIN sent[p][M] : sent[p][M][i] = <<p, M, i>>
    BY <1>1, <2>2, MessageIs
  <2>6. Len(sent[p][M]) = Len(a) + 1
    <3>1. ~(Len(a) + 1 < Len(sent[p][M]))
      BY <2>1, <2>2 DEF FragType
    <3>2. QED
      BY <2>2, <2>3, <2>5, <3>1
  <2>7. ASSUME NEW i \in 1 .. Len(a) + 1 PROVE w[i] = sent[p][M][i]
    <3>1. sent[p][M][i] = <<p, M, i>>
      BY <2>5, <2>6
    <3>2. CASE i = Len(a) + 1
      BY <2>2, <2>4, <3>1, <3>2
    <3>3. CASE i \in 1 .. Len(a)
      <4>1. a # <<>> /\ i \in DOMAIN a
        BY <2>3, <2>4, <3>3
      <4>2. a[i] = <<p, M, i>>
        BY <1>1, <4>1 DEF Followed, Partial
      <4>3. QED
        BY <2>4, <3>1, <3>3, <4>2
    <3>4. QED
      BY <2>3, <3>2, <3>3
  <2> HIDE DEF w
  <2>8. w = sent[p][M]
    <3>1. PICK s \in Seq(Fragments) : s = sent[p][M]
      BY <2>5
    <3>2. w \in Seq(Fragments) /\ DOMAIN w = DOMAIN s /\ \A i \in DOMAIN w : w[i] = s[i]
      BY <2>4, <2>5, <2>6, <2>7, <3>1
    <3>3. w = s
      BY <3>2
    <3>4. QED
      BY <3>1, <3>3
  <2>9. got'[p] = Append(got[p], sent[p][M])
    BY <2>1, <2>8
  <2>10. Prefix(p)'
    <3>1. SUFFICES ASSUME NEW k \in DOMAIN got'[p]
                   PROVE  k \in DOMAIN sent[p] /\ got'[p][k] = sent[p][k]
      BY <1>1 DEF Prefix
    <3>2. /\ DOMAIN got'[p] = 1 .. M /\ got'[p][M] = sent[p][M]
          /\ \A j \in 1 .. Len(got[p]) : got'[p][j] = got[p][j]
          /\ DOMAIN got[p] = 1 .. Len(got[p])
      BY <2>3, <2>9
    <3>3. k = M \/ k \in 1 .. Len(got[p])
      BY <2>3, <3>1, <3>2
    <3>4. QED
      BY <2>2, <3>2, <3>3 DEF Prefix
  <2>11. QED
    BY <2>2, <2>9, <2>10
<1>4. QED
  BY <1>2, <1>3

LEMMA TookKeeps ==
    ASSUME IInv, NEW q \in Peers, NEW p \in Peers, p = Other(q), Linked(p, q), Whole(p),
           Prefix(p), NEW h, Took(p, q, h)
    PROVE  Linked(p, q)'
  BY TookNumbered, TookRotating, TookWaiting, TookComplete, TookFollowed DEF Linked

-----------------------------------------------------------------------------
(* p rotates its keys, when its REKEY has been acknowledged                  *)

LEMMA RotatesKeeps ==
    ASSUME IInv, NEW q \in Peers, NEW p \in Peers, p = Other(q), Linked(p, q), Rotates(p, q)
    PROVE  Linked(p, q)'
<1> DEFINE r == job[p].frame
<1>1. /\ Typed /\ Other(p) = q /\ Going(p) /\ Answered(p) /\ r \in Around(q)
      /\ r.type = "REKEY" /\ Numbered(p, q) /\ Rotating(p, q) /\ Complete(p, q)
      /\ Waiting(p, q) /\ Followed(p, q) /\ InReach(p, q)
      /\ Latest(p, q) /\ Keys(p, q)
  BY OtherFacts DEF IInv, JobFits, Rotates, Going, Answered, Around, Pending, Linked, Numbered,
                    Rotating
<1>2. /\ UNCHANGED <<gen[q], sent[p], got[p], confirmed[p], Assembled(q), Expected(q),
                     rx_seq[q], rx_window_bitmap[q], last_rx_seq[q], read_buffer[q]>>
      /\ job[p].op = "rekey" /\ job'[p].op = "none" /\ tx_seq'[p] = 0 /\ acks'[p] = {}
  BY DEF Rotates
<1>3. /\ r.gen = gen[p] /\ r.data[1] \in Salts /\ gen[p] \in Seq(Salts) /\ gen[q] \in Seq(Salts)
      /\ Len(gen[p]) \in Nat /\ Len(gen[q]) \in Nat
      /\ gen'[p] = Append(r.gen, r.data[1]) /\ Len(gen'[p]) = Len(gen[p]) + 1
  <2>1. r.gen = gen[p] /\ r \in Frames
    BY <1>1, <1>2, AroundTyped DEF Latest
  <2>2. r.data[1] \in Salts /\ gen[p] \in Seq(Salts) /\ gen[q] \in Seq(Salts)
    BY <1>1, <2>1, FrameFacts DEF Typed, Keyed
  <2>3. QED
    BY <2>1, <2>2 DEF Rotates
<1>4. Alive(q) \subseteq Buffered(q)
  BY <1>1, AnsweredSecured
<1>5. /\ Around(q)' \subseteq Around(q) /\ Buffered(q)' = Buffered(q)
      /\ \A f : Dead(q, f)' <=> Dead(q, f)
  <2>1. Pending(p)' = {} /\ Buffered(q)' = Buffered(q) /\ net'[q] = net[q]
        /\ PutBy(q)' = PutBy(q)
    BY DEF Rotates, Pending, Buffered
  <2>2. QED
    BY <1>1, <1>2, <2>1 DEF Around, Dead
<1>6. Alive(q)' = Alive(q)
  BY <1>4, <1>5 DEF Alive, Around
<1> HIDE DEF r
<1>7. Numbered(p, q)'
  <2>1. Genuine(p, q)' /\ Ranked(q)'
    BY <1>1, <1>2, <1>5 DEF Numbered, Genuine, Ranked, Fragment
  <2>2. \A f \in Around(q)' : Len(f.gen) < Len(gen'[p])
    <3>1. TAKE f \in Around(q)'
    <3>2. f \in Around(q) /\ Len(f.gen) \in Nat
      BY <1>1, <1>5, AroundTyped, FrameFacts
    <3>3. QED
      BY <1>1, <1>3, <3>2 DEF Latest
  <2>3. Latest(p, q)'
    BY <1>2, <2>2 DEF Latest
  <2>4. QED
    BY <2>1, <2>3 DEF Numbered
<1>8. Rotating(p, q)'
  <2>1. \A g : Turned(q, g) <=> Turned(q, g)'
    BY <1>5, <1>6 DEF Turned, Turns
  <2>2. KeyLine(q)'
    BY <1>1, <1>2, <1>5, <2>1 DEF Rotating, KeyLine
  <2>3. ASSUME ~Dead(q, r), Len(gen'[p]) > Len(gen[q]) PROVE Lags(p, q)'
    <3>1. r \in Alive(q)
      BY <1>1, <2>3 DEF Alive
    <3>2. r \in Alive(q)' /\ r \in Buffered(q)' /\ Turns(r, gen'[p])
      BY <1>1, <1>3, <1>4, <1>5, <1>6, <3>1 DEF Turns
    <3>3. PICK s : s = r
      OBVIOUS
    <3>4. s \in Alive(q)' /\ s \in Buffered(q)' /\ Turns(s, gen'[p])
      BY <3>2, <3>3
    <3>5. QED
      BY <1>2, <2>3, <3>4 DEF Lags, Turned, Turns
  <2>4. CASE Ahead(p, q)
    <3>1. InTune(p, q)'
      BY <1>2, <1>3, <2>4 DEF Ahead, InTune, r
    <3>2. QED
      BY <2>2, <3>1 DEF Keys, Rotating
  <2>5. CASE Lags(p, q)
    <3>1. Len(gen'[p]) > Len(gen[q])
      BY <1>3, <2>5 DEF Lags
    <3>2. ~Dead(q, r)
      BY <1>3, <2>5 DEF Lags, Dead
    <3>3. QED
      BY <2>2, <2>3, <3>1, <3>2 DEF Keys, Rotating
  <2>6. CASE InTune(p, q) /\ Len(gen'[p]) > Len(gen[q])
    <3>1. ~Dead(q, r)
      BY <1>2, <2>6 DEF InTune, r
    <3>2. QED
      BY <2>2, <2>3, <2>6, <3>1 DEF Keys, Rotating
  <2>7. Len(gen'[p]) > Len(gen[q]) \/ ~InTune(p, q)
    BY <1>3 DEF InTune
  <2>8. QED
    BY <1>1, <2>4, <2>5, <2>6, <2>7 DEF Keys
<1>9. Waiting(p, q)'
  <2>1. Placed(p, q)'
    BY <1>4, <1>5, <1>6 DEF Placed
  <2>2. Queued(q)'
    BY <1>1, <1>2, <1>5, <1>6 DEF Waiting, Queued, Before
  <2>3. QED
    BY <2>1, <2>2 DEF Waiting
<1>10. /\ \A d : Holds(Stream(p), d)' <=> Holds(Stream(p), d)
       /\ \A d : Secured(p, q, d) => Secured(p, q, d)'
       /\ \A m : AllSecured(p, q, m) => AllSecured(p, q, m)'
  <2>1. \A d : Holds(Stream(p), d)' <=> Holds(Stream(p), d)
    BY <1>1, <1>2 DEF Stream, Holds
  <2>2. \A d : Secured(p, q, d) => Secured(p, q, d)'
    BY <1>5, <1>6, <2>1 DEF Secured, Waits, Carries, Fragment
  <2>3. QED
    BY <1>2, <2>1, <2>2 DEF AllSecured
<1>11. Complete(p, q)'
  <2>1. Sooner(q)' /\ NoneMissing(p, q)' /\ NoneCut(p, q)'
    <3>1. Sooner(q)'
      BY <1>1, <1>6 DEF Complete, Sooner, Fragment, PartBefore, Before
    <3>2. NoneMissing(p, q)'
      BY <1>1, <1>2, <1>6, <1>10 DEF Complete, NoneMissing, Fragment, PartBefore
    <3>3. NoneCut(p, q)'
      BY <1>1, <1>6, <1>10 DEF Complete, NoneCut, Fragment, Before
    <3>4. QED
      BY <3>1, <3>2, <3>3
  <2>2. OneWhole(p, q)'
    <3>1. SUFFICES ASSUME Assembled(q) # <<>>, NEW g \in Alive(q), ~Fragment(g)
                   PROVE  AllSecured(p, q, Len(got[p]) + 1)'
      BY <1>2, <1>6 DEF OneWhole, Fragment, AllSecured
    <3>2. PICK m : m = Len(got[p]) + 1
      OBVIOUS
    <3>3. AllSecured(p, q, m)'
      BY <1>1, <1>10, <3>1, <3>2 DEF Complete, OneWhole
    <3>4. QED
      BY <1>2, <3>2, <3>3
  <2>3. ConfirmedKept(p, q)'
    BY <1>1, <1>2, <1>10 DEF Complete, ConfirmedKept
  <2>4. EmittedKept(p, q)'
    <3>1. \A d : Emitted(p, d)' <=> Emitted(p, d)
      BY <1>2 DEF Emitted
    <3>2. SUFFICES ASSUME NEW m \in DOMAIN sent[p], NEW i \in DOMAIN sent[p][m],
                          Emitted(p, <<p, m, i>>)
                   PROVE  \/ Holds(Stream(p), <<p, m, i>>)'
                          \/ \E f \in Alive(q)' : Carries(f, <<p, m, i>>)
      BY <1>2, <3>1 DEF EmittedKept, Carries, Fragment
    <3>3. QED
      BY <1>1, <1>6, <1>10, <3>2 DEF Complete, EmittedKept
  <2>5. QED
    BY <2>1, <2>2, <2>3, <2>4 DEF Complete
<1>12. Followed(p, q)'
  <2>1. Consecutive(q)' /\ Windowed(q)'
    BY <1>1, <1>2, <1>5 DEF Followed, Consecutive, Windowed, Fragment
  <2>2. Partial(p, q)'
    BY <1>1, <1>2, <1>5, <1>6 DEF Followed, Partial, Fragment
  <2>3. QED
    BY <2>1, <2>2 DEF Followed
<1>13. InReach(p, q)'
  BY <1>1, <1>2, <1>6 DEF InReach, Before, Young
<1>14. QED
  BY <1>7, <1>8, <1>9, <1>11, <1>12, <1>13 DEF Linked

-----------------------------------------------------------------------------
(* What q reads next                                                         *)

LEMMA HeadLeast ==
    ASSUME Typed, NEW q \in Peers, NEW p \in Peers, p = Other(q), Linked(p, q),
           read_buffer[q] # <<>>, NEW h, h = Head(read_buffer[q])
    PROVE  /\ h \in Around(q) /\ h \in Frames
           /\ ~Dead(q, h) => Least(q, h)
           /\ Authentic(q, h) <=> ~Dead(q, h)
<1>1. /\ read_buffer[q] \in Seq(Frames) /\ 1 \in DOMAIN read_buffer[q] /\ h = read_buffer[q][1]
      /\ h \in Around(q)
  BY BufferTyped DEF Buffered
<1>2. h \in Frames
  BY <1>1, AroundTyped
<1>3. ASSUME ~Dead(q, h) PROVE Least(q, h)
  <2>1. h \in Alive(q)
    BY <1>1, <1>3 DEF Alive
  <2>2. \A g \in Alive(q) : ~Before(g, h)
    <3>1. ASSUME NEW g \in Alive(q), Before(g, h) PROVE FALSE
      <4>1. \E k \in 1 .. 1 - 1 : read_buffer[q][k] = g
        BY <1>1, <1>3, <3>1 DEF Linked, Waiting, Queued
      <4>2. QED
        BY <4>1
    <3>2. QED
      BY <3>1
  <2>3. h.gen = gen[q]
    <3>1. SUFFICES ASSUME Len(h.gen) > Len(gen[q]) PROVE FALSE
      BY <2>1, AliveFacts
    <3>2. PICK r \in Alive(q) : Turns(r, h.gen)
      BY <1>1, <3>1 DEF Linked, Rotating, KeyLine, Turned
    <3>3. r.gen \in Seq(Salts)
      BY AliveFacts
    <3>4. Len(h.gen) = Len(r.gen) + 1 /\ Len(r.gen) \in Nat
      BY <3>2, <3>3 DEF Turns
    <3>5. QED
      BY <2>2, <3>4 DEF Before
  <2>4. QED
    BY <2>1, <2>2, <2>3, AliveOrdered DEF Least, Linked, Numbered
<1>4. Authentic(q, h) <=> ~Dead(q, h)
  <2>1. gen[q] \in Seq(Salts)
    BY DEF Typed, Keyed
  <2>2. QED
    BY <1>2, <1>3, <2>1, FrameFacts DEF Authentic, Dead, Least
<1>5. QED
  BY <1>1, <1>2, <1>3, <1>4

(* A device that buffers nothing reads whatever it finds. *)
LEMMA AnyLeast ==
    ASSUME Typed, NEW q \in Peers, NEW p \in Peers, p = Other(q), Linked(p, q),
           read_buffer[q] = <<>>, NEW h \in Around(q)
    PROVE  /\ ~Dead(q, h) => Least(q, h)
           /\ Authentic(q, h) <=> ~Dead(q, h)
<1>1. Buffered(q) = {}
  BY DEF Buffered
<1>2. h \in Frames
  BY AroundTyped
<1>3. ASSUME ~Dead(q, h) PROVE Least(q, h)
  <2>1. h \in Alive(q)
    BY <1>3 DEF Alive
  <2>2. \A g \in Alive(q) : ~Before(g, h) /\ ~Before(h, g)
    BY <1>1, <2>1 DEF Linked, Waiting, Placed, Alive
  <2>3. h.gen = gen[q]
    BY <1>1, <2>1, AliveFacts DEF Linked, Rotating, KeyLine, Turned
  <2>4. QED
    BY <2>1, <2>2, <2>3, AliveOrdered DEF Least, Linked, Numbered
<1>4. Authentic(q, h) <=> ~Dead(q, h)
  <2>1. gen[q] \in Seq(Salts)
    BY DEF Typed, Keyed
  <2>2. QED
    BY <1>2, <1>3, <2>1, FrameFacts DEF Authentic, Dead, Least
<1>5. QED
  BY <1>3, <1>4

-----------------------------------------------------------------------------
(* What a step does to the direction from p to q                             *)

LEMMA QuietIsCalm ==
    ASSUME Typed, NEW q \in Peers, NEW p \in Peers, p = Other(q), Linked(p, q), Quiet(p, q)
    PROVE  Calm(p, q)
<1>0. Other(q) = p /\ UNCHANGED gen
  BY DEF Quiet
<1>1. JobGoes(p)
  BY DEF Quiet, QuietJob, JobGoes
<1>2. Around(q)' \subseteq Around(q)
  <2>1. Pending(p)' \subseteq Pending(p)
    BY DEF Quiet, QuietJob, Pending
  <2>2. Buffered(q)' = Buffered(q)
    BY DEF Quiet, Buffered
  <2>3. QED
    BY <1>0, <2>1, <2>2 DEF Quiet, Around
<1>3. BufferGoes(q)
  BY DEF Quiet, BufferGoes
<1>4. AcksGo(p, q)
  <2>1. ASSUME Going(p)', Answered(p)' PROVE Answered(p)
    <3>1. CASE job'[p] = job[p]
      BY <1>0, <2>1, <3>1 DEF Answered, AckMatches, Quiet
    <3>2. CASE job'[p].op = "none"
      BY <2>1, <3>2 DEF Quiet, QuietJob, Going, Answered
    <3>3. CASE \E a \in acks[p] : AckMatches(p, a)
      BY <3>3 DEF Answered
    <3>4. QED
      BY <3>1, <3>2, <3>3 DEF Quiet, QuietJob
  <2>2. QED
    BY <2>1 DEF AcksGo, Quiet
<1>5. QED
  BY <1>1, <1>2, <1>3, <1>4 DEF Quiet, Calm

-----------------------------------------------------------------------------
(* The steps that seal a frame                                               *)

(* The other direction does not notice. *)
LEMMA EmitPasses ==
    ASSUME Typed, NEW q \in Peers, NEW p \in Peers, p = Other(q),
           NEW o, NEW type, NEW data, Emit(q, o, type, data),
           UNCHANGED <<gen, rx_seq, rx_window_bitmap, last_rx_seq, read_buffer, rcv, up, acks,
                       got, confirmed, sent[p], call, slot, port>>
    PROVE  Quiet(p, q)
<1>0. Other(q) # q /\ q # p
  BY OtherFacts
<1>1. job'[p] = job[p] /\ tx_seq'[p] = tx_seq[p] /\ net'[q] = net[q]
  BY <1>0 DEF Emit, Typed, Running, Keyed, Carried
<1>2. Assembled(q)' = Assembled(q) /\ Expected(q)' = Expected(q) /\ PutBy(q)' = PutBy(q)
  BY DEF Assembled, Expected, PutBy
<1>3. QED
  BY <1>1, <1>2 DEF Quiet, QuietJob, ConfirmedGoes, Around

LEMMA SealingPasses ==
    ASSUME Typed, NEW q \in Peers, NEW p \in Peers, p = Other(q), NotC,
           StartSend(q) \/ StartRekey(q) \/ StartPing(q) \/ StartBye(q) \/ StartPong(q)
             \/ NextFragment(q)
    PROVE  Quiet(p, q)
<1>0. UNCHANGED <<call, slot, port>> /\ q # p
  BY OtherFacts DEF NotC, cvars
<1>1. CASE StartSend(q)
  <2>1. PICK n, m : Emit(q, "send", FragType(1, n), m[1]) /\ sent'[p] = sent[p]
    BY <1>0, <1>1 DEF StartSend, Typed, Told
  <2>2. QED
    BY <1>0, <1>1, <2>1, EmitPasses DEF StartSend
<1>2. CASE StartRekey(q)
  BY <1>0, <1>2, EmitPasses DEF StartRekey, history
<1>3. CASE StartPing(q)
  BY <1>0, <1>3, EmitPasses DEF StartPing, history
<1>4. CASE StartBye(q)
  BY <1>0, <1>4, EmitPasses DEF StartBye, history
<1>5. CASE StartPong(q)
  BY <1>0, <1>5, EmitPasses DEF StartPong, history
<1>6. CASE NextFragment(q)
  <2>1. PICK type, data : Emit(q, "send", type, data)
    BY <1>6 DEF NextFragment
  <2>2. QED
    BY <1>0, <1>6, <2>1, EmitPasses DEF NextFragment, history
<1>7. QED
  BY <1>1, <1>2, <1>3, <1>4, <1>5, <1>6

LEMMA EmitPuts ==
    ASSUME IInv, IInv', NEW p \in Peers, NEW q \in Peers, p = Other(q),
           NEW o \in {"send", "rekey", "ping", "pong", "bye"}, NEW type, NEW data,
           Emit(p, o, type, data), NEW f,
           f = [gen |-> gen[p], type |-> type, seq |-> tx_seq[p], data |-> data],
           UNCHANGED <<gen, rx_seq, rx_window_bitmap, last_rx_seq, read_buffer, rcv, up, acks,
                       got, confirmed, call, slot, port>>
    PROVE  Puts(p, q, o, f)
<1>0. Typed /\ Typed' /\ Other(p) = q
  BY OtherFacts DEF IInv
<1>1. job'[p] = [op |-> o, frame |-> f, acked |-> FALSE] /\ tx_seq'[p] = tx_seq[p] + 1
      /\ net'[q] = net[q] \union {f}
  BY <1>0 DEF Emit, Typed, Running, Keyed, Carried
<1>2. job'[p].op = o /\ job'[p].frame = f /\ job'[p].acked = FALSE
  BY <1>1
<1>3. f \in Frames
  <2>1. job'[p].op # "none"
    BY <1>2
  <2>2. job'[p] \in Jobs /\ Idle.op = "none"
    BY <1>0 DEF Typed, Running, Idle
  <2>3. QED
    BY <1>2, <2>1, <2>2 DEF Jobs
<1>4. Assembled(q)' = Assembled(q) /\ Expected(q)' = Expected(q) /\ PutBy(q)' = PutBy(q)
  BY DEF Assembled, Expected, PutBy
<1>5. QED
  BY <1>1, <1>2, <1>3, <1>4 DEF Puts

LEMMA ControlSeals ==
    ASSUME IInv, IInv', NEW p \in Peers, NEW q \in Peers, p = Other(q),
           up[p], job[p].op = "none", NEW o \in {"rekey", "ping", "pong", "bye"}, NEW data,
           Emit(p, o, ControlOf[o], data),
           UNCHANGED <<gen, rx_seq, rx_window_bitmap, last_rx_seq, read_buffer, rcv, up, acks,
                       got, confirmed, call, slot, port, sent>>,
           o = "rekey" => tx_seq[p] < W
    PROVE  \E f : Seals(p, q, f)
<1>1. PICK type : type = ControlOf[o]
  OBVIOUS
<1>2. type \in {"REKEY", "PING", "PONG", "BYE"} /\ type \notin DataTypes
      /\ (o = "rekey" <=> type = "REKEY")
  BY <1>1 DEF ControlOf, DataTypes
<1>3. PICK f : f = [gen |-> gen[p], type |-> type, seq |-> tx_seq[p], data |-> data]
  OBVIOUS
<1>4. Typed /\ JobFits(p)
  BY DEF IInv
<1>5. /\ f.gen = gen[p] /\ f.type = type /\ f.seq = tx_seq[p] /\ ~Fragment(f)
  BY <1>2, <1>3 DEF Fragment
<1>6. Puts(p, q, o, f)
  <2>1. Emit(p, o, type, data) /\ o \in {"send", "rekey", "ping", "pong", "bye"}
    BY <1>1
  <2>2. QED
    BY <1>3, <2>1, EmitPuts
<1>7. \A m \in DOMAIN sent[p] : \A i \in DOMAIN sent[p][m] : Emitted(p, <<p, m, i>>)
  BY <1>4, LastEmitted
<1>8. Seals(p, q, f)
  BY <1>2, <1>5, <1>6, <1>7 DEF Seals, Puts
<1>9. QED
  BY <1>8

LEMMA StartControlSeals ==
    ASSUME IInv, IInv', NotC, NEW p \in Peers, NEW q \in Peers, p = Other(q), Favoured(p, q),
           StartRekey(p) \/ StartPing(p) \/ StartBye(p) \/ StartPong(p)
    PROVE  \E f : Seals(p, q, f)
<1>0. Typed /\ UNCHANGED <<call, slot, port>>
  BY DEF IInv, NotC, cvars
<1>1. CASE StartRekey(p)
  <2>1. Ready(p, "rekey") /\ Emit(p, "rekey", ControlOf["rekey"], <<salts + 1>>)
    BY <1>1 DEF StartRekey, ControlOf
  <2>2. tx_seq[p] < W /\ up[p] /\ job[p].op = "none"
    BY <1>0, <2>1, JobFacts DEF Favoured, Ready
  <2>3. QED
    BY <1>0, <1>1, <2>1, <2>2, ControlSeals DEF StartRekey, history
<1>2. CASE StartPing(p)
  <2>1. Ready(p, "ping") /\ Emit(p, "ping", ControlOf["ping"], <<>>)
    BY <1>2 DEF StartPing, ControlOf
  <2>2. up[p] /\ job[p].op = "none"
    BY <1>0, <2>1, JobFacts DEF Ready
  <2>3. QED
    BY <1>0, <1>2, <2>1, <2>2, ControlSeals DEF StartPing, history
<1>3. CASE StartBye(p)
  <2>1. Ready(p, "bye") /\ Emit(p, "bye", ControlOf["bye"], <<>>)
    BY <1>3 DEF StartBye, ControlOf
  <2>2. up[p] /\ job[p].op = "none"
    BY <1>0, <2>1, JobFacts DEF Ready
  <2>3. QED
    BY <1>0, <1>3, <2>1, <2>2, ControlSeals DEF StartBye, history
<1>4. CASE StartPong(p)
  <2>1. up[p] /\ Emit(p, "pong", ControlOf["pong"], <<>>)
    BY <1>4 DEF StartPong, ControlOf
  <2>2. job[p].op = "none"
    BY <1>0, <1>4, JobFacts DEF StartPong
  <2>3. QED
    BY <1>0, <1>4, <2>1, <2>2, ControlSeals DEF StartPong, history
<1>5. QED
  BY <1>1, <1>2, <1>3, <1>4

LEMMA StartSendSeals ==
    ASSUME IInv, IInv', NotC, NEW p \in Peers, NEW q \in Peers, p = Other(q), StartSend(p)
    PROVE  \E f : Seals(p, q, f)
<1>0. Typed /\ UNCHANGED <<call, slot, port>>
  BY DEF IInv, NotC, cvars
<1>1. PICK n : n = Head(script[p]).frags
  OBVIOUS
<1>2. PICK m : m = Len(sent[p])
  OBVIOUS
<1>3. /\ sent[p] \in Seq(Seq(Fragments)) /\ m \in Nat /\ DOMAIN sent[p] = 1 .. m
      /\ n \in 1 .. MaxFrags /\ n \in Nat /\ 1 \in 1 .. n
      /\ job[p].op = "none" /\ up[p]
  <2>1. Ready(p, "send") /\ Pop(p)
    BY DEF StartSend
  <2>2. n \in 1 .. MaxFrags
    BY <1>0, <1>1, <2>1, ScriptFacts
  <2>3. sent[p] \in Seq(Seq(Fragments))
    BY <1>0 DEF Typed, Told
  <2>4. up[p] /\ job[p].op = "none"
    BY <1>0, <2>1, JobFacts DEF Ready
  <2>5. QED
    BY <1>2, <2>2, <2>3, <2>4, UdpSessionAssumption
<1>4. PICK data : data = <<p, m + 1, 1>>
  OBVIOUS
<1>5. PICK type : type = FragType(1, n)
  OBVIOUS
<1>6. PICK msg : msg = Message(p, m + 1, n)
  OBVIOUS
<1>7. /\ msg \in Seq(Fragments) /\ Len(msg) = n /\ msg[1] = data /\ DOMAIN msg = 1 .. n
      /\ data \in Fragments /\ data[1] = p /\ data[2] = m + 1 /\ data[3] = 1
      /\ type \in DataTypes
  BY <1>3, <1>4, <1>5, <1>6, MessageFacts, FragmentFacts DEF FragType, DataTypes
<1>8. /\ sent' = [sent EXCEPT ![p] = Append(sent[p], msg)] /\ Emit(p, "send", type, data)
      /\ UNCHANGED <<gen, rx_seq, rx_window_bitmap, last_rx_seq, read_buffer, rcv, up, acks,
                     got, confirmed>>
  BY <1>1, <1>2, <1>5, <1>6, <1>7 DEF StartSend
<1>9. PICK f : f = [gen |-> gen[p], type |-> type, seq |-> tx_seq[p], data |-> data]
  OBVIOUS
<1>10. /\ f.gen = gen[p] /\ f.type = type /\ f.seq = tx_seq[p] /\ f.data = data
       /\ Fragment(f) /\ f.type # "REKEY"
  BY <1>7, <1>9 DEF Fragment, DataTypes
<1>11. Puts(p, q, "send", f)
  BY <1>0, <1>8, <1>9, EmitPuts
<1>12. /\ DOMAIN sent'[p] = 1 .. m + 1 /\ Len(sent'[p]) = m + 1 /\ sent'[p][m + 1] = msg
       /\ \A k \in 1 .. m : sent'[p][k] = sent[p][k]
  <2>1. sent'[p] = Append(sent[p], msg)
    BY <1>0, <1>8 DEF Typed, Told
  <2>2. QED
    BY <1>2, <1>3, <2>1
<1>13. \A k \in DOMAIN sent[p] : k \in DOMAIN sent'[p] /\ sent'[p][k] = sent[p][k]
  BY <1>3, <1>12
<1>14. \A k \in DOMAIN sent[p] : \A i : Emitted(p, <<p, k, i>>)
  BY <1>2, <1>3 DEF Emitted
<1>15. ASSUME NEW k \in DOMAIN sent'[p], NEW i \in DOMAIN sent'[p][k],
              Emitted(p, <<p, k, i>>)'
       PROVE  \/ k \in DOMAIN sent[p] /\ Emitted(p, <<p, k, i>>)
              \/ Carries(f, <<p, k, i>>)
  <2>1. CASE k \in 1 .. m
    BY <1>3, <1>14, <2>1
  <2>2. CASE k = m + 1
    <3>1. i \in 1 .. n
      BY <1>7, <1>12, <2>2
    <3>2. i <= job'[p].frame.data[3]
      BY <1>11, <1>12, <1>15, <2>2 DEF Emitted, Puts
    <3>3. job'[p].frame.data[3] = 1
      BY <1>7, <1>10, <1>11 DEF Puts
    <3>4. i = 1
      BY <1>3, <3>1, <3>2, <3>3
    <3>5. QED
      BY <1>4, <1>10, <2>2, <3>4 DEF Carries
  <2>3. QED
    BY <1>3, <1>12, <2>1, <2>2
<1>16. NewPart(p, f)
  <2>1. f.data[2] \in DOMAIN sent'[p] /\ f.data[3] \in DOMAIN sent'[p][f.data[2]]
        /\ f.type = FragType(f.data[3], Len(sent'[p][f.data[2]]))
    BY <1>3, <1>5, <1>7, <1>10, <1>12
  <2>2. ASSUME NEW d \in Fragments, Emitted(p, d) PROVE PartBefore(d, f.data)
    <3>1. d[2] \in Nat /\ d[2] <= m
      BY <1>2, <2>2, FragmentFacts DEF Emitted
    <3>2. QED
      BY <1>3, <1>7, <1>10, <3>1 DEF PartBefore
  <2>3. ASSUME NEW k \in DOMAIN sent'[p], NEW i \in DOMAIN sent'[p][k],
               PartBefore(<<p, k, i>>, f.data)
        PROVE  k \in DOMAIN sent[p] /\ Emitted(p, <<p, k, i>>)
    <3>1. k \in 1 .. m + 1 /\ (k = m + 1 => i \in 1 .. n)
      BY <1>7, <1>12
    <3>2. k < m + 1 \/ (k = m + 1 /\ i < 1)
      BY <1>7, <1>10, <2>3 DEF PartBefore
    <3>3. k \in 1 .. m
      BY <1>3, <3>1, <3>2
    <3>4. QED
      BY <1>3, <1>14, <3>3
  <2>4. QED
    BY <1>2, <1>7, <1>10, <2>1, <2>2, <2>3 DEF NewPart
<1>17. Seals(p, q, f)
  BY <1>3, <1>10, <1>11, <1>13, <1>15, <1>16 DEF Seals, Puts
<1>18. QED
  BY <1>17

LEMMA NextFragmentSeals ==
    ASSUME IInv, IInv', NotC, NEW p \in Peers, NEW q \in Peers, p = Other(q), NextFragment(p)
    PROVE  \E f : Seals(p, q, f)
<1>0. Typed /\ UNCHANGED <<call, slot, port>>
  BY DEF IInv, NotC, cvars
<1>1. /\ job[p].op = "send" /\ job[p].frame.type = "DATA_FRAG" /\ job[p].frame \in Frames
      /\ up[p] /\ job[p].acked
  BY <1>0, JobFacts DEF NextFragment, IInv, JobFits
<1>2. PICK m : m = Len(sent[p])
  OBVIOUS
<1>17. PICK n \in 1 .. MaxFrags : \E i \in 1 .. n :
           /\ m # 0 /\ sent[p][m] = Message(p, m, n)
           /\ job[p].frame.data = <<p, m, i>> /\ job[p].frame.type = FragType(i, n)
  BY <1>1, <1>2 DEF IInv, JobFits
<1>3. PICK i \in 1 .. n :
           /\ m # 0 /\ sent[p][m] = Message(p, m, n)
           /\ job[p].frame.data = <<p, m, i>> /\ job[p].frame.type = FragType(i, n)
  BY <1>17
<1>4. /\ sent[p] \in Seq(Seq(Fragments)) /\ m \in Nat /\ n \in Nat /\ i \in Nat
      /\ i + 1 \in 1 .. n /\ DOMAIN sent[p] = 1 .. m
      /\ job[p].frame.data[2] = m /\ job[p].frame.data[3] = i
  BY <1>0, <1>1, <1>2, <1>3, UdpSessionAssumption DEF Typed, Told, FragType
<1>5. PICK data : data = <<p, m, i + 1>>
  OBVIOUS
<1>6. PICK type : type = FragType(i + 1, n)
  OBVIOUS
<1>7. /\ data \in Fragments /\ data[1] = p /\ data[2] = m /\ data[3] = i + 1
      /\ type \in DataTypes
      /\ Len(Message(p, m, n)) = n /\ Message(p, m, n)[i + 1] = data
      /\ Len(sent[p][m]) = n /\ DOMAIN sent[p][m] = 1 .. n
  BY <1>3, <1>4, <1>5, <1>6, MessageFacts, FragmentFacts DEF FragType, DataTypes
<1>8. /\ Emit(p, "send", type, data)
      /\ UNCHANGED <<gen, rx_seq, rx_window_bitmap, last_rx_seq, read_buffer, rcv, up, acks,
                     got, sent, confirmed>>
  BY <1>3, <1>4, <1>6, <1>7 DEF NextFragment, history
<1>9. PICK f : f = [gen |-> gen[p], type |-> type, seq |-> tx_seq[p], data |-> data]
  OBVIOUS
<1>10. /\ f.gen = gen[p] /\ f.type = type /\ f.seq = tx_seq[p] /\ f.data = data
       /\ Fragment(f) /\ f.type # "REKEY"
  BY <1>7, <1>9 DEF Fragment, DataTypes
<1>11. Puts(p, q, "send", f)
  BY <1>0, <1>8, <1>9, EmitPuts
<1>12. \A d \in Fragments : Emitted(p, d) <=> d[2] <= m /\ (d[2] = m => d[3] <= i)
  BY <1>1, <1>2, <1>4 DEF Emitted
<1>13. \A d \in Fragments : Emitted(p, d)' <=> d[2] <= m /\ (d[2] = m => d[3] <= i + 1)
  BY <1>2, <1>7, <1>8, <1>10, <1>11 DEF Emitted, Puts
<1>14. \A k \in DOMAIN sent[p] : \A j \in DOMAIN sent[p][k] :
           /\ k \in 1 .. m /\ j \in Nat /\ <<p, k, j>> \in Fragments
           /\ <<p, k, j>>[2] = k /\ <<p, k, j>>[3] = j
  <2>1. ASSUME NEW k \in DOMAIN sent[p], NEW j \in DOMAIN sent[p][k]
        PROVE  /\ k \in 1 .. m /\ j \in Nat /\ <<p, k, j>> \in Fragments
               /\ <<p, k, j>>[2] = k /\ <<p, k, j>>[3] = j
    <3>1. sent[p][k] \in Seq(Fragments)
      BY <1>4
    <3>2. k \in 1 .. m /\ k \in Nat /\ j \in Nat
      BY <1>4, <3>1
    <3>3. QED
      BY <3>2, FragmentFacts
  <2>2. QED
    BY <2>1
<1>15. ASSUME NEW k \in DOMAIN sent[p], NEW j \in DOMAIN sent[p][k],
              Emitted(p, <<p, k, j>>)'
       PROVE  Emitted(p, <<p, k, j>>) \/ Carries(f, <<p, k, j>>)
  <2>1. PICK d : d = <<p, k, j>>
    OBVIOUS
  <2>2. d \in Fragments /\ d[2] = k /\ d[3] = j /\ k \in Nat /\ j \in Nat /\ Emitted(p, d)'
    BY <1>4, <1>14, <1>15, <2>1
  <2>3. CASE k = m /\ j = i + 1
    BY <1>5, <1>10, <2>3 DEF Carries
  <2>4. CASE ~(k = m /\ j = i + 1)
    <3>1. Emitted(p, d)
      BY <1>4, <1>12, <1>13, <2>2, <2>4
    <3>2. QED
      BY <2>1, <3>1
  <2>5. QED
    BY <2>3, <2>4
<1>16. NewPart(p, f)
  <2>1. f.data[2] \in DOMAIN sent'[p] /\ f.data[3] \in DOMAIN sent'[p][f.data[2]]
        /\ f.type = FragType(f.data[3], Len(sent'[p][f.data[2]]))
    BY <1>3, <1>4, <1>6, <1>7, <1>8, <1>10
  <2>2. ASSUME NEW d \in Fragments, Emitted(p, d) PROVE PartBefore(d, f.data)
    BY <1>4, <1>7, <1>10, <1>12, <2>2, FragmentFacts DEF PartBefore
  <2>3. ASSUME NEW k \in DOMAIN sent[p], NEW j \in DOMAIN sent[p][k],
               PartBefore(<<p, k, j>>, f.data)
        PROVE  Emitted(p, <<p, k, j>>)
    <3>1. k \in Nat /\ j \in Nat /\ <<p, k, j>> \in Fragments
      BY <1>4, <1>14
    <3>2. PICK d \in Fragments : d = <<p, k, j>>
      BY <3>1
    <3>4. d[2] = k /\ d[3] = j
      BY <1>14, <3>2
    <3>3. k < m \/ (k = m /\ j < i + 1)
      BY <1>7, <1>10, <2>3, <3>2, <3>4 DEF PartBefore
    <3>5. Emitted(p, d)
      BY <1>4, <1>12, <3>1, <3>3, <3>4
    <3>6. QED
      BY <3>2, <3>5
  <2>4. QED
    BY <1>1, <1>4, <1>7, <1>8, <1>10, <2>1, <2>2, <2>3 DEF NewPart, Fragment, DataTypes
<1>18. Seals(p, q, f)
  BY <1>1, <1>8, <1>10, <1>11, <1>15, <1>16 DEF Seals, Puts
<1>19. QED
  BY <1>18

-----------------------------------------------------------------------------
(* The steps that end an operation, or carry what is already on the way      *)

(* What they leave alone. *)
LEMMA ReadersSame ==
    ASSUME NEW q \in Peers, UNCHANGED <<call, slot, port>>,
           rcv'[q].asm = rcv[q].asm /\ rcv'[q].expected = rcv[q].expected
    PROVE  Assembled(q)' = Assembled(q) /\ Expected(q)' = Expected(q) /\ PutBy(q)' = PutBy(q)
  BY DEF Assembled, Expected, PutBy

LEMMA CtrlLeaves ==
    ASSUME Typed, NEW p \in Peers, NEW fresh \in BOOLEAN, CountCtrl(p, fresh)
    PROVE  /\ rcv'[p].asm = rcv[p].asm /\ rcv'[p].expected = rcv[p].expected
           /\ rcv'[p].pong = FALSE
           /\ \A x \in Peers : x # p => rcv'[x] = rcv[x] /\ up'[x] = up[x]
<1>1. PICK c : c = IF fresh THEN 1 ELSE rcv[p].ctrl + 1
  OBVIOUS
<1>2. /\ rcv' = [rcv EXCEPT ![p].ctrl = c, ![p].pong = FALSE]
      /\ up' = [up EXCEPT ![p] = c <= CtrlLimit]
  BY <1>1 DEF CountCtrl
<1>3. PICK r : r = [rcv[p] EXCEPT !.ctrl = c, !.pong = FALSE]
  OBVIOUS
<1>4. r.asm = rcv[p].asm /\ r.expected = rcv[p].expected /\ r.pong = FALSE
  BY <1>3, RcvFacts DEF RcvStates
<1>5. rcv' = [rcv EXCEPT ![p] = r]
  BY <1>2, <1>3 DEF Typed, Running, RcvStates
<1>6. QED
  BY <1>2, <1>4, <1>5 DEF Typed, Running

LEMMA AckLeaves ==
    ASSUME Typed, NEW p \in Peers, NEW a, FeedAck(p, a)
    PROVE  /\ job'[p].op = job[p].op /\ job'[p].frame = job[p].frame
           /\ ~AckMatches(p, a) => job' = job
           /\ \A x \in Peers : x # p => job'[x] = job[x]
<1>1. CASE AckMatches(p, a) /\ job' = [job EXCEPT ![p].acked = TRUE]
  <2>1. PICK j : j = [job[p] EXCEPT !.acked = TRUE]
    OBVIOUS
  <2>2. job[p] \in Jobs /\ job[p].op # "none" /\ job[p] # Idle
    BY <1>1, JobFacts DEF AckMatches
  <2>3. j \in Jobs /\ j.op = job[p].op /\ j.frame = job[p].frame
    BY <2>1, <2>2 DEF Jobs
  <2>4. job' = [job EXCEPT ![p] = j]
    BY <1>1, <2>1 DEF Typed, Running
  <2>5. QED
    BY <1>1, <2>3, <2>4 DEF Typed, Running
<1>2. CASE UNCHANGED job /\ ~AckMatches(p, a)
  BY <1>2
<1>3. QED
  BY <1>1, <1>2 DEF FeedAck

(* The other direction does not notice, but for the peer that leaves. *)
LEMMA EndsPass ==
    ASSUME IInv, Settled, NEW q \in Peers, NEW p \in Peers, p = Other(q), NotC, ~interrupts,
           Ends(q) \/ (FinishPong(q) /\ ~InC(q))
    PROVE  Quiet(p, q) \/ (~up'[q] /\ UNCHANGED <<got[p], sent[p]>>)
<1>0. /\ Typed /\ UNCHANGED <<call, slot, port>> /\ q # p /\ Other(q) = p
      /\ acks \in [Peers -> SUBSET [gen : Seq(Salts), type : FrameTypes, seq : Nat]]
  BY OtherFacts DEF IInv, NotC, cvars, Settled
<1>1. UNCHANGED <<gen, tx_seq, rx_seq, rx_window_bitmap, last_rx_seq, read_buffer, sent, got>>
      /\ job'[p] = job[p] /\ up'[p] = up[p] /\ confirmed'[p] = confirmed[p]
  <2>1. CASE Retransmit(q)
    BY <2>1 DEF Retransmit, keyvars, history
  <2>2. CASE FinishSend(q)
    BY <1>0, <2>2 DEF FinishSend, keyvars, Typed, Running, Told
  <2>3. CASE FinishPing(q)
    BY <1>0, <2>3 DEF FinishPing, keyvars, history, Typed, Running
  <2>4. CASE FinishBye(q)
    BY <1>0, <2>4 DEF FinishBye, keyvars, history, Typed, Running
  <2>5. CASE FinishPong(q)
    BY <1>0, <2>5, CtrlLeaves DEF FinishPong, keyvars, history, Typed, Running
  <2>6. CASE GiveUp(q)
    BY <1>0, <2>6 DEF GiveUp, keyvars, history, Typed, Running
  <2>7. CASE \E a \in acks[q] : FeedAck(q, a)
    BY <1>0, <2>7, AckLeaves DEF FeedAck, keyvars, history
  <2>8. CASE Lose(q)
    BY <2>8 DEF Lose, keyvars, history
  <2>9. QED
    BY <2>1, <2>2, <2>3, <2>4, <2>5, <2>6, <2>7, <2>8 DEF Ends
<1>2. CASE FinishBye(q) \/ GiveUp(q)
  <2>1. ~up'[q]
    BY <1>0, <1>2 DEF FinishBye, GiveUp, Typed, Running
  <2>2. QED
    BY <1>1, <2>1
<1>3. CASE ~(FinishBye(q) \/ GiveUp(q))
  <2>1. rcv'[q].asm = rcv[q].asm /\ rcv'[q].expected = rcv[q].expected
    <3>1. CASE FinishPong(q)
      BY <1>0, <3>1, CtrlLeaves DEF FinishPong
    <3>2. CASE ~FinishPong(q)
      BY <1>3, <3>2 DEF Ends, Retransmit, FinishSend, FinishPing, FeedAck, Lose
    <3>3. QED
      BY <3>1, <3>2
  <2>2. net'[q] \subseteq net[q] /\ acks'[p] \subseteq acks[p]
    <3>1. CASE Retransmit(q)
      BY <1>0, <3>1 DEF Retransmit, Typed, Carried
    <3>2. CASE Lose(q)
      BY <1>0, <3>2 DEF Lose, Typed, Carried
    <3>3. CASE \E a \in acks[q] : FeedAck(q, a)
      BY <1>0, <3>3 DEF FeedAck
    <3>4. CASE ~Retransmit(q) /\ ~Lose(q) /\ ~\E a \in acks[q] : FeedAck(q, a)
      BY <1>3, <3>4 DEF Ends, FinishSend, FinishPing, FinishPong
    <3>5. QED
      BY <3>1, <3>2, <3>3, <3>4
  <2>3. Assembled(q)' = Assembled(q) /\ Expected(q)' = Expected(q) /\ PutBy(q)' = PutBy(q)
    BY <1>0, <2>1, ReadersSame
  <2>4. QED
    BY <1>1, <2>2, <2>3 DEF Quiet, QuietJob, ConfirmedGoes, Around
<1>4. QED
  BY <1>2, <1>3

LEMMA EndsQuiet ==
    ASSUME IInv, Settled, NEW q \in Peers, NEW p \in Peers, p = Other(q), NotC, ~interrupts,
           Ends(p) \/ (FinishPong(p) /\ ~InC(p))
    PROVE  Quiet(p, q)
<1>0. /\ Typed /\ UNCHANGED <<call, slot, port>> /\ q # p /\ Other(p) = q /\ JobFits(p)
      /\ acks \in [Peers -> SUBSET [gen : Seq(Salts), type : FrameTypes, seq : Nat]]
  BY OtherFacts DEF IInv, NotC, cvars, Settled
<1>1. UNCHANGED <<gen, tx_seq, rx_seq, rx_window_bitmap, last_rx_seq, read_buffer, sent, got>>
      /\ rcv'[q] = rcv[q]
  <2>1. CASE Retransmit(p)
    BY <2>1 DEF Retransmit, keyvars, history
  <2>2. CASE FinishSend(p)
    BY <2>2 DEF FinishSend, keyvars
  <2>3. CASE FinishPing(p)
    BY <2>3 DEF FinishPing, keyvars, history
  <2>4. CASE FinishBye(p)
    BY <2>4 DEF FinishBye, keyvars, history
  <2>5. CASE FinishPong(p)
    BY <1>0, <2>5, CtrlLeaves DEF FinishPong, keyvars, history, Typed, Running
  <2>6. CASE GiveUp(p)
    BY <1>0, <2>6 DEF GiveUp, keyvars, history, Typed, Running
  <2>7. CASE \E a \in acks[p] : FeedAck(p, a)
    BY <2>7 DEF FeedAck, keyvars, history
  <2>8. CASE Lose(p)
    BY <2>8 DEF Lose, keyvars, history
  <2>9. QED
    BY <2>1, <2>2, <2>3, <2>4, <2>5, <2>6, <2>7, <2>8 DEF Ends
<1>2. Assembled(q)' = Assembled(q) /\ Expected(q)' = Expected(q) /\ PutBy(q)' = PutBy(q)
  BY <1>0, <1>1, ReadersSame
<1>3. /\ net'[q] \subseteq Around(q) /\ acks'[p] \subseteq acks[p]
      /\ up'[p] => up[p]
      /\ QuietJob(p) /\ ConfirmedGoes(p)
  <2>1. CASE Retransmit(p)
    <3>1. job[p].frame \in Pending(p)
      BY <1>0, <2>1, JobFacts DEF Retransmit, Pending
    <3>2. net'[q] = net[q] \union {job[p].frame}
      BY <1>0, <2>1 DEF Retransmit, Typed, Carried
    <3>3. QED
      BY <1>0, <2>1, <3>1, <3>2 DEF Retransmit, Around, QuietJob, ConfirmedGoes, history
  <2>2. CASE FinishSend(p)
    <3>1. job[p].op = "send" /\ job[p].acked /\ job[p].frame.type = "DATA"
      BY <1>0, <2>2, JobFacts DEF FinishSend, JobFits
    <3>2. job'[p].op = "none" /\ UNCHANGED <<net, acks, up>>
          /\ confirmed'[p] = confirmed[p] \union {job[p].frame.data[2]}
      BY <1>0, <2>2 DEF FinishSend, Typed, Running, Told, Idle
    <3>3. QED
      BY <3>1, <3>2 DEF Around, QuietJob, ConfirmedGoes
  <2>3. CASE FinishPing(p) \/ (FinishPong(p) /\ ~InC(p))
    <3>1. job[p].op \in {"ping", "pong"} /\ job[p].acked
          /\ job[p].frame.type \in {"PING", "PONG", "BYE"}
      BY <1>0, <2>3 DEF FinishPing, FinishPong, JobFits
    <3>2. job'[p].op = "none" /\ UNCHANGED <<net, acks, confirmed>>
      BY <1>0, <2>3 DEF FinishPing, FinishPong, history, Typed, Running, Idle
    <3>3. up'[p] => up[p]
      <4>1. CASE FinishPing(p)
        BY <4>1 DEF FinishPing
      <4>2. CASE FinishPong(p) /\ ~InC(p)
        BY <4>2 DEF FinishPong, Settled
      <4>3. QED
        BY <2>3, <4>1, <4>2
    <3>4. QED
      BY <3>1, <3>2, <3>3 DEF Around, QuietJob, ConfirmedGoes
  <2>4. CASE FinishBye(p) \/ GiveUp(p)
    <3>1. job'[p].op = "none" /\ UNCHANGED <<net, acks, confirmed>> /\ ~up'[p]
      <4>1. job' = [job EXCEPT ![p] = Idle] /\ UNCHANGED <<net, acks, confirmed>>
        BY <2>4 DEF FinishBye, GiveUp, history
      <4>2. ~up'[p]
        BY <1>0, <2>4 DEF FinishBye, GiveUp, Typed, Running
      <4>3. QED
        BY <1>0, <4>1, <4>2 DEF Typed, Running, Idle
    <3>2. QED
      BY <3>1 DEF Around, QuietJob, ConfirmedGoes
  <2>5. CASE \E a \in acks[p] : FeedAck(p, a)
    <3>1. PICK a \in acks[p] : FeedAck(p, a)
      BY <2>5
    <3>2. UNCHANGED <<net, up, confirmed>>
      BY <3>1 DEF FeedAck, history
    <3>3. acks'[p] \subseteq acks[p]
      BY <1>0, <3>1 DEF FeedAck, Taken
    <3>4. QuietJob(p)
      <4>1. CASE AckMatches(p, a)
        <5>1. job'[p].op = job[p].op /\ job'[p].frame = job[p].frame
          BY <1>0, <3>1, AckLeaves
        <5>2. QED
          BY <4>1, <5>1 DEF QuietJob
      <4>2. CASE ~AckMatches(p, a)
        BY <3>1, <4>2 DEF FeedAck, QuietJob
      <4>3. QED
        BY <4>1, <4>2
    <3>5. QED
      BY <3>2, <3>3, <3>4 DEF Around, ConfirmedGoes
  <2>6. CASE Lose(p)
    <3>1. net'[q] \subseteq net[q] /\ acks'[p] \subseteq acks[p]
      <4>1. CASE \E f \in net[p] : net' = [net EXCEPT ![p] = @ \ {f}] /\ UNCHANGED acks
        BY <1>0, <4>1 DEF Typed, Carried
      <4>2. CASE \E a \in acks[p] : acks' = [acks EXCEPT ![p] = @ \ {a}] /\ UNCHANGED net
        <5>1. PICK a : acks' = [acks EXCEPT ![p] = acks[p] \ {a}] /\ UNCHANGED net
          BY <4>2
        <5>2. acks'[p] = acks[p] \ {a}
          BY <1>0, <5>1
        <5>3. QED
          BY <5>1, <5>2
      <4>3. QED
        BY <2>6, <4>1, <4>2 DEF Lose
    <3>2. UNCHANGED <<job, up, confirmed>>
      BY <2>6 DEF Lose, history
    <3>3. QED
      BY <3>1, <3>2 DEF Around, QuietJob, ConfirmedGoes
  <2>7. QED
    BY <2>1, <2>2, <2>3, <2>4, <2>5, <2>6 DEF Ends
<1>4. QED
  BY <1>0, <1>1, <1>2, <1>3 DEF Quiet, Around

LEMMA FinishRekeyRotates ==
    ASSUME IInv, Settled, NEW q \in Peers, NEW p \in Peers, p = Other(q), NotC,
           Favoured(p, q), FinishRekey(p)
    PROVE  Rotates(p, q)
<1>0. Typed /\ UNCHANGED <<call, slot, port>> /\ q # p
  BY OtherFacts DEF IInv, NotC, cvars
<1>1. UNCHANGED <<last_rx_seq, read_buffer, rcv, up, net, acks, sent, got, confirmed>>
      /\ job[p].op = "rekey" /\ job[p].acked
      /\ job' = [job EXCEPT ![p] = Idle] /\ Rotate(p, job[p].frame.data[1])
  BY DEF FinishRekey, history
<1>2. /\ gen'[p] = Append(gen[p], job[p].frame.data[1]) /\ gen'[q] = gen[q]
      /\ tx_seq'[p] = 0 /\ rx_seq'[q] = rx_seq[q]
      /\ rx_window_bitmap'[q] = rx_window_bitmap[q]
  BY <1>0, <1>1 DEF Rotate, Typed, Keyed
<1>3. job'[p].op = "none" /\ acks[p] = {}
  BY <1>0, <1>1 DEF Typed, Running, Idle, Favoured
<1>4. Assembled(q)' = Assembled(q) /\ Expected(q)' = Expected(q) /\ PutBy(q)' = PutBy(q)
  BY <1>0, <1>1, ReadersSame
<1>5. QED
  BY <1>1, <1>2, <1>3, <1>4 DEF Rotates

-----------------------------------------------------------------------------
(* The steps that receive at p, of which the direction from p to q does not  *)
(* notice.                                                                   *)

LEMMA FedPasses ==
    ASSUME IInv, Settled, NEW q \in Peers, NEW p \in Peers, p = Other(q), NotC,
           NEW f, FeedFrame(p, f)
    PROVE  Quiet(p, q)
<1>0. /\ Typed /\ UNCHANGED <<call, slot, port>> /\ q # p /\ Other(p) = q
      /\ acks \in [Peers -> SUBSET [gen : Seq(Salts), type : FrameTypes, seq : Nat]]
  BY OtherFacts DEF IInv, NotC, cvars, Settled
<1>1. UNCHANGED <<keyvars, last_rx_seq, job, rcv, up, sent, got, confirmed>>
      /\ Feed(p, f) /\ net' = [net EXCEPT ![p] = Taken(net[p], f)]
  BY DEF FeedFrame, history
<1>2. net'[q] = net[q] /\ read_buffer'[q] = read_buffer[q] /\ acks'[p] = acks[p]
  <2>1. net'[q] = net[q]
    BY <1>0, <1>1 DEF Typed, Carried
  <2>2. acks' = acks \/ acks' = [acks EXCEPT ![q] = acks[q] \union {Utack(p, f)}]
    BY <1>0, <1>1 DEF Feed, SendUtack
  <2>3. read_buffer'[q] = read_buffer[q]
    BY <1>0, <1>1 DEF Feed, Typed, Carried
  <2>4. acks'[p] = acks[p]
    BY <1>0, <2>2
  <2>5. QED
    BY <2>1, <2>3, <2>4
<1>3. Assembled(q)' = Assembled(q) /\ Expected(q)' = Expected(q) /\ PutBy(q)' = PutBy(q)
  BY <1>0, <1>1, ReadersSame
<1>4. QED
  BY <1>1, <1>2, <1>3 DEF Quiet, QuietJob, ConfirmedGoes, Around, keyvars

LEMMA DropPasses ==
    ASSUME IInv, NEW q \in Peers, NEW p \in Peers, p = Other(q), NotC, DropFrame(p)
    PROVE  Quiet(p, q)
<1>0. Typed /\ UNCHANGED <<call, slot, port>> /\ q # p
  BY OtherFacts DEF IInv, NotC, cvars
<1>1. UNCHANGED <<keyvars, last_rx_seq, job, rcv, up, net, acks, sent, got, confirmed>>
      /\ Consume(p)
  BY DEF DropFrame, history
<1>2. read_buffer'[q] = read_buffer[q]
  BY <1>0, <1>1 DEF Consume, Typed, Carried
<1>3. Assembled(q)' = Assembled(q) /\ Expected(q)' = Expected(q) /\ PutBy(q)' = PutBy(q)
  BY <1>0, <1>1, ReadersSame
<1>4. QED
  BY <1>1, <1>2, <1>3 DEF Quiet, QuietJob, ConfirmedGoes, Around, keyvars

(* What the steps that accept a frame change of the other peer. *)
LEMMA ReceivesFacts ==
    ASSUME Typed, NEW q \in Peers, Receives(q)
    PROVE  /\ up[q] /\ read_buffer[q] # <<>> /\ Authentic(q, Head(read_buffer[q])) /\ Consume(q)
           /\ ~rcv[q].pong
           /\ \A x \in Peers : x # q =>
                /\ gen'[x] = gen[x] /\ tx_seq'[x] = tx_seq[x] /\ rx_seq'[x] = rx_seq[x]
                /\ rx_window_bitmap'[x] = rx_window_bitmap[x]
                /\ last_rx_seq'[x] = last_rx_seq[x] /\ read_buffer'[x] = read_buffer[x]
                /\ rcv'[x] = rcv[x] /\ up'[x] = up[x] /\ got'[q] = got[q]
           /\ UNCHANGED <<job, net, acks, sent, confirmed, script, timely, interrupts, salts>>
<1>1. PICK types : Accept(q, types) /\ UNCHANGED job
  BY DEF Receives, RecvBye, RecvPing, RecvPong, RecvRekey, Assemble
<1>2. /\ up[q] /\ read_buffer[q] # <<>> /\ Authentic(q, Head(read_buffer[q])) /\ Consume(q)
      /\ ~rcv[q].pong
      /\ UNCHANGED <<job, net, acks, sent, confirmed, script, timely, interrupts, salts>>
  BY <1>1 DEF Accept, CanRead
<1>3. ASSUME NEW x \in Peers, x # q
      PROVE  read_buffer'[x] = read_buffer[x]
  BY <1>2, <1>3 DEF Consume, Typed, Carried
<1>4. ASSUME NEW x \in Peers, x # q
      PROVE  /\ gen'[x] = gen[x] /\ tx_seq'[x] = tx_seq[x] /\ rx_seq'[x] = rx_seq[x]
             /\ rx_window_bitmap'[x] = rx_window_bitmap[x]
             /\ last_rx_seq'[x] = last_rx_seq[x]
  <2>1. \/ UNCHANGED <<gen, tx_seq>> /\ \E s : Mark(q, s)
        \/ (\E s : Rotate(q, s)) /\ \E s : last_rx_seq' = [last_rx_seq EXCEPT ![q] = s]
    BY DEF Receives, RecvBye, RecvPing, RecvPong, RecvRekey, Assemble
  <2>2. CASE UNCHANGED <<gen, tx_seq>> /\ \E s : Mark(q, s)
    <3>1. PICK s : Mark(q, s)
      BY <2>2
    <3>2. PICK r, b, t : /\ rx_seq' = [rx_seq EXCEPT ![q] = r]
                         /\ rx_window_bitmap' = [rx_window_bitmap EXCEPT ![q] = b]
                         /\ last_rx_seq' = [last_rx_seq EXCEPT ![q] = t]
      BY <3>1 DEF Mark
    <3>3. QED
      BY <1>4, <2>2, <3>2 DEF Typed, Keyed
  <2>3. CASE (\E s : Rotate(q, s)) /\ \E s : last_rx_seq' = [last_rx_seq EXCEPT ![q] = s]
    BY <1>4, <2>3 DEF Rotate, Typed, Keyed
  <2>4. QED
    BY <2>1, <2>2, <2>3
<1>5. ASSUME NEW x \in Peers, x # q
      PROVE  rcv'[x] = rcv[x] /\ up'[x] = up[x] /\ got'[q] = got[q]
  <2>1. Other(q) # q /\ Other(q) \in Peers
    BY OtherFacts
  <2>2. CASE RecvBye(q)
    BY <1>5, <2>2 DEF RecvBye, Typed, Running
  <2>3. CASE RecvPing(q)
    BY <1>5, <2>3 DEF RecvPing, ForgetPartial, Typed, Running
  <2>4. CASE RecvPong(q)
    <3>1. CASE ForgetPartial(q) /\ UNCHANGED <<up, got>>
      BY <1>5, <3>1 DEF ForgetPartial, Typed, Running
    <3>2. CASE (\E fresh \in BOOLEAN : CountCtrl(q, fresh)) /\ UNCHANGED got
      BY <1>5, <3>2, CtrlLeaves
    <3>3. QED
      BY <2>4, <3>1, <3>2 DEF RecvPong
  <2>5. CASE RecvRekey(q)
    BY <1>5, <2>5 DEF RecvRekey, ForgetPartial, Typed, Running
  <2>6. CASE Assemble(q)
    <3>1. PICK w, g : \/ ForgetPartial(q) /\ UNCHANGED got
                      \/ rcv' = [rcv EXCEPT ![q] = Reading] /\ got' = [got EXCEPT ![Other(q)] = g]
                      \/ /\ rcv' = [rcv EXCEPT ![q].asm = w[1], ![q].expected = w[2]]
                         /\ UNCHANGED got
      <4>1. PICK a, e : a = Append(rcv[q].asm, Head(read_buffer[q]).data)
                        /\ e = Head(read_buffer[q]).seq + 1
        OBVIOUS
      <4>2. <<a, e>>[1] = a /\ <<a, e>>[2] = e
        OBVIOUS
      <4>3. QED
        BY <2>6, <4>1, <4>2 DEF Assemble
    <3>2. up' = up
      BY <2>6 DEF Assemble
    <3>3. QED
      BY <1>5, <2>1, <3>1, <3>2 DEF ForgetPartial, Typed, Running, Told
  <2>7. QED
    BY <2>2, <2>3, <2>4, <2>5, <2>6 DEF Receives
<1>6. QED
  BY <1>2, <1>3, <1>4, <1>5

LEMMA ReceivesPass ==
    ASSUME IInv, NEW q \in Peers, NEW p \in Peers, p = Other(q), NotC, Favoured(p, q),
           Receives(p)
    PROVE  Quiet(p, q)
<1>0. Typed /\ UNCHANGED <<call, slot, port>> /\ q # p
  BY OtherFacts DEF IInv, NotC, cvars
<1>1. gen'[p] = gen[p] /\ tx_seq'[p] = tx_seq[p]
  <2>1. CASE RecvRekey(p)
    <3>1. Head(read_buffer[p]).type = "REKEY" /\ read_buffer[p] # <<>>
      BY <2>1 DEF RecvRekey, Accept, CanRead
    <3>2. Head(read_buffer[p]) \in Around(p)
      <4>1. read_buffer[p] \in Seq(Frames) /\ Buffered(p) \subseteq Around(p)
            /\ DOMAIN read_buffer[p] = 1 .. Len(read_buffer[p])
        BY <1>0, BufferTyped
      <4>2. QED
        BY <3>1, <4>1 DEF Buffered
    <3>3. QED
      BY <3>1, <3>2 DEF Favoured
  <2>2. CASE ~RecvRekey(p)
    BY <2>2 DEF Receives, RecvBye, RecvPing, RecvPong, Assemble
  <2>3. QED
    BY <2>1, <2>2
<1>2. /\ gen'[q] = gen[q] /\ rx_seq'[q] = rx_seq[q]
      /\ rx_window_bitmap'[q] = rx_window_bitmap[q]
      /\ last_rx_seq'[q] = last_rx_seq[q] /\ read_buffer'[q] = read_buffer[q]
      /\ rcv'[q] = rcv[q] /\ got'[p] = got[p] /\ up[p]
      /\ UNCHANGED <<job, net, acks, sent, confirmed>>
  BY <1>0, ReceivesFacts
<1>3. Assembled(q)' = Assembled(q) /\ Expected(q)' = Expected(q) /\ PutBy(q)' = PutBy(q)
  BY <1>0, <1>2, ReadersSame
<1>4. gen' = gen
  <2>1. DOMAIN gen' = Peers /\ DOMAIN gen = Peers
    <3>1. gen' = gen \/ \E s : gen' = [gen EXCEPT ![p] = s]
      BY DEF Receives, RecvBye, RecvPing, RecvPong, RecvRekey, Assemble, Rotate
    <3>2. QED
      BY <1>0, <3>1 DEF Typed, Keyed
  <2>2. \A x \in Peers : gen'[x] = gen[x]
    BY <1>1, <1>2, OtherFacts
  <2>3. gen' = gen \/ \E s : gen' = [gen EXCEPT ![p] = s]
    BY DEF Receives, RecvBye, RecvPing, RecvPong, RecvRekey, Assemble, Rotate
  <2>4. QED
    BY <1>0, <2>1, <2>2, <2>3 DEF Typed, Keyed
<1>5. QED
  BY <1>2, <1>3, <1>4, <1>1 DEF Quiet, QuietJob, ConfirmedGoes, Around

-----------------------------------------------------------------------------
(* The steps that receive at q                                               *)

LEMMA AckedGoes ==
    ASSUME Typed, NEW q \in Peers, NEW p \in Peers, p = Other(q), NEW f \in Frames,
           FedFits(p, q, f), acks'[p] \subseteq acks[p] \union {Utack(q, f)},
           job'[p] = job[p], gen'[p] = gen[p],
           Utack(q, f) \in acks'[p] => f \in Buffered(q)' \/ Dead(q, f)
    PROVE  AcksGo(p, q)
<1>1. Utack(q, f).gen = gen[q] /\ Utack(q, f).seq = f.seq /\ Utack(q, f).type = f.type
      /\ f.seq \in Nat
  BY FrameFacts DEF Utack
<1>2. ASSUME Answered(p)', ~Answered(p)
      PROVE  job[p].frame \in Buffered(q)' \/ Dead(q, job[p].frame)
  <2>1. job[p].op # "none" /\ ~job[p].acked
    BY <1>2 DEF Answered
  <2>2. PICK a \in acks'[p] : AckMatches(p, a)
    BY <1>2, <2>1 DEF Answered, AckMatches
  <2>3. a = Utack(q, f)
    BY <1>2, <2>2 DEF Answered
  <2>4. f = job[p].frame
    BY <1>1, <2>1, <2>2, <2>3 DEF AckMatches, FedFits
  <2>5. QED
    BY <2>2, <2>3, <2>4
<1>3. ASSUME NEW a \in acks'[p], a \notin acks[p]
      PROVE  a.seq \in Nat /\ (Going(p) /\ a.gen = gen[p] => a.seq < tx_seq[p])
  BY <1>1, <1>3 DEF FedFits
<1>4. QED
  BY <1>2, <1>3 DEF AcksGo

LEMMA FedCalm ==
    ASSUME IInv, Settled, NEW q \in Peers, NEW p \in Peers, p = Other(q), NotC,
           Linked(p, q), Favoured(p, q), NEW f, FeedFrame(q, f)
    PROVE  Calm(p, q)
<1>0. /\ Typed /\ UNCHANGED <<call, slot, port>> /\ q # p /\ Other(q) = p /\ Other(p) = q
      /\ acks \in [Peers -> SUBSET [gen : Seq(Salts), type : FrameTypes, seq : Nat]]
  BY OtherFacts DEF IInv, NotC, cvars, Settled
<1>1. UNCHANGED <<gen, tx_seq, rx_seq, rx_window_bitmap, last_rx_seq, job, rcv, up, sent, got,
                  confirmed>>
      /\ f \in net[q] /\ Feed(q, f) /\ net' = [net EXCEPT ![q] = Taken(net[q], f)]
  BY DEF FeedFrame, history, keyvars
<1>2. f \in Around(q) /\ f \in Frames /\ FedFits(p, q, f)
  BY <1>0, <1>1, AroundTyped DEF Around, Favoured
<1>3. \/ Dead(q, f) /\ UNCHANGED read_buffer
         /\ acks' = [acks EXCEPT ![p] = acks[p] \union {Utack(q, f)}]
      \/ UNCHANGED <<acks, read_buffer>>
      \/ /\ acks' = [acks EXCEPT ![p] = acks[p] \union {Utack(q, f)}]
         /\ read_buffer' = [read_buffer EXCEPT ![q] = Append(read_buffer[q], f)]
  <2>1. ASSUME Behind(q, f) PROVE Dead(q, f)
    <3>1. SUFFICES ASSUME f \in Alive(q) PROVE FALSE
      BY <1>2 DEF Alive
    <3>2. last_rx_seq[q] < f.seq + W
      BY <3>1 DEF Linked, InReach
    <3>3. last_rx_seq[q] \in Nat \union {-1} /\ f.seq \in Nat
      BY <1>0, <1>2, FrameFacts DEF Typed, Keyed
    <3>4. QED
      BY <2>1, <3>2, <3>3, WAssumption DEF Behind
  <2>2. QED
    BY <1>0, <1>1, <2>1 DEF Feed, SendUtack
<1>4. read_buffer \in [Peers -> Seq(Frames)]
  BY <1>0 DEF Typed, Carried
<1>5. BufferGoes(q)
  BY <1>2, <1>3, <1>4 DEF BufferGoes
<1>6. acks'[p] \subseteq acks[p] \union {Utack(q, f)}
  BY <1>0, <1>3
<1>7. Utack(q, f) \in acks'[p] => f \in Buffered(q)' \/ Dead(q, f) \/ Utack(q, f) \in acks[p]
  <2>1. CASE read_buffer' = [read_buffer EXCEPT ![q] = Append(read_buffer[q], f)]
    <3>1. read_buffer'[q] = Append(read_buffer[q], f) /\ read_buffer[q] \in Seq(Frames)
      BY <1>4, <2>1
    <3>2. Len(read_buffer[q]) + 1 \in DOMAIN read_buffer'[q]
          /\ read_buffer'[q][Len(read_buffer[q]) + 1] = f
      BY <3>1
    <3>3. QED
      BY <3>2 DEF Buffered
  <2>2. CASE ~(read_buffer' = [read_buffer EXCEPT ![q] = Append(read_buffer[q], f)])
    BY <1>3, <2>2
  <2>3. QED
    BY <2>1, <2>2
<1>8. AcksGo(p, q)
  <2>1. CASE Utack(q, f) \in acks[p]
    <3>1. acks'[p] \subseteq acks[p] /\ job'[p] = job[p] /\ gen'[p] = gen[p]
      BY <1>1, <1>6, <2>1
    <3>2. Answered(p)' => Answered(p)
      BY <3>1 DEF Answered, AckMatches
    <3>3. QED
      BY <3>1, <3>2 DEF AcksGo
  <2>2. CASE Utack(q, f) \notin acks[p]
    BY <1>0, <1>1, <1>2, <1>6, <1>7, <2>2, AckedGoes
  <2>3. QED
    BY <2>1, <2>2
<1>9. Around(q)' \subseteq Around(q)
  <2>1. Buffered(q)' \subseteq Around(q)
    BY <1>0, <1>1, BufferFed DEF BufferFits, Buffered
  <2>2. net'[q] \subseteq net[q]
    BY <1>0, <1>1 DEF Taken, Typed, Carried
  <2>3. Pending(p)' = Pending(p) /\ PutBy(q)' = PutBy(q)
    BY <1>0, <1>1 DEF Pending, PutBy
  <2>4. QED
    BY <1>0, <2>1, <2>2, <2>3 DEF Around
<1>10. Assembled(q)' = Assembled(q) /\ Expected(q)' = Expected(q)
  BY <1>0, <1>1, ReadersSame
<1>11. QED
  BY <1>1, <1>5, <1>8, <1>9, <1>10 DEF Calm, JobGoes, ConfirmedGoes

(* A frame taken off the buffer is no longer there. *)
LEMMA ConsumedAround ==
    ASSUME Typed, NEW q \in Peers, NEW p \in Peers, p = Other(q), read_buffer[q] # <<>>,
           Consume(q), UNCHANGED <<net, slot, job>>
    PROVE  Around(q)' \subseteq Around(q) /\ read_buffer'[q] = Tail(read_buffer[q])
<1>1. Buffered(q)' \subseteq Around(q)
  BY BufferConsumed DEF BufferFits, Buffered
<1>2. read_buffer'[q] = Tail(read_buffer[q])
  BY DEF Consume, Typed, Carried
<1>3. Pending(p)' = Pending(p) /\ PutBy(q)' = PutBy(q)
  BY DEF Pending, PutBy
<1>4. QED
  BY <1>1, <1>2, <1>3 DEF Around

LEMMA DropCalm ==
    ASSUME IInv, Settled, NEW q \in Peers, NEW p \in Peers, p = Other(q), NotC,
           Linked(p, q), DropFrame(q)
    PROVE  Calm(p, q)
<1>0. Typed /\ UNCHANGED <<call, slot, port>>
  BY DEF IInv, NotC, cvars
<1>1. UNCHANGED <<gen, tx_seq, rx_seq, rx_window_bitmap, last_rx_seq, job, rcv, up, net, acks,
                  sent, got, confirmed>>
      /\ Consume(q) /\ read_buffer[q] # <<>> /\ ~Authentic(q, Head(read_buffer[q]))
  BY DEF DropFrame, CanRead, history, keyvars
<1>2. Dead(q, Head(read_buffer[q]))
  BY <1>0, <1>1, HeadLeast
<1>3. Around(q)' \subseteq Around(q) /\ BufferGoes(q)
  BY <1>0, <1>1, <1>2, ConsumedAround DEF BufferGoes
<1>4. AcksGo(p, q)
  <2>1. Answered(p)' => Answered(p)
    BY <1>1 DEF Answered, AckMatches
  <2>2. QED
    BY <1>1, <2>1 DEF AcksGo
<1>5. Assembled(q)' = Assembled(q) /\ Expected(q)' = Expected(q)
  BY <1>0, <1>1, ReadersSame
<1>6. QED
  BY <1>1, <1>3, <1>4, <1>5 DEF Calm, JobGoes, ConfirmedGoes

LEMMA ReceivesConsume ==
    ASSUME IInv, NEW q \in Peers, NEW p \in Peers, p = Other(q), NotC, Linked(p, q),
           Receives(q), NEW h, h = Head(read_buffer[q])
    PROVE  /\ Consumes(p, q, h) /\ h \in Frames /\ Typed
           /\ ~RecvRekey(q) => Marked(q, h)
<1>0. Typed /\ UNCHANGED <<call, slot, port>> /\ q # p
  BY OtherFacts DEF IInv, NotC, cvars
<1>1. /\ read_buffer[q] # <<>> /\ Authentic(q, h) /\ Consume(q)
      /\ gen'[p] = gen[p] /\ tx_seq'[p] = tx_seq[p] /\ up'[p] = up[p]
      /\ UNCHANGED <<job, net, acks, sent, confirmed>>
  BY <1>0, ReceivesFacts
<1>2. Least(q, h) /\ h \in Frames
  BY <1>0, <1>1, HeadLeast
<1>3. Around(q)' \subseteq Around(q) /\ read_buffer'[q] = Tail(read_buffer[q])
  BY <1>0, <1>1, ConsumedAround
<1>4. last_rx_seq'[q] = Advance(last_rx_seq[q], h.seq)
  <2>1. last_rx_seq' = [last_rx_seq EXCEPT ![q] = Advance(last_rx_seq[q], h.seq)]
    BY DEF Receives, RecvBye, RecvPing, RecvPong, RecvRekey, Assemble, Mark
  <2>2. QED
    BY <1>0, <2>1 DEF Typed, Keyed
<1>5. ASSUME ~RecvRekey(q) PROVE Marked(q, h)
  <2>1. Mark(q, h.seq) /\ UNCHANGED gen
    BY <1>5 DEF Receives, RecvBye, RecvPing, RecvPong, Assemble
  <2>2. QED
    BY <1>0, <2>1 DEF Mark, Marked, Typed, Keyed
<1>6. QED
  BY <1>0, <1>1, <1>2, <1>3, <1>4, <1>5 DEF Consumes

LEMMA ControlTook ==
    ASSUME IInv, Settled, NEW q \in Peers, NEW p \in Peers, p = Other(q), NotC, ~InC(q),
           Linked(p, q), Prefix(p), RecvBye(q) \/ RecvPing(q) \/ RecvPong(q) \/ RecvRekey(q),
           NEW h, h = Head(read_buffer[q])
    PROVE  Took(p, q, h)
<1>0. Typed /\ UNCHANGED <<call, slot, port>> /\ Whole(p) /\ Receives(q)
  BY DEF IInv, NotC, cvars, Settled, Receives
<1>1. Consumes(p, q, h) /\ h \in Frames /\ Least(q, h) /\ (~RecvRekey(q) => Marked(q, h))
  BY <1>0, ReceivesConsume DEF Consumes
<1>2. h.type \in {"BYE", "PING", "PONG", "REKEY"} /\ ~Fragment(h)
  BY DEF RecvBye, RecvPing, RecvPong, RecvRekey, Accept, Fragment, DataTypes
<1>3. Assembled(q) = <<>> /\ rcv[q].asm = <<>>
  <2>1. Assembled(q) = <<>>
    BY <1>0, <1>1, <1>2, ControlAlone
  <2>2. QED
    BY <2>1 DEF Assembled, InC
<1>4. rcv'[q].asm = <<>> /\ UNCHANGED got
  <2>1. CASE RecvBye(q)
    BY <1>3, <2>1 DEF RecvBye
  <2>2. CASE RecvPing(q)
    <3>1. rcv' = [rcv EXCEPT ![q].pong = TRUE] /\ UNCHANGED got
      BY <1>3, <2>2 DEF RecvPing
    <3>2. PICK r : r = [rcv[q] EXCEPT !.pong = TRUE]
      OBVIOUS
    <3>3. r.asm = rcv[q].asm
      BY <1>0, <3>2, RcvFacts DEF RcvStates
    <3>4. rcv' = [rcv EXCEPT ![q] = r]
      BY <1>0, <3>1, <3>2 DEF Typed, Running, RcvStates
    <3>5. rcv'[q] = r
      BY <1>0, <3>4 DEF Typed, Running
    <3>6. QED
      BY <1>3, <3>1, <3>3, <3>5
  <2>3. CASE RecvPong(q)
    BY <1>0, <1>3, <2>3, CtrlLeaves DEF RecvPong
  <2>4. CASE RecvRekey(q)
    BY <1>3, <2>4 DEF RecvRekey
  <2>5. QED
    BY <2>1, <2>2, <2>3, <2>4
<1>5. Assembled(q)' = <<>>
  BY <1>0, <1>4 DEF Assembled, InC
<1>6. CASE RecvRekey(q)
  <2>1. h.type = "REKEY" /\ Rotate(q, h.data[1])
    BY <1>3, <1>6 DEF RecvRekey, Accept
  <2>2. gen'[q] = Append(gen[q], h.data[1]) /\ rx_seq'[q] = 0 /\ rx_window_bitmap'[q] = {}
    BY <1>0, <2>1 DEF Rotate, Typed, Keyed
  <2>3. QED
    BY <1>1, <1>3, <1>4, <1>5, <2>1, <2>2 DEF Took, TakesRekey
<1>7. CASE ~RecvRekey(q)
  <2>1. h.type # "REKEY"
    BY <1>7 DEF RecvBye, RecvPing, RecvPong, Accept
  <2>2. QED
    BY <1>1, <1>2, <1>3, <1>4, <1>5, <1>7, <2>1 DEF Took, TakesControl
<1>8. QED
  BY <1>6, <1>7

LEMMA AssembleTook ==
    ASSUME IInv, Settled, NEW q \in Peers, NEW p \in Peers, p = Other(q), NotC, ~InC(q),
           Linked(p, q), Prefix(p), Assemble(q), NEW h, h = Head(read_buffer[q])
    PROVE  Took(p, q, h)
<1>0. Typed /\ UNCHANGED <<call, slot, port>> /\ Whole(p) /\ Receives(q) /\ Other(q) = p
  BY DEF IInv, NotC, cvars, Settled, Receives
<1>1. Consumes(p, q, h) /\ h \in Frames /\ Least(q, h)
  BY <1>0, ReceivesConsume DEF Consumes
<1>2. h.type \in {"DATA", "DATA_FRAG"} /\ Fragment(h)
  BY DEF Assemble, Accept, Fragment, DataTypes
<1>3. Marked(q, h)
  <2>1. Mark(q, h.seq) /\ UNCHANGED gen
    BY DEF Assemble
  <2>2. QED
    BY <1>0, <2>1 DEF Mark, Marked, Typed, Keyed
<1>4. Assembled(q) = rcv[q].asm /\ Assembled(q)' = rcv'[q].asm
      /\ Expected(q) = rcv[q].expected /\ Expected(q)' = rcv'[q].expected
  BY <1>0 DEF Assembled, Expected, InC
<1>5. PICK a, l, m : a = rcv[q].asm /\ l = Len(a) /\ m = Len(got[p]) + 1
  OBVIOUS
<1>6. /\ m \in DOMAIN sent[p] /\ l + 1 \in DOMAIN sent[p][m]
      /\ h.type = FragType(l + 1, Len(sent[p][m]))
      /\ a # <<>> => h.seq = rcv[q].expected
  BY <1>0, <1>1, <1>2, <1>4, <1>5, NextPart
<1>7. InSequence(q, h)
  BY <1>5, <1>6 DEF InSequence
<1>8. a \in Seq(Fragments) /\ l \in Nat /\ h.data \in Fragments
      /\ Len(Append(a, h.data)) = l + 1
  <2>1. a \in Seq(Fragments)
    BY <1>0, <1>5, RcvFacts DEF Assemblies
  <2>2. h.data \in Fragments
    BY <1>1, <1>2, FrameFacts DEF DataTypes
  <2>3. QED
    BY <1>5, <2>1, <2>2
<1>9. CASE h.type = "DATA"
  <2>1. got' = [got EXCEPT ![p] = Append(got[p], Append(a, h.data))]
        /\ rcv' = [rcv EXCEPT ![q] = Reading]
    BY <1>0, <1>5, <1>7, <1>9 DEF Assemble
  <2>2. got'[p] = Append(got[p], Append(a, h.data)) /\ rcv'[q].asm = <<>>
    BY <1>0, <2>1, ReadingTyped DEF Typed, Told, Running
  <2>3. QED
    BY <1>1, <1>2, <1>3, <1>4, <1>5, <1>9, <2>2 DEF Took, TakesPart
<1>10. CASE h.type = "DATA_FRAG"
  <2>1. l + 1 < MaxFrags
    <3>1. Len(sent[p][m]) \in 1 .. MaxFrags /\ DOMAIN sent[p][m] = 1 .. Len(sent[p][m])
      BY <1>0, <1>6, MessageIs
    <3>2. l + 1 # Len(sent[p][m])
      BY <1>6, <1>10 DEF FragType
    <3>3. QED
      BY <1>6, <1>8, <3>1, <3>2, UdpSessionAssumption
  <2>2. rcv' = [rcv EXCEPT ![q].asm = Append(a, h.data), ![q].expected = h.seq + 1]
        /\ UNCHANGED got
    <3>1. ~(Len(Append(a, h.data)) >= MaxFrags)
      BY <1>8, <2>1, UdpSessionAssumption
    <3>2. QED
      BY <1>5, <1>7, <1>10, <3>1 DEF Assemble
  <2>3. PICK r : r = [rcv[q] EXCEPT !.asm = Append(a, h.data), !.expected = h.seq + 1]
    OBVIOUS
  <2>4. r.asm = Append(a, h.data) /\ r.expected = h.seq + 1
    BY <1>0, <2>3, RcvFacts DEF RcvStates
  <2>5. rcv' = [rcv EXCEPT ![q] = r]
    BY <1>0, <2>2, <2>3 DEF Typed, Running, RcvStates
  <2>6. rcv'[q] = r
    BY <1>0, <2>5 DEF Typed, Running
  <2>7. QED
    BY <1>1, <1>2, <1>3, <1>4, <1>5, <1>10, <2>2, <2>4, <2>6 DEF Took, TakesPart
<1>11. QED
  BY <1>2, <1>9, <1>10

-----------------------------------------------------------------------------
(* The steps of the device in C                                              *)

LEMMA PeersAre == /\ "A" \in Peers /\ "B" \in Peers /\ Other("A") = "B" /\ Other("B") = "A"
                  /\ \A x \in Peers : x = "A" \/ x = "B"
  BY OtherFacts DEF Peers

LEMMA CIdlesFacts ==
    ASSUME IInv, Settled, port = "c", CIdles
    PROVE  /\ UNCHANGED <<script, keyvars, last_rx_seq, read_buffer, rcv, acks, salts, history>>
           /\ net'["B"] \subseteq net["B"] /\ net'["A"] = net["A"]
           /\ slot' = slot \/ slot' \in net["B"]
           /\ \A x \in Peers : up'[x] => up[x]
           /\ job'["A"] = job["A"]
           /\ \/ UNCHANGED job
              \/ /\ job'["B"].op = "none"
                 /\ \/ ~up'["B"]
                    \/ job["B"].acked /\ job["B"].op = "pong"
<1>0. Typed /\ "A" \in Peers /\ "B" \in Peers
  BY PeersAre DEF IInv
<1>1. CASE CGiveUp
  BY <1>0, <1>1 DEF CGiveUp, Typed, Running, Idle
<1>2. CASE \E f \in net["B"] : CFeedFrame(f)
  <2>1. PICK f \in net["B"] : CFeedFrame(f)
    BY <1>2
  <2>2. net' = [net EXCEPT !["B"] = Taken(net["B"], f)] /\ Taken(net["B"], f) \subseteq net["B"]
    BY <2>1 DEF CFeedFrame, Taken
  <2>3. QED
    BY <1>0, <2>1, <2>2 DEF CFeedFrame, PutAside, Typed, Carried
<1>3. CASE CRecv
  BY <1>3 DEF CRecv, vars
<1>4. CASE CAttemptsSpent
  BY <1>0, <1>4 DEF CAttemptsSpent, Return, EndSession, Typed, Running
<1>5. CASE CPollNothing
  BY <1>5 DEF CPollNothing, Again
<1>6. CASE CFinishPong
  <2>1. /\ job' = [job EXCEPT !["B"] = Idle] /\ job["B"].acked /\ job["B"].op = "pong"
        /\ UNCHANGED <<net, slot>> /\ CountControl
        /\ UNCHANGED <<script, keyvars, last_rx_seq, read_buffer, rcv, acks, salts, history>>
    BY <1>6 DEF CFinishPong
  <2>2. job'["B"].op = "none" /\ job'["A"] = job["A"]
    BY <1>0, <2>1 DEF Typed, Running, Idle
  <2>3. \A x \in Peers : up'[x] => up[x]
    BY <1>0, <2>1 DEF CountControl, Return, Fail, EndSession, Typed, Running
  <2>4. QED
    BY <2>1, <2>2, <2>3
<1>7. QED
  BY <1>1, <1>2, <1>3, <1>4, <1>5, <1>6 DEF CIdles

(* From the device to the server.                                            *)
LEMMA CIdlesSend ==
    ASSUME IInv, Settled, port = "c", UNCHANGED port, CIdles
    PROVE  Quiet("B", "A")
<1>0. Typed /\ "A" \in Peers /\ "B" \in Peers
  BY PeersAre DEF IInv
<1>1. /\ UNCHANGED <<gen, tx_seq, rx_seq, rx_window_bitmap, last_rx_seq, read_buffer, rcv, acks,
                     sent, got, confirmed>>
      /\ net'["A"] = net["A"] /\ (up'["B"] => up["B"])
      /\ \/ UNCHANGED job
         \/ /\ job'["B"].op = "none"
            /\ \/ ~up'["B"]
               \/ job["B"].acked /\ job["B"].op = "pong"
  <2>1. /\ UNCHANGED <<script, keyvars, last_rx_seq, read_buffer, rcv, acks, salts, history>>
        /\ net'["A"] = net["A"]
        /\ \A x \in Peers : up'[x] => up[x]
        /\ \/ UNCHANGED job
           \/ /\ job'["B"].op = "none"
              /\ \/ ~up'["B"]
                 \/ job["B"].acked /\ job["B"].op = "pong"
    BY CIdlesFacts
  <2>2. QED
    BY <1>0, <2>1 DEF keyvars, history
<1>2. Assembled("A")' = Assembled("A") /\ Expected("A")' = Expected("A") /\ PutBy("A")' = {}
  BY <1>1 DEF Assembled, Expected, PutBy
<1>3. QuietJob("B")
  <2>1. job["B"].op = "pong" => job["B"].frame.type # "DATA_FRAG"
    BY <1>0 DEF IInv, JobFits
  <2>2. QED
    BY <1>1, <2>1 DEF QuietJob
<1>4. QED
  BY <1>1, <1>2, <1>3 DEF Quiet, ConfirmedGoes, Around

(* From the server to the device.                                            *)
LEMMA CIdlesRead ==
    ASSUME IInv, Settled, port = "c", UNCHANGED port, CIdles
    PROVE  (~up'["B"] /\ UNCHANGED <<got["A"], sent["A"]>>) \/ Quiet("A", "B")
<1>0. Typed /\ "A" \in Peers /\ "B" \in Peers
  BY PeersAre DEF IInv
<1>1. /\ UNCHANGED <<gen, tx_seq, rx_seq, rx_window_bitmap, last_rx_seq, read_buffer, acks,
                     sent, got, confirmed>>
      /\ net'["B"] \subseteq net["B"] /\ (up'["A"] => up["A"]) /\ job'["A"] = job["A"]
      /\ slot' = slot \/ slot' \in net["B"]
  BY <1>0, CIdlesFacts DEF keyvars, history
<1>2. ASSUME up'["B"]
      PROVE  call'.asm = call.asm /\ (call.asm # <<>> => call'.expected = call.expected)
  <2>1. CASE CGiveUp
    BY <1>0, <1>2, <2>1 DEF CGiveUp, Typed, Running
  <2>2. CASE \E f \in net["B"] : CFeedFrame(f)
    BY <2>2 DEF CFeedFrame
  <2>3. CASE CRecv
    <3>1. call' = Called /\ call = NotCalled
      BY <1>0, <2>3, CallFacts DEF CRecv, InApplication, CallTyped
    <3>2. QED
      BY <3>1, CallStates
  <2>4. CASE CAttemptsSpent
    <3>1. call' = NotCalled /\ call.asm = <<>>
      BY <1>0, <1>2, <2>4 DEF CAttemptsSpent, Return, EndSession, Typed, Running
    <3>2. QED
      BY <3>1, CallStates
  <2>5. CASE CPollNothing
    <3>1. call.called /\ call' = [call EXCEPT !.attempts = @ + 1]
      BY <2>5 DEF CPollNothing, Polling, Again
    <3>2. QED
      BY <1>0, <3>1, CallRunning DEF Calls
  <2>6. CASE CFinishPong
    <3>1. CountControl /\ call.called /\ call.pong /\ call.asm = <<>>
      BY <1>0, <2>6 DEF CFinishPong, Typed, OnePort, Settled
    <3>2. CASE call' = NotCalled
      BY <3>1, <3>2, CallStates
    <3>3. CASE call' = [call EXCEPT !.ctrl = @ + 1, !.attempts = @ + 1, !.pong = FALSE]
      BY <1>0, <3>1, <3>3, CallRunning DEF Calls
    <3>4. QED
      BY <3>1, <3>2, <3>3 DEF CountControl, Return, Fail, EndSession
  <2>7. QED
    BY <2>1, <2>2, <2>3, <2>4, <2>5, <2>6 DEF CIdles
<1>3. CASE up'["B"]
  <2>1. Assembled("B")' = Assembled("B")
        /\ (Assembled("B") # <<>> => Expected("B")' = Expected("B"))
    BY <1>2, <1>3 DEF Assembled, Expected
  <2>2. PutBy("B")' \subseteq Around("B")
    BY <1>1 DEF PutBy, Around
  <2>3. QED
    BY <1>1, <2>1, <2>2 DEF Quiet, QuietJob, ConfirmedGoes, Around
<1>4. QED
  BY <1>1, <1>3

(* What a frame that usmp_recv reads leaves alone. *)
LEMMA CReadsFacts ==
    ASSUME IInv, Settled, port = "c", UNCHANGED port, NEW f, CReads(f)
    PROVE  /\ f \in Around("B") /\ f \in Frames /\ (f \in net["B"] \/ f = slot)
           /\ up["B"] /\ call.called /\ ~call.pong
           /\ read_buffer["B"] = <<>> /\ Around("B")' \subseteq Around("B")
           /\ acks'["A"] \subseteq acks["A"] \union {Utack("B", f)} /\ acks'["B"] = acks["B"]
           /\ net'["A"] = net["A"] /\ gen'["A"] = gen["A"] /\ tx_seq'["A"] = tx_seq["A"]
           /\ rx_seq'["A"] = rx_seq["A"] /\ rx_window_bitmap'["A"] = rx_window_bitmap["A"]
           /\ last_rx_seq'["A"] = last_rx_seq["A"] /\ got'["B"] = got["B"]
           /\ up'["A"] = up["A"] /\ job' = job /\ read_buffer' = read_buffer /\ rcv' = rcv
           /\ sent' = sent /\ confirmed' = confirmed /\ net'["B"] \subseteq net["B"]
           /\ script' = script
           /\ slot' = slot \/ slot' = Empty
<1>0. /\ Typed /\ "A" \in Peers /\ "B" \in Peers /\ Other("B") = "A"
      /\ acks \in [Peers -> SUBSET [gen : Seq(Salts), type : FrameTypes, seq : Nat]]
  BY PeersAre DEF IInv, Settled
<1>1. /\ CRead(f) /\ UNCHANGED job
      /\ \/ UNCHANGED got
         \/ \E w : got' = [got EXCEPT !["A"] = Append(got["A"], w)]
  <2>1. CASE CRecvData(f)
    BY <2>1 DEF CRecvData, CAccept
  <2>2. CASE ~CRecvData(f)
    BY <2>2 DEF CReads, CDrop, CRecvPong, CRecvBye, CRecvPing, CRecvRekey, CAccept
  <2>3. QED
    BY <2>1, <2>2
<1>2. /\ up["B"] /\ call.called /\ ~call.pong /\ SendUtack("B", f)
      /\ UNCHANGED <<script, read_buffer, rcv, sent, confirmed>>
      /\ \/ slot # Empty /\ f = slot /\ slot' = Empty /\ UNCHANGED net
         \/ f \in net["B"] /\ net' = [net EXCEPT !["B"] = Taken(net["B"], f)] /\ UNCHANGED slot
  BY <1>1 DEF CRead, Polling
<1>3. f \in Around("B") /\ f \in Frames
  <2>1. f \in Around("B")
    BY <1>2 DEF Around, PutBy
  <2>2. QED
    BY <1>0, <2>1, AroundTyped
<1>4. net'["B"] \subseteq net["B"] /\ net'["A"] = net["A"]
  BY <1>0, <1>2 DEF Taken, Typed, Carried
<1>5. Around("B")' \subseteq Around("B")
  BY <1>1, <1>2, <1>4 DEF Around, Pending, Buffered, PutBy
<1>6. acks'["A"] \subseteq acks["A"] \union {Utack("B", f)} /\ acks'["B"] = acks["B"]
  BY <1>0, <1>2 DEF SendUtack
<1>7. got'["B"] = got["B"]
  BY <1>0, <1>1 DEF Typed, Told
<1>8. /\ gen'["A"] = gen["A"] /\ tx_seq'["A"] = tx_seq["A"]
      /\ rx_seq'["A"] = rx_seq["A"] /\ rx_window_bitmap'["A"] = rx_window_bitmap["A"]
      /\ last_rx_seq'["A"] = last_rx_seq["A"]
  <2>1. \/ UNCHANGED <<keyvars, last_rx_seq>>
        \/ UNCHANGED <<gen, tx_seq>> /\ Mark("B", f.seq)
        \/ Rotate("B", f.data[1]) /\ UNCHANGED last_rx_seq
    BY DEF CReads, CDrop, CRecvPong, CRecvBye, CRecvPing, CRecvRekey, CRecvData
  <2>2. CASE UNCHANGED <<gen, tx_seq>> /\ Mark("B", f.seq)
    <3>1. PICK r, b, t : /\ rx_seq' = [rx_seq EXCEPT !["B"] = r]
                         /\ rx_window_bitmap' = [rx_window_bitmap EXCEPT !["B"] = b]
                         /\ last_rx_seq' = [last_rx_seq EXCEPT !["B"] = t]
      BY <2>2 DEF Mark
    <3>2. QED
      BY <1>0, <2>2, <3>1 DEF Typed, Keyed
  <2>3. CASE Rotate("B", f.data[1]) /\ UNCHANGED last_rx_seq
    BY <1>0, <2>3 DEF Rotate, Typed, Keyed
  <2>4. QED
    BY <2>1, <2>2, <2>3 DEF keyvars
<1>9. up'["A"] = up["A"]
  <2>1. UNCHANGED up \/ up' = [up EXCEPT !["B"] = FALSE]
    BY DEF CReads, CDrop, CRecvPong, CRecvBye, CRecvPing, CRecvRekey, CRecvData, CountControl,
           Again, Return, Fail, EndSession
  <2>2. QED
    BY <1>0, <2>1 DEF Typed, Running
<1>10. read_buffer["B"] = <<>>
  BY DEF Settled
<1>11. QED
  BY <1>1, <1>2, <1>3, <1>4, <1>5, <1>6, <1>7, <1>8, <1>9, <1>10

LEMMA CReadsPass ==
    ASSUME IInv, Settled, port = "c", UNCHANGED port, NEW f, CReads(f), Favoured("B", "A")
    PROVE  Quiet("B", "A")
<1>0. Typed /\ "A" \in Peers /\ "B" \in Peers /\ Other("A") = "B"
  BY PeersAre DEF IInv
<1>1. /\ f \in Around("B") /\ up["B"] /\ net'["A"] = net["A"] /\ acks'["B"] = acks["B"]
      /\ rx_seq'["A"] = rx_seq["A"] /\ rx_window_bitmap'["A"] = rx_window_bitmap["A"]
      /\ last_rx_seq'["A"] = last_rx_seq["A"] /\ got'["B"] = got["B"]
      /\ job' = job /\ read_buffer' = read_buffer /\ rcv' = rcv
      /\ sent' = sent /\ confirmed' = confirmed
  BY CReadsFacts
<1>2. f.type # "REKEY"
  BY <1>1 DEF Favoured
<1>3. gen' = gen /\ tx_seq' = tx_seq
  <2>1. ~CRecvRekey(f)
    BY <1>2 DEF CRecvRekey, CAccept
  <2>2. QED
    BY <2>1 DEF CReads, CDrop, CRecvPong, CRecvBye, CRecvPing, CRecvData, keyvars
<1>4. Assembled("A")' = Assembled("A") /\ Expected("A")' = Expected("A") /\ PutBy("A")' = {}
  BY <1>1 DEF Assembled, Expected, PutBy
<1>5. QED
  BY <1>1, <1>3, <1>4 DEF Quiet, QuietJob, ConfirmedGoes, Around

LEMMA CDropCalm ==
    ASSUME IInv, Settled, port = "c", UNCHANGED port, Linked("A", "B"), Prefix("A"),
           Favoured("A", "B"), NEW f, CDrop(f)
    PROVE  Calm("A", "B")
<1>0. Typed /\ "A" \in Peers /\ "B" \in Peers /\ Other("A") = "B" /\ Other("B") = "A"
      /\ Whole("A") /\ CReads(f) /\ InC("B")
  BY PeersAre DEF IInv, Settled, CReads, InC
<1>1. /\ f \in Around("B") /\ f \in Frames /\ (f \in net["B"] \/ f = slot)
      /\ call.called /\ read_buffer["B"] = <<>> /\ Around("B")' \subseteq Around("B")
      /\ acks'["A"] \subseteq acks["A"] \union {Utack("B", f)}
      /\ up'["A"] = up["A"] /\ job' = job /\ read_buffer' = read_buffer
      /\ sent' = sent /\ confirmed' = confirmed
  BY <1>0, CReadsFacts
<1>2. /\ Dropped(f) /\ Again
      /\ UNCHANGED <<gen, tx_seq, rx_seq, rx_window_bitmap, last_rx_seq, job, got>>
  BY DEF CDrop, keyvars
<1>3. Dead("B", f)
  <2>1. SUFFICES ASSUME ~Dead("B", f) PROVE FALSE
    OBVIOUS
  <2>2. Least("B", f) /\ Authentic("B", f)
    BY <1>0, <1>1, <2>1, AnyLeast
  <2>3. ~Fragment(f) /\ call.asm # <<>>
    BY <1>2, <2>2 DEF Dropped, Control, Fragment, DataTypes
  <2>4. Assembled("B") = <<>>
    BY <1>0, <2>2, <2>3, ControlAlone
  <2>5. QED
    BY <1>0, <2>3, <2>4 DEF Assembled, InC
<1>4. FedFits("A", "B", f)
  <2>1. Empty \notin Frames
    BY DEF Frames, Empty
  <2>2. QED
    BY <1>0, <1>1, <2>1 DEF Favoured
<1>5. AcksGo("A", "B")
  BY <1>0, <1>1, <1>2, <1>3, <1>4, AckedGoes
<1>6. call'.asm = call.asm /\ call'.expected = call.expected
  BY <1>0, <1>1, <1>2, CallRunning DEF Again, Calls
<1>7. Assembled("B")' = Assembled("B") /\ Expected("B")' = Expected("B")
  BY <1>0, <1>6 DEF Assembled, Expected, InC
<1>8. QED
  BY <1>1, <1>2, <1>5, <1>7 DEF Calm, JobGoes, ConfirmedGoes, BufferGoes

LEMMA CReadsConsume ==
    ASSUME IInv, Settled, port = "c", UNCHANGED port, Linked("A", "B"), NEW f, CReads(f),
           ~CDrop(f)
    PROVE  /\ Consumes("A", "B", f) /\ Least("B", f) /\ f \in Frames
           /\ ~CRecvRekey(f) => Marked("B", f)
<1>0. Typed /\ "A" \in Peers /\ "B" \in Peers /\ Other("A") = "B" /\ Other("B") = "A"
  BY PeersAre DEF IInv
<1>1. /\ f \in Around("B") /\ f \in Frames
      /\ read_buffer["B"] = <<>> /\ Around("B")' \subseteq Around("B")
      /\ acks'["A"] \subseteq acks["A"] \union {Utack("B", f)}
      /\ up'["A"] = up["A"] /\ job' = job /\ read_buffer' = read_buffer
      /\ gen'["A"] = gen["A"] /\ tx_seq'["A"] = tx_seq["A"]
      /\ sent' = sent /\ confirmed' = confirmed
  BY CReadsFacts
<1>2. Authentic("B", f)
  BY DEF CReads, CRecvPong, CRecvBye, CRecvPing, CRecvRekey, CRecvData, CAccept, Dropped
<1>3. Least("B", f)
  BY <1>0, <1>1, <1>2, AnyLeast
<1>4. ASSUME ~CRecvRekey(f)
      PROVE  Marked("B", f) /\ last_rx_seq'["B"] = Advance(last_rx_seq["B"], f.seq)
  <2>1. Mark("B", f.seq) /\ UNCHANGED gen
    BY <1>4 DEF CReads, CRecvPong, CRecvBye, CRecvPing, CRecvData
  <2>2. QED
    BY <1>0, <2>1 DEF Mark, Marked, Typed, Keyed
<1>5. CRecvRekey(f) => UNCHANGED last_rx_seq
  BY DEF CRecvRekey
<1>6. QED
  BY <1>1, <1>3, <1>4, <1>5 DEF Consumes

LEMMA CControlTook ==
    ASSUME IInv, Settled, port = "c", UNCHANGED port, Linked("A", "B"), Prefix("A"), NEW f,
           CRecvPong(f) \/ CRecvPing(f) \/ CRecvBye(f) \/ CRecvRekey(f), ~CDrop(f)
    PROVE  Took("A", "B", f)
<1>0. /\ Typed /\ "A" \in Peers /\ "B" \in Peers /\ Other("A") = "B" /\ Other("B") = "A"
      /\ Whole("A") /\ CReads(f) /\ InC("B")
  BY PeersAre DEF IInv, Settled, CReads, InC
<1>1. /\ Consumes("A", "B", f) /\ Least("B", f) /\ f \in Frames
      /\ ~CRecvRekey(f) => Marked("B", f)
  BY <1>0, CReadsConsume
<1>2. f.type \in {"BYE", "PING", "PONG", "REKEY"} /\ ~Fragment(f) /\ UNCHANGED got
  BY DEF CRecvBye, CRecvPing, CRecvPong, CRecvRekey, CAccept, Fragment, DataTypes
<1>3. Assembled("B") = <<>> /\ call.asm = <<>>
  <2>1. Assembled("B") = <<>>
    BY <1>0, <1>1, <1>2, ControlAlone
  <2>2. QED
    BY <1>0, <2>1 DEF Assembled, InC
<1>4. call.called
  BY <1>0, CReadsFacts
<1>5. call'.asm = <<>>
  <2>1. call' = NotCalled \/ call' = [call EXCEPT !.pong = TRUE]
        \/ call' = [call EXCEPT !.ctrl = @ + 1, !.attempts = @ + 1, !.pong = FALSE]
    BY DEF CRecvBye, CRecvPing, CRecvPong, CRecvRekey, CountControl, Return, EndSession, Fail
  <2>2. QED
    BY <1>0, <1>3, <1>4, <2>1, CallStates, CallRunning DEF Calls
<1>6. Assembled("B")' = <<>>
  BY <1>0, <1>5 DEF Assembled, InC
<1>7. CASE CRecvRekey(f)
  <2>1. f.type = "REKEY" /\ Rotate("B", f.data[1])
    BY <1>7 DEF CRecvRekey, CAccept
  <2>2. gen'["B"] = Append(gen["B"], f.data[1]) /\ rx_seq'["B"] = 0
        /\ rx_window_bitmap'["B"] = {}
    BY <1>0, <2>1 DEF Rotate, Typed, Keyed
  <2>3. QED
    BY <1>1, <1>2, <1>3, <1>6, <2>1, <2>2 DEF Took, TakesRekey
<1>8. CASE ~CRecvRekey(f)
  <2>1. f.type # "REKEY"
    BY <1>8 DEF CRecvBye, CRecvPing, CRecvPong, CAccept
  <2>2. QED
    BY <1>1, <1>2, <1>3, <1>6, <1>8, <2>1 DEF Took, TakesControl
<1>9. QED
  BY <1>7, <1>8

LEMMA CDataTook ==
    ASSUME IInv, Settled, port = "c", UNCHANGED port, Linked("A", "B"), Prefix("A"), NEW f,
           CRecvData(f), ~CDrop(f)
    PROVE  (~up'["B"] /\ UNCHANGED <<got["A"], sent["A"]>>) \/ Took("A", "B", f)
<1>0. /\ Typed /\ "A" \in Peers /\ "B" \in Peers /\ Other("A") = "B" /\ Other("B") = "A"
      /\ Whole("A") /\ CReads(f) /\ InC("B") /\ ~CRecvRekey(f)
  <2>1. ~CRecvRekey(f)
    BY DEF CRecvData, CRecvRekey, CAccept
  <2>2. QED
    BY <2>1, PeersAre DEF IInv, Settled, CReads, InC
<1>1. /\ Consumes("A", "B", f) /\ Least("B", f) /\ f \in Frames /\ Marked("B", f)
      /\ call.called /\ sent' = sent
  BY <1>0, CReadsConsume, CReadsFacts
<1>2. f.type \in {"DATA", "DATA_FRAG"} /\ Fragment(f)
  BY DEF CRecvData, CAccept, Fragment, DataTypes
<1>3. PICK a, l, m : a = call.asm /\ l = Len(a) /\ m = Len(got["A"]) + 1
  OBVIOUS
<1>4. Assembled("B") = a /\ Assembled("B")' = call'.asm /\ Expected("B")' = call'.expected
      /\ Expected("B") = call.expected
  BY <1>0, <1>3 DEF Assembled, Expected, InC
<1>5. /\ m \in DOMAIN sent["A"] /\ l + 1 \in DOMAIN sent["A"][m]
      /\ f.type = FragType(l + 1, Len(sent["A"][m]))
  BY <1>0, <1>1, <1>2, <1>3, <1>4, NextPart
<1>6. a \in Seq(Fragments) /\ l \in Nat /\ f.data \in Fragments
      /\ Len(Append(a, f.data)) = l + 1
  <2>1. a \in Seq(Fragments)
    BY <1>0, <1>1, <1>3, CallRunning DEF Assemblies
  <2>2. f.data \in Fragments
    BY <1>1, <1>2, FrameFacts DEF DataTypes
  <2>3. QED
    BY <1>3, <2>1, <2>2
<1>7. PICK w : w = Append(a, f.data)
  OBVIOUS
<1>8. \/ Fail /\ UNCHANGED got
      \/ f.type = "DATA" /\ got' = [got EXCEPT !["A"] = Append(got["A"], w)] /\ Return
      \/ /\ f.type = "DATA_FRAG" /\ UNCHANGED got
         /\ call' = [call EXCEPT !.asm = w, !.expected = f.seq + 1, !.attempts = @ + 1]
  BY <1>3, <1>7 DEF CRecvData
<1>9. CASE Fail /\ UNCHANGED got
  BY <1>0, <1>1, <1>9 DEF Fail, EndSession, Typed, Running
<1>10. CASE f.type = "DATA" /\ got' = [got EXCEPT !["A"] = Append(got["A"], w)] /\ Return
  <2>1. got'["A"] = Append(got["A"], w) /\ call'.asm = <<>>
    BY <1>0, <1>10, CallStates DEF Typed, Told, Return
  <2>2. QED
    BY <1>1, <1>2, <1>4, <1>7, <1>10, <2>1 DEF Took, TakesPart
<1>11. CASE /\ f.type = "DATA_FRAG" /\ UNCHANGED got
            /\ call' = [call EXCEPT !.asm = w, !.expected = f.seq + 1, !.attempts = @ + 1]
  <2>1. call'.asm = w /\ call'.expected = f.seq + 1
    BY <1>0, <1>1, <1>11, CallRunning DEF Calls
  <2>2. QED
    BY <1>1, <1>2, <1>4, <1>7, <1>11, <2>1 DEF Took, TakesPart
<1>12. QED
  BY <1>8, <1>9, <1>10, <1>11

LEMMA CStartPongSeals ==
    ASSUME IInv, IInv', Settled, port = "c", UNCHANGED port, CStartPong
    PROVE  Quiet("A", "B") /\ \E f : Seals("B", "A", f)
<1>0. Typed /\ "A" \in Peers /\ "B" \in Peers /\ Other("A") = "B" /\ Other("B") = "A"
  BY PeersAre DEF IInv
<1>1. /\ Emit("B", "pong", ControlOf["pong"], <<>>) /\ up["B"] /\ job["B"].op = "none"
      /\ UNCHANGED <<gen, rx_seq, rx_window_bitmap, last_rx_seq, read_buffer, rcv, up, acks,
                     got, sent, confirmed, slot, call, port>>
  BY DEF CStartPong, history, cvars, ControlOf, Settled, Idle
<1>2. Quiet("A", "B")
  BY <1>0, <1>1, EmitPasses
<1>3. \E f : Seals("B", "A", f)
  BY <1>0, <1>1, ControlSeals
<1>4. QED
  BY <1>2, <1>3

-----------------------------------------------------------------------------
(* Every step                                                                *)

LEMMA WorksHandled ==
    ASSUME IInv, IInv', Settled, NEW q \in Peers, NEW p \in Peers, p = Other(q), NotC,
           ~interrupts, Linked(p, q), Favoured(p, q), NEW x \in Peers, Works(x)
    PROVE  Handled(p, q)
<1>0. Typed /\ Other(p) = q /\ (x = p \/ x = q)
  BY OtherFacts DEF IInv, Peers
<1>1. CASE x = p
  <2>1. CASE StartSend(p)
    BY <2>1, StartSendSeals DEF Handled
  <2>2. CASE StartRekey(p) \/ StartPing(p) \/ StartBye(p)
    BY <2>2, StartControlSeals DEF Handled
  <2>3. CASE NextFragment(p)
    BY <2>3, NextFragmentSeals DEF Handled
  <2>4. CASE FinishRekey(p)
    BY <2>4, FinishRekeyRotates DEF Handled
  <2>5. CASE Ends(p)
    BY <1>0, <2>5, EndsQuiet, QuietIsCalm DEF Handled
  <2>6. QED
    BY <1>1, <2>1, <2>2, <2>3, <2>4, <2>5 DEF Works, Application
<1>2. CASE x = q
  <2>1. CASE Application(q) \/ NextFragment(q)
    BY <1>0, <2>1, SealingPasses, QuietIsCalm DEF Handled, Application
  <2>2. CASE FinishRekey(q)
    BY <2>2 DEF FinishRekey, Favoured
  <2>3. CASE Ends(q)
    BY <1>0, <2>3, EndsPass, QuietIsCalm DEF Handled
  <2>4. QED
    BY <1>2, <2>1, <2>2, <2>3 DEF Works
<1>3. QED
  BY <1>0, <1>1, <1>2

LEMMA ListensHandled ==
    ASSUME IInv, IInv', Settled, NEW q \in Peers, NEW p \in Peers, p = Other(q), NotC,
           ~interrupts, Linked(p, q), Prefix(p), Favoured(p, q),
           NEW x \in Peers, ~InC(x), Listens(x)
    PROVE  Handled(p, q)
<1>0. Typed /\ Other(p) = q /\ (x = p \/ x = q) /\ ~RecvTimeout(x)
  BY OtherFacts DEF IInv, Peers, RecvTimeout
<1>1. CASE x = p
  <2>1. CASE FinishPong(p)
    BY <1>0, <1>1, <2>1, EndsQuiet, QuietIsCalm DEF Handled
  <2>2. CASE \E f \in net[p] : FeedFrame(p, f)
    BY <1>0, <2>2, FedPasses, QuietIsCalm DEF Handled
  <2>3. CASE DropFrame(p)
    BY <1>0, <2>3, DropPasses, QuietIsCalm DEF Handled
  <2>4. CASE Receives(p)
    BY <1>0, <2>4, ReceivesPass, QuietIsCalm DEF Handled
  <2>5. CASE StartPong(p)
    BY <2>5, StartControlSeals DEF Handled
  <2>6. QED
    BY <1>0, <1>1, <2>1, <2>2, <2>3, <2>4, <2>5 DEF Listens, Receiving, Receives
<1>2. CASE x = q
  <2>1. CASE FinishPong(q)
    BY <1>0, <1>2, <2>1, EndsPass, QuietIsCalm DEF Handled
  <2>2. CASE \E f \in net[q] : FeedFrame(q, f)
    BY <2>2, FedCalm DEF Handled
  <2>3. CASE DropFrame(q)
    BY <2>3, DropCalm DEF Handled
  <2>4. CASE RecvBye(q) \/ RecvPing(q) \/ RecvPong(q) \/ RecvRekey(q)
    BY <1>2, <2>4, ControlTook DEF Handled
  <2>5. CASE Assemble(q)
    BY <1>2, <2>5, AssembleTook DEF Handled
  <2>6. CASE StartPong(q)
    BY <1>0, <2>6, SealingPasses, QuietIsCalm DEF Handled
  <2>7. QED
    BY <1>0, <1>2, <2>1, <2>2, <2>3, <2>4, <2>5, <2>6 DEF Listens, Receiving
<1>3. QED
  BY <1>0, <1>1, <1>2

LEMMA CHandled ==
    ASSUME IInv, IInv', Settled, NEW q \in Peers, NEW p \in Peers, p = Other(q), port = "c",
           UNCHANGED port, Linked(p, q), Prefix(p), Favoured(p, q),
           CIdles \/ CStartPong \/ \E f : CReads(f)
    PROVE  Handled(p, q)
<1>0. /\ Typed /\ "A" \in Peers /\ "B" \in Peers /\ Other("A") = "B" /\ Other("B") = "A"
      /\ (q = "A" /\ p = "B") \/ (q = "B" /\ p = "A")
  <2>1. q = "A" \/ q = "B"
    BY PeersAre
  <2>2. QED
    BY <2>1, PeersAre DEF IInv
<1>1. CASE q = "A" /\ p = "B"
  <2>1. Linked("B", "A") /\ Prefix("B") /\ Favoured("B", "A")
    BY <1>1
  <2>2. Quiet("B", "A") \/ \E f : Seals("B", "A", f)
    BY <2>1, CIdlesSend, CReadsPass, CStartPongSeals
  <2>3. Quiet("B", "A") => Calm("B", "A")
    BY <1>0, <2>1, QuietIsCalm
  <2>4. QED
    BY <1>1, <2>2, <2>3 DEF Handled
<1>2. CASE q = "B" /\ p = "A"
  <2>1. Linked("A", "B") /\ Prefix("A") /\ Favoured("A", "B")
    BY <1>2
  <2>2. Quiet("A", "B") => Calm("A", "B")
    BY <1>0, <2>1, QuietIsCalm
  <2>3. CASE CIdles
    BY <1>2, <2>2, <2>3, CIdlesRead DEF Handled
  <2>4. CASE CStartPong
    BY <1>2, <2>2, <2>4, CStartPongSeals DEF Handled
  <2>5. CASE \E f : CReads(f)
    <3>1. PICK f : CReads(f)
      BY <2>5
    <3>2. CASE CDrop(f)
      BY <1>2, <2>1, <3>2, CDropCalm DEF Handled
    <3>3. CASE CRecvData(f) /\ ~CDrop(f)
      BY <1>2, <2>1, <3>3, CDataTook DEF Handled
    <3>4. CASE (CRecvPong(f) \/ CRecvPing(f) \/ CRecvBye(f) \/ CRecvRekey(f)) /\ ~CDrop(f)
      BY <1>2, <2>1, <3>4, CControlTook DEF Handled
    <3>5. QED
      BY <3>1, <3>2, <3>3, <3>4 DEF CReads
  <2>6. QED
    BY <2>3, <2>4, <2>5
<1>3. QED
  BY <1>0, <1>1, <1>2

LEMMA EveryStep ==
    ASSUME CNext PROVE (\E x \in Peers : Way(x)) \/ CWay
<1>0. "A" \in Peers /\ "B" \in Peers
  BY PeersAre
<1>1. ASSUME NEW x \in Peers, ~InC(x), NotC,
             Application(x) \/ Writing(x) \/ Datagrams(x) \/ Receiving(x)
      PROVE  Way(x)
  BY <1>1 DEF Way, Works, Listens, Writing, Datagrams, Ends
<1>2. CASE port = "python" /\ Next /\ UNCHANGED cvars /\ UNCHANGED port
  BY <1>1, <1>2 DEF Next, InC, NotC
<1>3. CASE port = "c" /\ PythonPeer /\ UNCHANGED port
  BY <1>0, <1>1, <1>3 DEF PythonPeer, InC, NotC
<1>4. CASE port = "c" /\ CPeer /\ UNCHANGED port
  <2>1. CASE CStart
    <3>1. Works("B") /\ NotC /\ CStart
      BY <1>4, <2>1 DEF CStart, Works, Application, NotC
    <3>2. QED
      BY <1>0, <3>1 DEF Way
  <2>2. CASE CSending
    <3>1. NotC /\ CSending
      BY <1>4, <2>2 DEF CSending, NotC
    <3>2. NextFragment("B") \/ FinishRekey("B") \/ Ends("B")
      BY <2>2 DEF CSending, Ends
    <3>3. QED
      BY <1>0, <3>1, <3>2 DEF Way, Works
  <2>3. CASE Lose("B") /\ UNCHANGED cvars
    <3>1. NotC /\ Lose("B")
      BY <1>4, <2>3 DEF NotC
    <3>2. Ends("B")
      BY <2>3 DEF Ends
    <3>3. QED
      BY <1>0, <3>1, <3>2 DEF Way, Works
  <2>4. CASE CGiveUp \/ \E f \in net["B"] : CFeedFrame(f)
    BY <1>4, <2>4 DEF CWay, CIdles
  <2>5. CASE CReceiving
    BY <1>4, <2>5 DEF CWay, CIdles, CReceiving, CReads
  <2>6. QED
    BY <1>4, <2>1, <2>2, <2>3, <2>4, <2>5 DEF CPeer
<1>5. QED
  BY <1>2, <1>3, <1>4 DEF CNext

LEMMA StepHandled ==
    ASSUME IInv, IInv', Settled, NEW q \in Peers, NEW p \in Peers, p = Other(q), CNext,
           ~interrupts, Linked(p, q), Prefix(p), Favoured(p, q)
    PROVE  Handled(p, q)
<1>1. CASE \E x \in Peers : Way(x)
  BY <1>1, WorksHandled, ListensHandled DEF Way
<1>2. CASE CWay
  BY <1>2, CHandled DEF CWay
<1>3. QED
  BY <1>1, <1>2, EveryStep

-----------------------------------------------------------------------------
(* The effects of the steps on what the two peers may still do               *)

LEMMA EmitSealing ==
    ASSUME IInv, IInv', NEW x \in Peers, NEW y \in Peers, y = Other(x), up[x],
           NEW o \in {"send", "rekey", "ping", "pong", "bye"}, NEW type, NEW data,
           Emit(x, o, type, data), NEW f,
           f = [gen |-> gen[x], type |-> type, seq |-> tx_seq[x], data |-> data],
           UNCHANGED <<gen, rx_seq, rx_window_bitmap, last_rx_seq, read_buffer, rcv, up, acks,
                       got, confirmed, call, slot, port, timely, interrupts>>,
           script'[y] = script[y], sent'[y] = sent[y], Asked(x, o, f)
    PROVE  Effects(x)
<1>0. Typed /\ Other(y) = x /\ x # y
  BY OtherFacts DEF IInv
<1>1. Puts(x, y, o, f)
  <2>1. UNCHANGED <<gen, rx_seq, rx_window_bitmap, last_rx_seq, read_buffer, rcv, up, acks,
                    got, confirmed, call, slot, port>>
    OBVIOUS
  <2>2. QED
    BY <1>0, <2>1, EmitPuts
<1>2. job'[y] = job[y] /\ tx_seq'[y] = tx_seq[y] /\ net'[x] = net[x]
  BY <1>0 DEF Emit, Typed, Running, Keyed, Carried
<1>3. tx_seq'[x] = tx_seq[x] + 1 /\ job'[x].op = o /\ job'[x].frame = f
      /\ net'[y] = net[y] \union {f}
  BY <1>1 DEF Puts
<1>4. \A z : Pongs(z)' = Pongs(z) /\ PutBy(z)' = PutBy(z) /\ Buffered(z)' = Buffered(z)
  BY DEF Pongs, InC, PutBy, Buffered
<1>5. Around(x)' \subseteq Around(x)
  BY <1>0, <1>2, <1>4 DEF Around, Pending
<1>6. Around(y)' \subseteq Around(y) \union {f}
  BY <1>0, <1>3, <1>4 DEF Around, Pending
<1>7. Sealing(x)
  BY <1>3, <1>4, <1>5, <1>6 DEF Sealing
<1>8. Untouched(y)
  BY <1>2, <1>4 DEF Untouched
<1>9. QED
  BY <1>7, <1>8 DEF Effects

LEMMA ControlEffects ==
    ASSUME IInv, IInv', NEW x \in Peers,
           \/ (StartRekey(x) \/ StartPing(x) \/ StartBye(x) \/ (StartPong(x) /\ ~InC(x))) /\ NotC
           \/ x = "B" /\ port = "c" /\ UNCHANGED port /\ CStartPong /\ up["B"]
    PROVE  Effects(x)
<1>0. Typed /\ UNCHANGED <<slot, port, call>>
  BY DEF IInv, NotC, cvars, CStartPong
<1>1. PICK y \in Peers : y = Other(x) /\ x # y
  BY OtherFacts
<1>2. PICK o \in {"rekey", "ping", "pong", "bye"} :
        /\ (o # "pong" /\ ByScript(x, o)) \/ (o = "pong" /\ script' = script /\ Pongs(x))
        /\ \E data : Emit(x, o, ControlOf[o], data)
        /\ script'[y] = script[y] /\ up[x] /\ job[x].op = "none"
        /\ UNCHANGED <<gen, rx_seq, rx_window_bitmap, last_rx_seq, read_buffer, rcv, up, acks,
                       got, confirmed, timely, interrupts, sent>>
  <2>1. CASE StartRekey(x)
    <3>1. Ready(x, "rekey") /\ Pop(x) /\ Emit(x, "rekey", ControlOf["rekey"], <<salts + 1>>)
          /\ UNCHANGED <<gen, rx_seq, rx_window_bitmap, last_rx_seq, read_buffer, rcv, up, acks,
                       history>>
      BY <2>1 DEF StartRekey, ControlOf
    <3>2. script'[x] = Tail(script[x]) /\ script'[y] = script[y]
      BY <1>0, <1>1, <3>1 DEF Pop, Typed, Running
    <3>3. QED
      BY <3>1, <3>2 DEF history, Idle, ByScript, Ready
  <2>2. CASE StartPing(x)
    <3>1. Ready(x, "ping") /\ Pop(x) /\ Emit(x, "ping", ControlOf["ping"], <<>>)
          /\ UNCHANGED <<gen, rx_seq, rx_window_bitmap, last_rx_seq, read_buffer, rcv, up, acks,
                       history>>
      BY <2>2 DEF StartPing, ControlOf
    <3>2. script'[x] = Tail(script[x]) /\ script'[y] = script[y]
      BY <1>0, <1>1, <3>1 DEF Pop, Typed, Running
    <3>3. QED
      BY <3>1, <3>2 DEF history, Idle, ByScript, Ready
  <2>3. CASE StartBye(x)
    <3>1. Ready(x, "bye") /\ Pop(x) /\ Emit(x, "bye", ControlOf["bye"], <<>>)
          /\ UNCHANGED <<gen, rx_seq, rx_window_bitmap, last_rx_seq, read_buffer, rcv, up, acks,
                       history>>
      BY <2>3 DEF StartBye, ControlOf
    <3>2. script'[x] = Tail(script[x]) /\ script'[y] = script[y]
      BY <1>0, <1>1, <3>1 DEF Pop, Typed, Running
    <3>3. QED
      BY <3>1, <3>2 DEF history, Idle, ByScript, Ready
  <2>4. CASE StartPong(x) /\ ~InC(x)
    <3>1. up[x] /\ job[x] = Idle /\ Pongs(x) /\ Emit(x, "pong", ControlOf["pong"], <<>>)
          /\ UNCHANGED <<script, gen, rx_seq, rx_window_bitmap, last_rx_seq, read_buffer, rcv, up,
                         acks, history>>
      BY <2>4 DEF StartPong, ControlOf, Pongs
    <3>2. QED
      BY <3>1 DEF history, Idle
  <2>5. CASE x = "B" /\ port = "c" /\ CStartPong /\ up["B"]
    <3>1. job[x] = Idle /\ Pongs(x) /\ Emit(x, "pong", ControlOf["pong"], <<>>)
          /\ UNCHANGED <<script, gen, rx_seq, rx_window_bitmap, last_rx_seq, read_buffer, rcv, up,
                         acks, history>>
      BY <2>5 DEF CStartPong, ControlOf, Pongs, InC
    <3>2. QED
      BY <2>5, <3>1 DEF history, Idle
  <2>6. QED
    BY <2>1, <2>2, <2>3, <2>4, <2>5
<1>3. PICK type, data : Emit(x, o, type, data) /\ type = ControlOf[o]
  BY <1>2
<1>4. PICK f : f = [gen |-> gen[x], type |-> type, seq |-> tx_seq[x], data |-> data]
  OBVIOUS
<1>5. Asked(x, o, f)
  BY <1>2, <1>3, <1>4 DEF Asked, AskedControl
<1>6. QED
  BY <1>0, <1>1, <1>2, <1>3, <1>4, <1>5, EmitSealing

LEMMA MessageEffects ==
    ASSUME IInv, IInv', NEW x \in Peers, NotC, StartSend(x) \/ NextFragment(x)
    PROVE  Effects(x)
<1>0. Typed /\ UNCHANGED <<slot, port, call>> /\ JobFits(x)
  BY DEF IInv, NotC, cvars
<1>1. PICK y \in Peers : y = Other(x) /\ x # y
  BY OtherFacts
<1>2. CASE StartSend(x)
  <2>1. /\ Ready(x, "send") /\ Pop(x) /\ up[x] /\ job[x].op = "none" /\ script[x] # <<>>
        /\ UNCHANGED <<gen, rx_seq, rx_window_bitmap, last_rx_seq, read_buffer, rcv, up,
                       acks, salts, timely, interrupts, got, confirmed>>
    BY <1>2 DEF StartSend, Ready, Idle
  <2>2. PICK n : n = Head(script[x]).frags
    OBVIOUS
  <2>3. PICK m : m = Message(x, Len(sent[x]) + 1, n)
    OBVIOUS
  <2>4. /\ sent' = [sent EXCEPT ![x] = Append(sent[x], m)]
        /\ Emit(x, "send", FragType(1, n), m[1])
    BY <1>2, <2>2, <2>3 DEF StartSend
  <2>5. n \in 1 .. MaxFrags
    BY <1>0, <2>1, <2>2, ScriptFacts
  <2>6. m[1] = <<x, Len(sent[x]) + 1, 1>>
    BY <2>3, <2>5, UdpSessionAssumption DEF Message
  <2>7. PICK type : type = FragType(1, n)
    OBVIOUS
  <2>8. PICK data : data = m[1]
    OBVIOUS
  <2>9. PICK f : f = [gen |-> gen[x], type |-> type, seq |-> tx_seq[x], data |-> data]
    OBVIOUS
  <2>10. f.data = data /\ f.type = type /\ Fragment(f)
    BY <2>7, <2>9 DEF Fragment, FragType, DataTypes
  <2>11. sent'[x] = Append(sent[x], m) /\ sent'[y] = sent[y]
         /\ script'[x] = Tail(script[x]) /\ script'[y] = script[y]
    BY <1>0, <1>1, <2>1, <2>4 DEF Pop, Typed, Told, Running
  <2>12. Asked(x, "send", f)
    <3>1. sent'[x] = Append(sent[x], Message(x, Len(sent[x]) + 1, Head(script[x]).frags))
      BY <2>2, <2>3, <2>11
    <3>2. ByScript(x, "send")
      BY <2>1, <2>11 DEF ByScript
    <3>3. f.data = <<x, Len(sent[x]) + 1, 1>>
      BY <2>6, <2>8, <2>10
    <3>4. QED
      BY <2>10, <3>1, <3>2, <3>3 DEF Asked, AskedMessage
  <2>13. Emit(x, "send", type, data)
    BY <2>4, <2>7, <2>8
  <2>14. QED
    BY <1>0, <1>1, <2>1, <2>9, <2>11, <2>12, <2>13, EmitSealing
<1>3. CASE NextFragment(x)
  <2>1. /\ up[x] /\ job[x] # Idle /\ job[x].acked /\ job[x].frame.type = "DATA_FRAG"
        /\ UNCHANGED <<script, gen, rx_seq, rx_window_bitmap, last_rx_seq, read_buffer, rcv,
                       up, acks, salts, history>>
    BY <1>3 DEF NextFragment
  <2>2. PICK d, m : d = job[x].frame.data /\ m = sent[x][d[2]]
    OBVIOUS
  <2>3. PICK type, data : /\ type = FragType(d[3] + 1, Len(m)) /\ data = m[d[3] + 1]
                          /\ Emit(x, "send", type, data)
    BY <1>3, <2>2 DEF NextFragment
  <2>4. job[x].op = "send"
    <3>1. job[x] \in Jobs /\ job[x].op # "none"
      BY <1>0, <2>1, JobFacts
    <3>2. job[x].op \in {"send", "rekey", "ping", "pong", "bye"}
      BY <3>1 DEF Jobs, Idle
    <3>3. QED
      BY <1>0, <2>1, <3>2 DEF JobFits
  <2>5. PICK n \in 1 .. MaxFrags : \E i \in 1 .. n :
           /\ Len(sent[x]) # 0 /\ sent[x][Len(sent[x])] = Message(x, Len(sent[x]), n)
           /\ d = <<x, Len(sent[x]), i>> /\ job[x].frame.type = FragType(i, n)
    BY <1>0, <2>2, <2>4 DEF JobFits
  <2>6. PICK i \in 1 .. n :
           /\ sent[x][Len(sent[x])] = Message(x, Len(sent[x]), n)
           /\ d = <<x, Len(sent[x]), i>> /\ job[x].frame.type = FragType(i, n)
    BY <2>5
  <2>7. n \in Nat /\ i \in Nat /\ i + 1 \in 1 .. n
    <3>1. i < n
      BY <2>1, <2>6 DEF FragType
    <3>2. QED
      BY <3>1, UdpSessionAssumption
  <2>8. m = Message(x, Len(sent[x]), n) /\ d[3] = i
    BY <2>2, <2>6
  <2>9. data = <<x, Len(sent[x]), i + 1>>
    BY <2>3, <2>7, <2>8 DEF Message
  <2>10. PICK f : f = [gen |-> gen[x], type |-> type, seq |-> tx_seq[x], data |-> data]
    OBVIOUS
  <2>11. f.data = data /\ f.type = type /\ Fragment(f)
    BY <2>3, <2>10 DEF Fragment, FragType, DataTypes
  <2>12. f.data[3] = job[x].frame.data[3] + 1
    BY <2>2, <2>8, <2>9, <2>11
  <2>13. Asked(x, "send", f)
    BY <2>1, <2>4, <2>11, <2>12 DEF Asked, AskedNext, history
  <2>14. QED
    BY <1>0, <1>1, <2>1, <2>3, <2>10, <2>13, EmitSealing DEF history
<1>4. QED
  BY <1>2, <1>3

LEMMA EndingEffects ==
    ASSUME IInv, NEW x \in Peers, NEW y \in Peers, y = Other(x), NotC, Ending(x, y)
    PROVE  Effects(x)
<1>0. Typed /\ UNCHANGED <<slot, port, call>> /\ x # y /\ Other(y) = x
  BY OtherFacts DEF IInv, NotC, cvars
<1>1. Pending(x)' \subseteq Pending(x) /\ Pending(y)' = Pending(y)
  BY DEF Ending, Pending
<1>2. \A z : PutBy(z)' = PutBy(z)
  BY <1>0 DEF PutBy
<1>3. Around(x)' \subseteq Around(x)
  BY <1>0, <1>1, <1>2 DEF Ending, Around
<1>4. Around(y)' \subseteq Around(y)
  BY <1>0, <1>1, <1>2 DEF Ending, Around
<1>5. \A f : Dead(x, f)' <=> Dead(x, f)
  BY DEF Dead, Ending
<1>6. Pongs(y)' = Pongs(y)
  BY <1>0 DEF Pongs, InC, Ending
<1>7. Owes(x)' => Owes(x)
  BY <1>0 DEF Owes, Pongs, InC, Ending
<1>8. Lessens(x)
  BY <1>0, <1>3, <1>4, <1>5 DEF Ending, Lessens
<1>9. Resting(x)
  <2>1. job[x].op = "pong" /\ ~InC(x) /\ rcv'[x].pong = rcv[x].pong => UNCHANGED Pongs(x)
    BY <1>0 DEF Pongs, InC
  <2>2. QED
    BY <1>7, <1>8, <2>1 DEF Ending, Resting
<1>10. Untouched(y)
  BY <1>6 DEF Ending, Untouched
<1>11. QED
  BY <1>0, <1>9, <1>10 DEF Effects, Ending

LEMMA ClosesEffects ==
    ASSUME IInv, Settled, NEW x \in Peers, NotC, ~interrupts,
           Closes(x) \/ \E f \in net[x] : FeedFrame(x, f)
    PROVE  Effects(x)
<1>0. Typed /\ UNCHANGED <<call, slot, port>> /\ JobFits(x)
  BY DEF IInv, NotC, cvars
<1>1. PICK y \in Peers : y = Other(x) /\ x # y
  BY OtherFacts
<1>2. ASSUME Ending(x, y) PROVE Effects(x)
  BY <1>1, <1>2, EndingEffects
<1>3. /\ acks \in [Peers -> SUBSET [gen : Seq(Salts), type : FrameTypes, seq : Nat]]
      /\ net \in [Peers -> SUBSET Frames] /\ job \in [Peers -> Jobs]
      /\ rcv \in [Peers -> RcvStates] /\ up \in [Peers -> BOOLEAN] /\ Idle.op = "none"
      /\ Reading.pong = FALSE
  BY <1>0 DEF Settled, Typed, Running, Carried, Idle, Reading
<1>4. CASE Retransmit(x)
  <2>1. job[x].frame \in Pending(x)
    BY <1>0, <1>4, JobFacts DEF Retransmit, Pending
  <2>2. net'[y] = net[y] \union {job[x].frame} /\ net'[x] = net[x]
    BY <1>1, <1>3, <1>4 DEF Retransmit
  <2>3. Ending(x, y)
    BY <1>4, <2>1, <2>2 DEF Retransmit, Ending, history, keyvars, Buffered, Around
  <2>4. QED
    BY <1>2, <2>3
<1>5. CASE FinishSend(x)
  <2>1. job[x].op = "send" /\ job[x].frame.type = "DATA" /\ job'[x].op = "none"
        /\ job'[y] = job[y]
    BY <1>0, <1>1, <1>3, <1>5, JobFacts DEF FinishSend, JobFits
  <2>2. Ending(x, y)
    BY <1>5, <2>1 DEF FinishSend, Ending, history, keyvars, Buffered, Around, EndsWell
  <2>3. QED
    BY <1>2, <2>1, <2>2
<1>6. CASE FinishPing(x)
  <2>1. job[x].op = "ping" /\ job'[x].op = "none" /\ job'[y] = job[y]
    BY <1>1, <1>3, <1>6 DEF FinishPing
  <2>2. Ending(x, y)
    BY <1>6, <2>1 DEF FinishPing, Ending, history, keyvars, Buffered, Around, EndsWell
  <2>3. QED
    BY <1>2, <2>1, <2>2
<1>7. CASE FinishBye(x)
  <2>1. job[x].op = "bye" /\ job'[x].op = "none" /\ job'[y] = job[y] /\ up'[y] = up[y] /\ ~up'[x]
    BY <1>1, <1>3, <1>7 DEF FinishBye
  <2>2. Ending(x, y)
    BY <1>7, <2>1 DEF FinishBye, Ending, history, keyvars, Buffered, Around, EndsWell
  <2>3. QED
    BY <1>2, <2>1, <2>2
<1>8. CASE FinishPong(x) /\ ~InC(x)
  <2>1. job[x].op = "pong" /\ job'[x].op = "none" /\ job'[y] = job[y] /\ up[x]
    BY <1>1, <1>3, <1>8 DEF FinishPong, Settled
  <2>2. rcv'[x].pong = FALSE /\ rcv'[y] = rcv[y] /\ up'[y] = up[y]
    BY <1>0, <1>1, <1>8, CtrlLeaves DEF FinishPong
  <2>3. Ending(x, y)
    BY <1>8, <2>1, <2>2 DEF FinishPong, Ending, history, keyvars, Buffered, Around, EndsWell
  <2>4. QED
    BY <1>2, <1>8, <2>3
<1>9. CASE \E f \in net[x] : FeedFrame(x, f)
  <2>1. PICK f \in net[x] : FeedFrame(x, f)
    BY <1>9
  <2>2. /\ UNCHANGED <<script, sent, got, timely, interrupts, gen, tx_seq, rx_seq, job, up, rcv,
                       rx_window_bitmap>>
        /\ Feed(x, f) /\ net' = [net EXCEPT ![x] = Taken(net[x], f)]
    BY <2>1 DEF FeedFrame, history, keyvars
  <2>3. net'[x] \subseteq net[x] /\ net'[y] = net[y]
    BY <1>1, <1>3, <2>2 DEF Taken
  <2>4. Buffered(y)' = Buffered(y) /\ Buffered(x)' \subseteq Around(x)
    <3>1. BufferFits
      BY <1>0, <2>2, BufferFed
    <3>2. read_buffer'[y] = read_buffer[y]
      BY <1>0, <1>1, <2>2 DEF Feed, Typed, Carried
    <3>3. QED
      BY <3>1, <3>2 DEF BufferFits, Buffered
  <2>5. Lessens(x)
    <3>1. \A z : PutBy(z)' = PutBy(z) /\ Pending(z)' = Pending(z)
      BY <1>0, <2>2 DEF PutBy, Pending
    <3>2. Around(x)' \subseteq Around(x) /\ Around(y)' \subseteq Around(y)
      BY <1>1, <2>3, <2>4, <3>1 DEF Around
    <3>3. \A g : Dead(x, g)' <=> Dead(x, g)
      BY <2>2 DEF Dead
    <3>4. QED
      BY <1>1, <2>2, <3>2, <3>3 DEF Lessens
  <2>6. \A z : Pongs(z)' = Pongs(z) /\ Owes(z)' = Owes(z)
    BY <1>0, <2>2 DEF Pongs, Owes, InC
  <2>7. QED
    BY <1>0, <1>1, <2>2, <2>5, <2>6 DEF Effects, Resting, Untouched
<1>10. CASE GiveUp(x) /\ ~InC(x)
  <2>1. job'[x].op = "none" /\ job'[y] = job[y] /\ up'[y] = up[y] /\ ~up'[x]
    BY <1>0, <1>1, <1>3, <1>10 DEF GiveUp
  <2>2. rcv'[y] = rcv[y] /\ (rcv'[x].pong => rcv[x].pong /\ job[x].op # "pong")
    BY <1>1, <1>3, <1>10 DEF GiveUp
  <2>3. Ending(x, y)
    BY <1>10, <2>1, <2>2 DEF GiveUp, Ending, history, keyvars, Buffered, Around, EndsWell
  <2>4. QED
    BY <1>2, <2>3
<1>11. CASE \E a \in acks[x] : FeedAck(x, a)
  <2>1. PICK a \in acks[x] : FeedAck(x, a)
    BY <1>11
  <2>2. job'[y] = job[y] /\ job'[x].op = job[x].op /\ job'[x].frame = job[x].frame
    BY <1>0, <1>1, <2>1, AckLeaves
  <2>3. Ending(x, y)
    BY <2>1, <2>2 DEF FeedAck, Ending, history, keyvars, Buffered, Around
  <2>4. QED
    BY <1>2, <2>3
<1>12. CASE Lose(x)
  <2>1. net'[x] \subseteq net[x] /\ net'[y] = net[y]
    BY <1>1, <1>3, <1>12 DEF Lose
  <2>2. Ending(x, y)
    BY <1>12, <2>1 DEF Lose, Ending, history, keyvars, Buffered, Around
  <2>3. QED
    BY <1>2, <2>2
<1>13. QED
  BY <1>4, <1>5, <1>6, <1>7, <1>8, <1>9, <1>10, <1>11, <1>12 DEF Closes

LEMMA FinishRekeyEffects ==
    ASSUME IInv, NEW x \in Peers, NotC, FinishRekey(x)
    PROVE  Effects(x)
<1>0. Typed /\ UNCHANGED <<call, slot, port>>
  BY DEF IInv, NotC, cvars
<1>1. PICK y \in Peers : y = Other(x) /\ x # y /\ Other(y) = x
  BY OtherFacts
<1>2. /\ UNCHANGED <<script, last_rx_seq, read_buffer, rcv, up, net, salts, sent, got, timely,
                     interrupts>>
      /\ job' = [job EXCEPT ![x] = Idle] /\ Rotate(x, job[x].frame.data[1])
      /\ job[x].op = "rekey"
  BY DEF FinishRekey, history
<1>3. job[x].frame \in Frames /\ job[x].frame.type = "REKEY" /\ job[x].frame \in Around(y)
  BY <1>0, <1>1, <1>2, JobFacts, OtherFacts DEF FinishRekey, IInv, JobFits, Around, Pending
<1>4. PICK k : k = job[x].frame.data[1]
  OBVIOUS
<1>5. k \in Salts /\ k <= salts
  BY <1>3, <1>4, FrameFacts, OtherFacts DEF IInv, Once, SealedOnce
<1>6. DeadStays
  BY <1>0, <1>2, <1>4, <1>5, RotatedDead DEF Typed, Keyed
<1>7. /\ gen'[x] = Append(gen[x], k) /\ tx_seq'[x] = 0 /\ gen'[y] = gen[y]
      /\ tx_seq'[y] = tx_seq[y] /\ rx_seq'[y] = rx_seq[y]
      /\ rx_window_bitmap'[y] = rx_window_bitmap[y]
      /\ job'[x].op = "none" /\ job'[y] = job[y] /\ gen[x] \in Seq(Salts)
  BY <1>0, <1>1, <1>2, <1>4 DEF Rotate, Typed, Keyed, Running, Idle
<1>8. gen'[x] # gen[x]
  <2>1. Len(gen'[x]) = Len(gen[x]) + 1 /\ Len(gen[x]) \in Nat
    BY <1>7
  <2>2. QED
    BY <2>1
<1>9. \A z : PutBy(z)' = PutBy(z) /\ Buffered(z)' = Buffered(z) /\ Pongs(z)' = Pongs(z)
  BY <1>0, <1>2 DEF PutBy, Buffered, Pongs, InC
<1>10. Pending(y)' = Pending(y) /\ Pending(x)' = {}
  BY <1>7 DEF Pending
<1>11. Around(x)' \subseteq Around(x) /\ Around(y)' \subseteq Around(y)
  BY <1>1, <1>2, <1>9, <1>10 DEF Around
<1>12. Lessens(x)
  <2>1. \A f \in Around(x) : f \in Frames
    BY <1>0, AroundTyped
  <2>2. QED
    BY <1>1, <1>2, <1>6, <1>11, <2>1 DEF Lessens, DeadStays
<1>13. Resting(x)
  BY <1>2, <1>7, <1>8, <1>9, <1>12 DEF Resting, EndsWell, Owes
<1>14. Untouched(y)
  BY <1>1, <1>2, <1>7, <1>9 DEF Untouched
<1>15. QED
  BY <1>0, <1>1, <1>2, <1>13, <1>14 DEF Effects

LEMMA DropEffects ==
    ASSUME IInv, NEW x \in Peers, NotC, DropFrame(x)
    PROVE  Effects(x)
<1>0. Typed /\ UNCHANGED <<call, slot, port>>
  BY DEF IInv, NotC, cvars
<1>1. PICK y \in Peers : y = Other(x) /\ x # y /\ Other(y) = x
  BY OtherFacts
<1>2. /\ UNCHANGED <<script, gen, tx_seq, rx_seq, rx_window_bitmap, last_rx_seq, job, rcv, up,
                     net, acks, sent, got, timely, interrupts>>
      /\ read_buffer[x] # <<>> /\ Consume(x)
  BY DEF DropFrame, CanRead, history, keyvars
<1>3. Around(x)' \subseteq Around(x)
  BY <1>0, <1>1, <1>2, ConsumedAround
<1>4. read_buffer'[y] = read_buffer[y]
  BY <1>0, <1>1, <1>2 DEF Consume, Typed, Carried
<1>5. \A z : PutBy(z)' = PutBy(z) /\ Pending(z)' = Pending(z) /\ Pongs(z)' = Pongs(z)
  BY <1>0, <1>2 DEF PutBy, Pending, Pongs, InC
<1>6. Around(y)' \subseteq Around(y)
  BY <1>2, <1>4, <1>5 DEF Around, Buffered
<1>7. \A f : Dead(x, f)' <=> Dead(x, f)
  BY <1>2 DEF Dead
<1>8. Resting(x)
  BY <1>1, <1>2, <1>3, <1>5, <1>6, <1>7 DEF Resting, Lessens, Owes
<1>9. Untouched(y)
  BY <1>2, <1>5 DEF Untouched
<1>10. QED
  BY <1>0, <1>1, <1>2, <1>8, <1>9 DEF Effects

(* What a step that accepts a frame leaves to be answered. *)
LEMMA ReceivesOwes ==
    ASSUME Typed, NEW x \in Peers, Receives(x)
    PROVE  ~rcv'[x].pong \/ (RecvPing(x) /\ Head(read_buffer[x]).type = "PING")
<1>1. ~rcv[x].pong
  BY ReceivesFacts
<1>2. ASSUME ForgetPartial(x) PROVE ~rcv'[x].pong
  <2>1. PICK r : r = [rcv[x] EXCEPT !.asm = <<>>, !.expected = 0]
    OBVIOUS
  <2>2. r.pong = rcv[x].pong
    BY <2>1, RcvFacts DEF RcvStates
  <2>3. rcv' = [rcv EXCEPT ![x] = r]
    BY <1>2, <2>1 DEF ForgetPartial, Typed, Running, RcvStates
  <2>4. rcv'[x] = r
    BY <2>3 DEF Typed, Running
  <2>5. QED
    BY <1>1, <2>2, <2>4
<1>3. CASE RecvBye(x)
  BY <1>1, <1>3 DEF RecvBye
<1>4. CASE RecvPing(x)
  BY <1>4 DEF RecvPing, Accept
<1>5. CASE RecvPong(x)
  BY <1>2, <1>5, CtrlLeaves DEF RecvPong
<1>6. CASE RecvRekey(x)
  BY <1>1, <1>2, <1>6 DEF RecvRekey
<1>7. CASE Assemble(x)
  <2>1. PICK a, e : a = Append(rcv[x].asm, Head(read_buffer[x]).data)
                    /\ e = Head(read_buffer[x]).seq + 1
    OBVIOUS
  <2>2. CASE rcv' = [rcv EXCEPT ![x] = Reading]
    BY <2>2 DEF Reading, Typed, Running
  <2>3. CASE rcv' = [rcv EXCEPT ![x].asm = a, ![x].expected = e]
    <3>1. PICK r : r = [rcv[x] EXCEPT !.asm = a, !.expected = e]
      OBVIOUS
    <3>2. r.pong = rcv[x].pong
      BY <3>1, RcvFacts DEF RcvStates
    <3>3. rcv' = [rcv EXCEPT ![x] = r]
      BY <2>3, <3>1 DEF Typed, Running, RcvStates
    <3>4. rcv'[x] = r
      BY <3>3 DEF Typed, Running
    <3>5. QED
      BY <1>1, <3>2, <3>4
  <2>4. QED
    BY <1>2, <1>7, <2>1, <2>2, <2>3 DEF Assemble
<1>8. QED
  BY <1>3, <1>4, <1>5, <1>6, <1>7 DEF Receives

LEMMA ReceivesEffects ==
    ASSUME IInv, NEW x \in Peers, NotC, ~InC(x), Receives(x)
    PROVE  Effects(x)
<1>0. Typed /\ UNCHANGED <<call, slot, port>>
  BY DEF IInv, NotC, cvars
<1>1. PICK y \in Peers : y = Other(x) /\ x # y /\ Other(y) = x
  BY OtherFacts
<1>2. PICK h : h = Head(read_buffer[x])
  OBVIOUS
<1>3. /\ up[x] /\ read_buffer[x] # <<>> /\ Authentic(x, h) /\ Consume(x) /\ ~rcv[x].pong
      /\ gen'[y] = gen[y] /\ tx_seq'[y] = tx_seq[y] /\ rx_seq'[y] = rx_seq[y]
      /\ rx_window_bitmap'[y] = rx_window_bitmap[y] /\ read_buffer'[y] = read_buffer[y]
      /\ rcv'[y] = rcv[y] /\ up'[y] = up[y] /\ got'[x] = got[x]
      /\ UNCHANGED <<job, net, sent, script, timely, interrupts, salts>>
  BY <1>0, <1>1, <1>2, ReceivesFacts
<1>4. h \in Around(x) /\ h \in Frames
  <2>1. Accept(x, {"BYE"}) \/ Accept(x, {"PING"}) \/ Accept(x, {"PONG"})
        \/ Accept(x, {"REKEY"}) \/ Accept(x, {"DATA", "DATA_FRAG"})
    BY DEF Receives, RecvBye, RecvPing, RecvPong, RecvRekey, Assemble
  <2>2. QED
    BY <1>0, <1>2, <2>1, AcceptFacts
<1>5. Around(x)' \subseteq Around(x)
  BY <1>0, <1>1, <1>3, ConsumedAround
<1>6. \A z : PutBy(z)' = PutBy(z) /\ Pending(z)' = Pending(z)
  BY <1>0, <1>3 DEF PutBy, Pending
<1>7. Around(y)' \subseteq Around(y)
  BY <1>3, <1>6 DEF Around, Buffered
<1>9. DeadStays /\ ((gen'[x] = gen[x] /\ tx_seq'[x] = tx_seq[x]) \/ h.type = "REKEY")
      /\ (RecvPing(x) => ~Dead(x, h) /\ Dead(x, h)')
  <2>1. CASE RecvRekey(x)
    <3>1. h.type = "REKEY" /\ ~RecvPing(x)
      BY <1>2, <2>1 DEF RecvRekey, RecvPing, Accept
    <3>2. CASE Mark(x, h.seq) /\ UNCHANGED <<gen, tx_seq>>
      BY <1>0, <1>3, <1>4, <3>1, <3>2, MarkedDead
    <3>3. CASE /\ Rotate(x, h.data[1])
               /\ last_rx_seq' = [last_rx_seq EXCEPT ![x] = Advance(last_rx_seq[x], h.seq)]
      <4>1. PICK k : k = h.data[1]
        OBVIOUS
      <4>2. k \in Salts /\ k <= salts /\ h.seq \in Nat
        BY <1>4, <3>1, <4>1, FrameFacts DEF IInv, Once, SealedOnce
      <4>3. last_rx_seq' \in [Peers -> Nat \union {-1}]
        <5>1. Advance(last_rx_seq[x], h.seq) \in Nat \union {-1}
          BY <1>0, <4>2 DEF Advance, Typed, Keyed
        <5>2. QED
          BY <1>0, <3>3, <5>1 DEF Typed, Keyed
      <4>4. DeadStays
        BY <1>0, <1>3, <3>3, <4>1, <4>2, <4>3, RotatedDead
      <4>5. QED
        BY <3>1, <4>4
    <3>4. QED
      BY <1>2, <2>1, <3>2, <3>3 DEF RecvRekey
  <2>2. CASE ~RecvRekey(x)
    <3>1. Mark(x, h.seq) /\ UNCHANGED <<gen, tx_seq>>
      BY <1>2, <2>2 DEF Receives, RecvBye, RecvPing, RecvPong, Assemble
    <3>2. DeadStays /\ Dead(x, h)' /\ ~Dead(x, h)
      BY <1>0, <1>3, <1>4, <3>1, MarkedDead
    <3>3. QED
      BY <3>1, <3>2
  <2>3. QED
    BY <2>1, <2>2
<1>10. got' = got \/ Fragment(h)
  BY <1>2 DEF Receives, RecvBye, RecvPing, RecvPong, RecvRekey, Assemble, Accept, Fragment,
              DataTypes
<1>11. Owes(x)' => h.type = "PING" /\ ~Dead(x, h) /\ Dead(x, h)'
  <2>1. ~rcv'[x].pong \/ (RecvPing(x) /\ h.type = "PING")
    BY <1>0, <1>2, ReceivesOwes
  <2>2. QED
    BY <1>0, <1>9, <2>1 DEF Owes, Pongs, InC
<1>12. Lessens(x)
  <2>1. \A f \in Around(x) : f \in Frames
    BY <1>0, AroundTyped
  <2>2. QED
    BY <1>1, <1>3, <1>5, <1>7, <1>9, <2>1 DEF Lessens, DeadStays
<1>13. Taking(x)
  BY <1>3, <1>4, <1>9, <1>10, <1>11, <1>12 DEF Taking, Pongs, InC
<1>14. Untouched(y)
  <2>1. Pongs(y)' = Pongs(y)
    BY <1>0, <1>3 DEF Pongs, InC
  <2>2. QED
    BY <1>1, <1>3, <2>1 DEF Untouched
<1>15. QED
  BY <1>0, <1>1, <1>3, <1>13, <1>14 DEF Effects

LEMMA CIdlesEffects ==
    ASSUME IInv, Settled, port = "c", UNCHANGED port, CIdles
    PROVE  Effects("B")
<1>0. Typed /\ "A" \in Peers /\ "B" \in Peers /\ Other("B") = "A" /\ Other("A") = "B"
  BY PeersAre DEF IInv
<1>1. /\ UNCHANGED <<script, keyvars, last_rx_seq, read_buffer, rcv, acks, salts, history>>
      /\ net'["B"] \subseteq net["B"] /\ net'["A"] = net["A"]
      /\ slot' = slot \/ slot' \in net["B"]
      /\ \A x \in Peers : up'[x] => up[x]
      /\ job'["A"] = job["A"]
      /\ \/ UNCHANGED job
         \/ /\ job'["B"].op = "none"
            /\ \/ ~up'["B"]
               \/ job["B"].acked /\ job["B"].op = "pong"
  BY CIdlesFacts
<1>2. UNCHANGED <<script, gen, tx_seq, rx_seq, rx_window_bitmap, read_buffer, rcv, sent, got,
                  timely, interrupts>>
  BY <1>1 DEF keyvars, history
<1>3. up'["A"] = up["A"] /\ (slot' = slot \/ slot' = Empty \/ job["B"].op # "none")
      /\ (Owes("B")' => Owes("B"))
  <2>1. CASE CGiveUp
    <3>1. ~call'.called
      BY <2>1, CallStates DEF CGiveUp
    <3>2. QED
      BY <1>0, <2>1, <3>1 DEF CGiveUp, Owes, Pongs, InC, Typed, Running
  <2>2. CASE \E f \in net["B"] : CFeedFrame(f)
    <3>1. job["B"] # Idle /\ UNCHANGED <<up, job, call>>
      BY <2>2 DEF CFeedFrame
    <3>2. job["B"].op # "none"
      BY <1>0, <3>1, JobFacts
    <3>3. QED
      BY <1>2, <3>1, <3>2 DEF Owes, Pongs, InC
  <2>3. CASE CRecv
    <3>1. call'.pong = FALSE /\ up' = up /\ slot' = slot
      BY <2>3 DEF CRecv, vars, Called
    <3>2. QED
      BY <3>1 DEF Owes, Pongs, InC
  <2>4. CASE CAttemptsSpent
    <3>1. ~call'.called /\ slot' = slot
      BY <2>4, CallStates DEF CAttemptsSpent, Return, EndSession
    <3>2. QED
      BY <1>0, <2>4, <3>1 DEF CAttemptsSpent, Return, EndSession, Owes, Pongs, InC, Typed,
                              Running
  <2>5. CASE CPollNothing
    <3>1. call.called /\ call' = [call EXCEPT !.attempts = @ + 1] /\ up' = up /\ slot' = slot
          /\ job' = job
      BY <2>5 DEF CPollNothing, Polling, Again
    <3>2. call'.called = call.called /\ call'.pong = call.pong
      BY <1>0, <3>1, CallRunning DEF Calls
    <3>3. QED
      BY <1>2, <3>1, <3>2 DEF Owes, Pongs, InC
  <2>6. CASE CFinishPong
    <3>1. CountControl /\ call.called /\ slot' = slot
      BY <1>0, <2>6 DEF CFinishPong, Typed, OnePort
    <3>2. CASE call' = NotCalled
      BY <1>0, <3>1, <3>2, CallStates DEF CountControl, Return, Fail, EndSession, Owes, Pongs,
                                          InC, Typed, Running
    <3>3. CASE /\ call' = [call EXCEPT !.ctrl = @ + 1, !.attempts = @ + 1, !.pong = FALSE]
               /\ up' = up
      <4>1. call'.pong = FALSE
        BY <1>0, <3>1, <3>3, CallRunning DEF Calls
      <4>2. QED
        BY <3>1, <3>3, <4>1 DEF Owes, Pongs, InC
    <3>4. QED
      BY <3>1, <3>2, <3>3 DEF CountControl, Return, Fail, EndSession
  <2>7. QED
    BY <2>1, <2>2, <2>3, <2>4, <2>5, <2>6 DEF CIdles
<1>4. Pending("A")' = Pending("A") /\ Pending("B")' \subseteq Pending("B")
      /\ \A z : Buffered(z)' = Buffered(z)
  BY <1>1, <1>2 DEF Pending, Buffered
<1>5. Around("B")' \subseteq Around("B")
  BY <1>0, <1>1, <1>4 DEF Around, PutBy
<1>6. Around("A")' \subseteq Around("A")
  BY <1>0, <1>1, <1>4 DEF Around, PutBy
<1>7. \A f : Dead("B", f)' <=> Dead("B", f)
  BY <1>2 DEF Dead
<1>8. Resting("B")
  <2>1. Lessens("B")
    BY <1>0, <1>1, <1>2, <1>5, <1>6, <1>7 DEF Lessens
  <2>2. QED
    BY <1>1, <1>2, <1>3, <2>1 DEF Resting, EndsWell, InC
<1>9. Untouched("A")
  <2>1. Pongs("A")' = Pongs("A")
    BY <1>2 DEF Pongs, InC
  <2>2. QED
    BY <1>0, <1>1, <1>2, <1>3, <2>1 DEF Untouched
<1>10. QED
  BY <1>0, <1>2, <1>3, <1>8, <1>9 DEF Effects

(* What usmp_recv has to answer after a frame. *)
LEMMA CReadsOwes ==
    ASSUME Typed, port = "c", UNCHANGED port, NEW f, CReads(f), call.called, ~call.pong
    PROVE  ~Pongs("B")' \/ (CRecvPing(f) /\ f.type = "PING")
<1>0. port' = "c"
  OBVIOUS
<1>1. ASSUME call' = NotCalled PROVE ~Pongs("B")'
  BY <1>0, <1>1, CallStates DEF Pongs, InC
<1>2. ASSUME CountControl PROVE ~Pongs("B")'
  <2>1. CASE call' = [call EXCEPT !.ctrl = @ + 1, !.attempts = @ + 1, !.pong = FALSE]
    <3>1. call'.pong = FALSE
      BY <2>1, CallRunning DEF Calls
    <3>2. QED
      BY <1>0, <3>1 DEF Pongs, InC
  <2>2. QED
    BY <1>1, <1>2, <2>1 DEF CountControl, Return, Fail, EndSession
<1>3. CASE CDrop(f)
  <2>1. call' = [call EXCEPT !.attempts = @ + 1]
    BY <1>3 DEF CDrop, Again
  <2>2. call'.pong = call.pong
    BY <2>1, CallRunning DEF Calls
  <2>3. QED
    BY <1>0, <2>2 DEF Pongs, InC
<1>4. CASE CRecvPong(f) \/ CRecvRekey(f)
  BY <1>2, <1>4 DEF CRecvPong, CRecvRekey
<1>5. CASE CRecvBye(f)
  BY <1>1, <1>5 DEF CRecvBye, EndSession
<1>6. CASE CRecvPing(f)
  BY <1>6 DEF CRecvPing, CAccept
<1>7. CASE CRecvData(f)
  <2>1. PICK a, e : a = Append(call.asm, f.data) /\ e = f.seq + 1
    OBVIOUS
  <2>2. CASE call' = [call EXCEPT !.asm = a, !.expected = e, !.attempts = @ + 1]
    <3>1. call'.pong = call.pong
      BY <2>2, CallRunning DEF Calls
    <3>2. QED
      BY <1>0, <3>1 DEF Pongs, InC
  <2>3. QED
    BY <1>1, <1>7, <2>1, <2>2 DEF CRecvData, Return, Fail, EndSession
<1>8. QED
  BY <1>3, <1>4, <1>5, <1>6, <1>7 DEF CReads

LEMMA CReadsEffects ==
    ASSUME IInv, Settled, port = "c", UNCHANGED port, NEW f, CReads(f)
    PROVE  Effects("B")
<1>0. Typed /\ "A" \in Peers /\ "B" \in Peers /\ Other("B") = "A" /\ Other("A") = "B"
  BY PeersAre DEF IInv
<1>1. /\ f \in Around("B") /\ f \in Frames /\ up["B"] /\ call.called /\ ~call.pong
      /\ Around("B")' \subseteq Around("B") /\ net'["A"] = net["A"]
      /\ gen'["A"] = gen["A"] /\ tx_seq'["A"] = tx_seq["A"] /\ rx_seq'["A"] = rx_seq["A"]
      /\ rx_window_bitmap'["A"] = rx_window_bitmap["A"] /\ got'["B"] = got["B"]
      /\ up'["A"] = up["A"] /\ job' = job /\ read_buffer' = read_buffer /\ rcv' = rcv
      /\ sent' = sent /\ script' = script /\ (slot' = slot \/ slot' = Empty)
  BY CReadsFacts
<1>2. UNCHANGED <<timely, interrupts, salts>>
  BY DEF CReads, CDrop, CRecvPong, CRecvBye, CRecvPing, CRecvData, CRecvRekey, CAccept, CRead
<1>3. Around("A")' \subseteq Around("A")
  BY <1>0, <1>1 DEF Around, PutBy, Buffered, Pending
<1>4. ASSUME Authentic("B", f), Mark("B", f.seq), UNCHANGED <<gen, tx_seq>>
      PROVE  DeadStays /\ Dead("B", f)' /\ ~Dead("B", f)
  BY <1>0, <1>1, <1>2, <1>4, MarkedDead
<1>5. /\ \A g \in Around("B") : Dead("B", g) => Dead("B", g)'
      /\ (gen'["B"] = gen["B"] /\ tx_seq'["B"] = tx_seq["B"]) \/ f.type = "REKEY"
      /\ got' = got \/ Fragment(f)
      /\ CRecvPing(f) => ~Dead("B", f) /\ Dead("B", f)'
  <2>0. \A g \in Around("B") : g \in Frames
    BY <1>0, AroundTyped
  <2>1. CASE CDrop(f)
    <3>1. UNCHANGED <<gen, tx_seq, rx_seq, rx_window_bitmap, got>> /\ Dropped(f)
      BY <2>1 DEF CDrop, keyvars
    <3>2. ~CRecvPing(f)
      BY <3>1 DEF CRecvPing, CAccept
    <3>3. QED
      BY <3>1, <3>2 DEF Dead
  <2>2. CASE CRecvRekey(f)
    <3>1. f.type = "REKEY" /\ Rotate("B", f.data[1]) /\ UNCHANGED <<last_rx_seq, got>>
      BY <2>2 DEF CRecvRekey, CAccept
    <3>2. PICK k : k = f.data[1]
      OBVIOUS
    <3>3. k \in Salts /\ k <= salts
      BY <1>0, <1>1, <3>1, <3>2, FrameFacts DEF IInv, Once, SealedOnce
    <3>4. last_rx_seq' \in [Peers -> Nat \union {-1}]
      BY <1>0, <3>1 DEF Typed, Keyed
    <3>5. DeadStays
      BY <1>0, <1>2, <3>1, <3>2, <3>3, <3>4, RotatedDead
    <3>6. ~CRecvPing(f)
      BY <3>1 DEF CRecvPing, CAccept
    <3>7. QED
      BY <1>0, <2>0, <3>1, <3>5, <3>6 DEF DeadStays
  <2>3. CASE CRecvPong(f) \/ CRecvBye(f) \/ CRecvPing(f) \/ CRecvData(f)
    <3>1. Authentic("B", f) /\ Mark("B", f.seq) /\ UNCHANGED <<gen, tx_seq>>
      BY <2>3 DEF CRecvPong, CRecvBye, CRecvPing, CRecvData, CAccept, Dropped
    <3>2. got' = got \/ Fragment(f)
      BY <2>3 DEF CRecvPong, CRecvBye, CRecvPing, CRecvData, CAccept, Fragment, DataTypes
    <3>3. QED
      BY <1>0, <1>4, <2>0, <3>1, <3>2 DEF DeadStays
  <2>4. QED
    BY <2>1, <2>2, <2>3 DEF CReads
<1>6. Owes("B")' => f.type = "PING" /\ ~Dead("B", f) /\ Dead("B", f)'
  <2>1. ~Pongs("B")' \/ (CRecvPing(f) /\ f.type = "PING")
    BY <1>0, <1>1, CReadsOwes
  <2>2. QED
    BY <1>5, <2>1 DEF Owes
<1>7. Lessens("B")
  BY <1>0, <1>1, <1>3, <1>5 DEF Lessens
<1>8. Taking("B")
  BY <1>1, <1>5, <1>6, <1>7 DEF Taking, Pongs, InC
<1>9. Untouched("A")
  <2>1. Pongs("A")' = Pongs("A")
    BY <1>1 DEF Pongs, InC
  <2>2. QED
    BY <1>0, <1>1, <2>1 DEF Untouched
<1>10. QED
  BY <1>0, <1>1, <1>2, <1>8, <1>9 DEF Effects

LEMMA WayEffects ==
    ASSUME IInv, IInv', Settled, ~interrupts, NEW x \in Peers, Way(x)
    PROVE  Effects(x)
<1>1. NotC /\ (Works(x) \/ (Listens(x) /\ ~InC(x)))
      /\ (InC(x) => CStart \/ CSending \/ Lose("B"))
  BY DEF Way
<1>2. CASE Application(x)
  BY <1>1, <1>2, ControlEffects, MessageEffects DEF Application
<1>3. CASE NextFragment(x)
  BY <1>1, <1>3, MessageEffects
<1>4. CASE FinishRekey(x)
  BY <1>1, <1>4, FinishRekeyEffects
<1>5. CASE Closes(x)
  BY <1>1, <1>5, ClosesEffects
<1>6. CASE InC(x) /\ ~Closes(x)
  <2>1. x = "B"
    BY <1>6 DEF InC
  <2>2. CASE CStart
    <3>1. Application(x)
      BY <2>1, <2>2 DEF CStart, Application
    <3>2. QED
      BY <1>2, <3>1
  <2>3. CASE CSending \/ Lose("B")
    BY <1>3, <1>4, <1>6, <2>1, <2>3 DEF CSending, Closes
  <2>4. QED
    BY <1>1, <1>6, <2>2, <2>3
<1>7. CASE Listens(x) /\ ~InC(x)
  <2>1. CASE DropFrame(x)
    BY <1>1, <2>1, DropEffects
  <2>2. CASE Receives(x)
    BY <1>1, <1>7, <2>2, ReceivesEffects
  <2>3. CASE StartPong(x)
    <3>1. StartPong(x) /\ ~InC(x) /\ NotC
      BY <1>1, <1>7, <2>3
    <3>2. QED
      BY <3>1, ControlEffects
  <2>4. CASE FinishPong(x) \/ \E f \in net[x] : FeedFrame(x, f)
    BY <1>1, <1>7, <2>4, ClosesEffects DEF Closes
  <2>5. ~RecvTimeout(x)
    BY DEF RecvTimeout
  <2>6. QED
    BY <1>7, <2>1, <2>2, <2>3, <2>4, <2>5 DEF Listens, Receiving, Receives
<1>8. QED
  BY <1>1, <1>2, <1>3, <1>4, <1>5, <1>6, <1>7 DEF Works, Ends, Closes

LEMMA StepEffects ==
    ASSUME IInv, IInv', Settled, CNext, ~interrupts
    PROVE  \E x \in Peers : Effects(x)
<1>0. "A" \in Peers /\ "B" \in Peers
  BY PeersAre
<1>1. ASSUME NEW x \in Peers, Way(x)
      PROVE  Effects(x)
  BY <1>1, WayEffects
<1>2. CASE CWay
  <2>0. port = "c" /\ UNCHANGED port
    BY <1>2 DEF CWay
  <2>1. CASE CIdles
    <3>1. Effects("B")
      BY <2>0, <2>1, CIdlesEffects
    <3>2. QED
      BY <1>0, <3>1
  <2>2. CASE CStartPong
    <3>1. up["B"]
      BY <1>2, <2>2 DEF CWay, CStartPong, Settled
    <3>2. Effects("B")
      <4>1. PICK x \in Peers : x = "B"
        BY <1>0
      <4>2. x = "B" /\ port = "c" /\ UNCHANGED port /\ CStartPong /\ up["B"]
        BY <1>2, <2>2, <3>1, <4>1 DEF CWay
      <4>3. Effects(x)
        BY <4>2, ControlEffects
      <4>4. QED
        BY <4>1, <4>3
    <3>3. QED
      BY <1>0, <3>2
  <2>3. CASE \E f : CReads(f)
    <3>1. PICK f : CReads(f)
      BY <2>3
    <3>2. Effects("B")
      BY <2>0, <3>1, CReadsEffects
    <3>3. QED
      BY <1>0, <3>2
  <2>4. QED
    BY <1>0, <1>2, <2>1, <2>2, <2>3 DEF CWay
<1>3. QED
  BY <1>1, <1>2, EveryStep

-----------------------------------------------------------------------------
(* A step of the session keeps a link it has                                 *)

LEMMA SentChanges ==
    ASSUME IInv, NEW x \in Peers, Effects(x)
    PROVE  /\ \A z \in Peers : z # x => UNCHANGED <<sent[z], script[z]>>
           /\ UNCHANGED sent[x] \/ (SendsOne(x) /\ UNCHANGED got)
<1>0. /\ Typed /\ script \in [Peers -> Seq(Operations)]
      /\ \A z \in Peers : z # x => z = Other(x)
  BY OtherFacts DEF IInv, Typed, Running, Peers
<1>1. \A z \in Peers : z # x => UNCHANGED <<sent[z], script[z]>>
  BY <1>0 DEF Effects, Untouched
<1>2. CASE Sealing(x)
  <2>1. PICK o, f : Asked(x, o, f) /\ UNCHANGED got
    BY <1>2 DEF Sealing
  <2>2. CASE AskedMessage(x, o, f)
    <3>1. /\ Ready(x, "send") /\ script'[x] = Tail(script[x])
          /\ sent'[x] = Append(sent[x], Message(x, Len(sent[x]) + 1, Head(script[x]).frags))
      BY <2>2 DEF AskedMessage, ByScript
    <3>2. Head(script[x]) \in Operations /\ Head(script[x]).op = "send"
      BY <1>0, <3>1, ScriptFacts DEF Ready
    <3>3. Head(script[x]).frags \in 1 .. MaxFrags
      BY <3>2 DEF Operations
    <3>4. SendsOne(x)
      BY <3>1, <3>3 DEF SendsOne
    <3>5. QED
      BY <1>1, <2>1, <3>4
  <2>3. CASE AskedControl(x, o, f) \/ AskedNext(x, o, f)
    BY <1>1, <2>3 DEF AskedControl, AskedNext
  <2>4. QED
    BY <2>1, <2>2, <2>3 DEF Asked
<1>3. CASE Resting(x) \/ Taking(x)
  BY <1>1, <1>3 DEF Resting, Taking, Lessens
<1>4. QED
  BY <1>2, <1>3 DEF Effects

LEMMA PrefixStays ==
    ASSUME Typed, NEW p \in Peers, Prefix(p), UNCHANGED got[p],
           UNCHANGED sent[p] \/ SendsOne(p)
    PROVE  Prefix(p)'
<1>1. \A k \in DOMAIN sent[p] : k \in DOMAIN sent'[p] /\ sent'[p][k] = sent[p][k]
  <2>1. PICK s : s = sent[p]
    OBVIOUS
  <2>2. Len(s) \in Nat /\ DOMAIN s = 1 .. Len(s)
    BY <2>1 DEF Typed, Told
  <2>3. ASSUME NEW m, sent'[p] = Append(s, m)
        PROVE  \A k \in DOMAIN s : k \in DOMAIN sent'[p] /\ sent'[p][k] = s[k]
    BY <2>2, <2>3
  <2>4. QED
    BY <2>1, <2>3 DEF SendsOne
<1>2. QED
  BY <1>1 DEF Prefix

LEMMA UpFalls ==
    ASSUME IInv, NEW x \in Peers, Effects(x), NEW q \in Peers, NEW p \in Peers, p = Other(q)
    PROVE  (up'[q] => up[q]) /\ (~up[q] => UNCHANGED got[p])
<1>0. Other(p) = q /\ (x = q \/ x = p) /\ p # q
  BY OtherFacts DEF Peers
<1>1. CASE x = q
  BY <1>0, <1>1 DEF Effects, Sealing, Resting, Taking, Lessens
<1>2. CASE x = p
  BY <1>0, <1>2 DEF Effects, Untouched
<1>3. QED
  BY <1>0, <1>1, <1>2

LEMMA LinkStep ==
    ASSUME IInv, IInv', Settled, CNext, ~interrupts, NEW q \in Peers, NEW p \in Peers,
           p = Other(q), Prefix(p), up[q] => Linked(p, q) /\ Favoured(p, q)
    PROVE  /\ Prefix(p)' /\ (up'[q] => Linked(p, q)')
           /\ UNCHANGED got[p] \/ GivesOne(p)
<1>0. Typed /\ Typed' /\ JobFits(p) /\ Whole(p)
  BY DEF IInv, Settled
<1>1. PICK x \in Peers : Effects(x)
  BY StepEffects
<1>2. UNCHANGED sent[p] \/ SendsOne(p)
  BY <1>1, SentChanges
<1>3. ASSUME UNCHANGED got[p] PROVE Prefix(p)'
  BY <1>0, <1>2, <1>3, PrefixStays
<1>4. CASE ~up[q]
  BY <1>1, <1>3, <1>4, UpFalls
<1>5. CASE up[q]
  <2>1. Handled(p, q) /\ Linked(p, q)
    BY <1>5, StepHandled
  <2>2. CASE ~up'[q] /\ UNCHANGED got[p]
    BY <1>3, <2>2
  <2>3. CASE Calm(p, q)
    BY <1>0, <1>3, <2>1, <2>3, CalmKeeps DEF Calm
  <2>4. CASE \E f : Seals(p, q, f)
    BY <1>3, <2>1, <2>4, SealKeeps DEF Seals
  <2>5. CASE \E h : Took(p, q, h)
    BY <1>0, <2>1, <2>5, TookKeeps, TookPrefix DEF GivesOne
  <2>6. CASE Rotates(p, q)
    BY <1>3, <2>1, <2>6, RotatesKeeps DEF Rotates
  <2>7. QED
    BY <2>1, <2>2, <2>3, <2>4, <2>5, <2>6 DEF Handled
<1>6. QED
  BY <1>4, <1>5

-----------------------------------------------------------------------------
(* The operations exclude each other for ever                                *)

LEMMA AcksTyped ==
    ASSUME Typed, acks \in [Peers -> SUBSET AckRecords], AcksFit
    PROVE  acks' \in [Peers -> SUBSET AckRecords]
<1>1. CASE \E z \in Peers : \E s \in SUBSET acks[z] : acks' = [acks EXCEPT ![z] = s]
  BY <1>1
<1>2. CASE \E z \in Peers : \E f \in Frames : SendUtack(z, f)
  <2>1. PICK z \in Peers, f \in Frames : SendUtack(z, f)
    BY <1>2
  <2>2. Utack(z, f) \in AckRecords
    BY FrameFacts DEF Utack, AckRecords, Frames, Typed, Keyed
  <2>3. PICK u : u = Utack(z, f)
    OBVIOUS
  <2>4. acks' = [acks EXCEPT ![Other(z)] = acks[Other(z)] \union {u}] /\ Other(z) \in Peers
    BY <2>1, <2>3, OtherFacts DEF SendUtack
  <2>5. QED
    BY <2>2, <2>3, <2>4
<1>3. QED
  BY <1>1, <1>2 DEF AcksFit

LEMMA WayAcks ==
    ASSUME IInv, NEW x \in Peers, Way(x)
    PROVE  AcksFit /\ (\A y \in Peers : y # x => read_buffer'[y] = read_buffer[y])
           /\ (InC(x) => UNCHANGED read_buffer)
<1>0. Typed /\ read_buffer \in [Peers -> Seq(Frames)]
  BY DEF IInv, Typed, Carried
<1>1. CASE Application(x)
  BY <1>1 DEF Application, StartSend, StartRekey, StartPing, StartBye, AcksFit
<1>2. CASE NextFragment(x) \/ FinishRekey(x)
  BY <1>2 DEF NextFragment, FinishRekey, AcksFit
<1>3. CASE Retransmit(x) \/ FinishSend(x) \/ FinishPing(x) \/ FinishBye(x) \/ GiveUp(x)
           \/ FinishPong(x) \/ StartPong(x) \/ RecvTimeout(x)
  BY <1>3 DEF Retransmit, FinishSend, FinishPing, FinishBye, GiveUp, FinishPong, StartPong,
              RecvTimeout, AcksFit
<1>4. CASE \E a \in acks[x] : FeedAck(x, a)
  <2>1. PICK a \in acks[x] : FeedAck(x, a)
    BY <1>4
  <2>2. acks' = [acks EXCEPT ![x] = Taken(acks[x], a)] /\ Taken(acks[x], a) \in SUBSET acks[x]
        /\ UNCHANGED read_buffer
    BY <2>1 DEF FeedAck, Taken
  <2>3. QED
    BY <2>2 DEF AcksFit
<1>5. CASE Lose(x)
  <2>1. UNCHANGED acks \/ \E a \in acks[x] : acks' = [acks EXCEPT ![x] = acks[x] \ {a}]
    BY <1>5 DEF Lose
  <2>2. UNCHANGED read_buffer
    BY <1>5 DEF Lose
  <2>3. QED
    BY <2>1, <2>2 DEF AcksFit
<1>6. CASE (\E f \in net[x] : FeedFrame(x, f)) /\ ~InC(x)
  <2>1. PICK f \in net[x] : FeedFrame(x, f)
    BY <1>6
  <2>2. Feed(x, f) /\ f \in Frames
    BY <1>0, <2>1 DEF FeedFrame, Typed, Carried
  <2>3. QED
    BY <1>0, <1>6, <2>2 DEF Feed, AcksFit
<1>7. CASE DropFrame(x) /\ ~InC(x)
  BY <1>0, <1>7 DEF DropFrame, Consume, AcksFit
<1>8. CASE Receives(x) /\ ~InC(x)
  BY <1>0, <1>8, ReceivesFacts DEF AcksFit
<1>9. QED
  <2>1. Works(x) \/ (Listens(x) /\ ~InC(x))
    BY DEF Way
  <2>2. CASE Works(x)
    BY <1>1, <1>2, <1>3, <1>4, <1>5, <2>2 DEF Works, Ends
  <2>3. CASE Listens(x) /\ ~InC(x)
    BY <1>3, <1>6, <1>7, <1>8, <2>3 DEF Listens, Receiving, Receives
  <2>4. QED
    BY <2>1, <2>2, <2>3

LEMMA WayCallOrder ==
    ASSUME IInv, CallOrder, NEW x \in Peers, Way(x), Effects(x)
    PROVE  CallOrder'
<1>0. Typed /\ UNCHANGED <<call, port>> /\ "B" \in Peers /\ Other("A") = "B"
  BY PeersAre DEF IInv, Way, NotC, cvars
<1>1. CASE ~call.called
  BY <1>0, <1>1 DEF CallOrder
<1>2. CASE call.called /\ x = "A"
  BY <1>0, <1>2 DEF CallOrder, Effects, Untouched
<1>3. CASE call.called /\ x = "B"
  <2>1. port = "c" /\ InC("B") /\ JobFits("B")
    BY <1>0, <1>3 DEF Typed, OnePort, InC, IInv, NotCalled
  <2>2. CSending \/ Lose("B")
    BY <1>3, <2>1 DEF Way, CStart
  <2>3. /\ job["B"].op \in {"none", "pong"}
        /\ job["B"] # Idle => job["B"].op = "pong" /\ job["B"].frame.type \in {"PING", "PONG", "BYE"}
    BY <1>0, <1>3, <2>1, JobFacts DEF CallOrder, JobFits
  <2>4. ~NextFragment("B") /\ ~FinishSend("B") /\ ~FinishRekey("B") /\ ~FinishPing("B")
        /\ ~FinishBye("B")
    BY <2>3 DEF NextFragment, FinishSend, FinishRekey, FinishPing, FinishBye
  <2>5. job'["B"].op = job["B"].op /\ up' = up
    <3>1. CASE Retransmit("B")
      BY <3>1 DEF Retransmit
    <3>2. CASE \E a \in acks["B"] : FeedAck("B", a)
      BY <1>0, <3>2, AckLeaves DEF FeedAck
    <3>3. CASE Lose("B")
      BY <3>3 DEF Lose
    <3>4. QED
      BY <2>2, <2>4, <3>1, <3>2, <3>3 DEF CSending
  <2>6. QED
    BY <1>0, <2>5 DEF CallOrder
<1>4. QED
  BY <1>1, <1>2, <1>3, PeersAre

LEMMA CWayAcks ==
    ASSUME IInv, CWay PROVE AcksFit /\ UNCHANGED read_buffer
<1>0. Typed /\ "B" \in Peers
  BY PeersAre DEF IInv
<1>1. CASE CIdles \/ CStartPong
  BY <1>1 DEF CIdles, CGiveUp, CFeedFrame, PutAside, CRecv, vars, CAttemptsSpent, CPollNothing,
              CFinishPong, CStartPong, AcksFit
<1>2. CASE \E f : CReads(f)
  <2>1. PICK f : CRead(f)
    BY <1>2 DEF CReads, CDrop, CRecvPong, CRecvBye, CRecvPing, CRecvData, CRecvRekey, CAccept
  <2>2. f \in Frames
    BY <1>0, <2>1, CReadFacts DEF CWay
  <2>3. QED
    BY <1>0, <2>1, <2>2 DEF CRead, AcksFit
<1>3. QED
  BY <1>1, <1>2 DEF CWay

LEMMA CWayCallOrder ==
    ASSUME IInv, CallOrder, CWay
    PROVE  CallOrder'
<1>0. Typed /\ "B" \in Peers /\ port = "c" /\ port' = "c"
  BY PeersAre DEF IInv, CWay
<1>1. ASSUME call' = NotCalled PROVE CallOrder'
  BY <1>1, CallStates DEF CallOrder
<1>2. ASSUME call.called, UNCHANGED up, call'.called = call.called, call'.asm = call.asm,
             ~call'.pong, job'["B"].op = "none"
      PROVE  CallOrder'
  BY <1>0, <1>2 DEF CallOrder
<1>3. ASSUME CountControl, call.called, job'["B"].op = "none" PROVE CallOrder'
  <2>1. CASE call' = [call EXCEPT !.ctrl = @ + 1, !.attempts = @ + 1, !.pong = FALSE]
             /\ UNCHANGED up
    <3>1. call'.pong = FALSE /\ call'.called = call.called /\ call'.asm = call.asm
      BY <1>0, <1>3, <2>1, CallRunning DEF Calls
    <3>2. QED
      BY <1>2, <1>3, <2>1, <3>1
  <2>2. QED
    BY <1>1, <1>3, <2>1 DEF CountControl, Return, Fail, EndSession
<1>4. ASSUME call.called, ~call.pong, Again, UNCHANGED job PROVE CallOrder'
  <2>1. call' = [call EXCEPT !.attempts = @ + 1] /\ up' = up
    BY <1>4 DEF Again
  <2>2. call'.pong = call.pong /\ call'.called = call.called /\ call'.asm = call.asm
    BY <1>0, <1>4, <2>1, CallRunning DEF Calls
  <2>3. QED
    BY <1>2, <1>4, <2>1, <2>2 DEF CallOrder
<1>5. CASE CGiveUp
  BY <1>1, <1>5 DEF CGiveUp
<1>6. CASE \E f \in net["B"] : CFeedFrame(f)
  BY <1>0, <1>6 DEF CFeedFrame, CallOrder
<1>7. CASE CRecv
  <2>1. call' = Called /\ job' = job /\ up' = up /\ job["B"] = Idle /\ up["B"]
    BY <1>7 DEF CRecv, vars, InApplication
  <2>2. QED
    BY <2>1, CallStates DEF CallOrder, Idle
<1>8. CASE CAttemptsSpent
  <2>1. call' = NotCalled
    BY <1>8 DEF CAttemptsSpent, Return, EndSession
  <2>2. QED
    BY <1>1, <2>1
<1>9. CASE CPollNothing
  BY <1>4, <1>9 DEF CPollNothing, Polling
<1>10. CASE CFinishPong
  <2>1. CountControl /\ call.called /\ job'["B"].op = "none"
    BY <1>0, <1>10 DEF CFinishPong, Typed, OnePort, Running, Idle
  <2>2. QED
    BY <1>3, <2>1
<1>11. CASE CStartPong
  <2>1. /\ UNCHANGED <<call, up>> /\ call.called /\ call.pong
        /\ Emit("B", "pong", "PONG", <<>>)
    BY <1>11 DEF CStartPong, cvars
  <2>2. job'["B"].op = "pong"
    BY <1>0, <2>1 DEF Emit, Typed, Running
  <2>3. QED
    BY <1>0, <2>1, <2>2 DEF CallOrder
<1>12. CASE \E f : CReads(f)
  <2>1. PICK f : CReads(f)
    BY <1>12
  <2>2. call.called /\ ~call.pong /\ UNCHANGED job /\ job["B"].op = "none"
    BY <2>1 DEF CReads, CDrop, CRecvPong, CRecvBye, CRecvPing, CRecvData, CRecvRekey, CAccept,
                CRead, Polling, CallOrder
  <2>3. CASE CDrop(f)
    BY <1>4, <2>2, <2>3 DEF CDrop
  <2>4. CASE CRecvPong(f) \/ CRecvRekey(f)
    BY <1>3, <2>2, <2>4 DEF CRecvPong, CRecvRekey
  <2>5. CASE CRecvBye(f)
    BY <1>1, <2>5 DEF CRecvBye, EndSession
  <2>6. CASE CRecvPing(f)
    <3>1. call.asm = <<>> /\ call' = [call EXCEPT !.pong = TRUE] /\ up' = up
      BY <2>6 DEF CRecvPing, CAccept, Dropped, Control
    <3>2. call'.pong = TRUE /\ call'.called = call.called /\ call'.asm = <<>>
      BY <1>0, <2>2, <3>1, CallRunning DEF Calls
    <3>3. QED
      BY <1>0, <2>2, <3>1, <3>2 DEF CallOrder
  <2>7. CASE CRecvData(f)
    <3>1. PICK a, e : a = Append(call.asm, f.data) /\ e = f.seq + 1
      OBVIOUS
    <3>2. CASE call' = [call EXCEPT !.asm = a, !.expected = e, !.attempts = @ + 1] /\ up' = up
      <4>1. call'.pong = call.pong /\ call'.called = call.called
        BY <1>0, <2>2, <3>2, CallRunning DEF Calls
      <4>2. QED
        BY <1>0, <2>2, <3>2, <4>1 DEF CallOrder
    <3>3. QED
      BY <1>1, <2>7, <3>1, <3>2 DEF CRecvData, Return, Fail, EndSession
  <2>8. QED
    BY <2>1, <2>3, <2>4, <2>5, <2>6, <2>7 DEF CReads
<1>13. QED
  BY <1>5, <1>6, <1>7, <1>8, <1>9, <1>10, <1>11, <1>12 DEF CWay, CIdles

LEMMA WholeStays ==
    ASSUME Typed, NEW p \in Peers, Whole(p), UNCHANGED sent[p] \/ SendsOne(p)
    PROVE  Whole(p)'
<1>1. PICK s : s = sent[p]
  OBVIOUS
<1>2. Len(s) \in Nat /\ DOMAIN s = 1 .. Len(s) /\ s \in Seq(Seq(Fragments))
  BY <1>1 DEF Typed, Told
<1>3. CASE SendsOne(p)
  <2>1. PICK n \in 1 .. MaxFrags : sent'[p] = Append(s, Message(p, Len(s) + 1, n))
    BY <1>1, <1>3 DEF SendsOne
  <2>2. PICK m : m = Message(p, Len(s) + 1, n)
    OBVIOUS
  <2>3. /\ DOMAIN sent'[p] = 1 .. Len(s) + 1 /\ sent'[p][Len(s) + 1] = m
        /\ \A k \in 1 .. Len(s) : sent'[p][k] = s[k]
    BY <1>2, <2>1, <2>2
  <2>4. ASSUME NEW k \in DOMAIN sent'[p]
        PROVE  \E i \in 1 .. MaxFrags : sent'[p][k] = Message(p, k, i)
    <3>1. CASE k = Len(s) + 1
      BY <2>2, <2>3, <3>1
    <3>2. CASE k \in 1 .. Len(s)
      BY <1>1, <1>2, <2>3, <3>2 DEF Whole
    <3>3. QED
      BY <1>2, <2>3, <3>1, <3>2
  <2>5. QED
    BY <2>4 DEF Whole
<1>4. QED
  BY <1>3 DEF Whole

LEMMA SettledStep ==
    ASSUME IInv, IInv', Settled, CNext, ~interrupts
    PROVE  Settled'
<1>0. /\ Typed /\ "B" \in Peers /\ acks \in [Peers -> SUBSET AckRecords] /\ CallOrder
      /\ \A x \in Peers : Whole(x)
  BY PeersAre DEF IInv, Settled, CallOrder, AckRecords
<1>1. AcksFit /\ CallOrder' /\ (port' = "c" => read_buffer'["B"] = <<>>)
  <2>1. ASSUME NEW x \in Peers, Way(x)
        PROVE  AcksFit /\ CallOrder' /\ (port' = "c" => read_buffer'["B"] = <<>>)
    <3>1. Effects(x) /\ UNCHANGED port
      BY <2>1, WayEffects DEF Way, NotC
    <3>2. AcksFit /\ (\A y \in Peers : y # x => read_buffer'[y] = read_buffer[y])
          /\ (InC(x) => UNCHANGED read_buffer)
      BY <2>1, WayAcks
    <3>3. port' = "c" => read_buffer'["B"] = read_buffer["B"]
      BY <1>0, <3>1, <3>2 DEF InC
    <3>4. QED
      BY <1>0, <2>1, <3>1, <3>2, <3>3, WayCallOrder DEF Settled
  <2>2. CASE CWay
    BY <1>0, <2>2, CWayAcks, CWayCallOrder DEF CWay, Settled
  <2>3. QED
    BY <2>1, <2>2, EveryStep
<1>2. acks' \in [Peers -> SUBSET AckRecords]
  BY <1>0, <1>1, AcksTyped
<1>3. PICK x \in Peers : Effects(x)
  BY StepEffects
<1>4. \A p \in Peers : Whole(p)'
  <2>1. ASSUME NEW p \in Peers PROVE Whole(p)'
    BY <1>0, <1>3, SentChanges, WholeStays
  <2>2. QED
    BY <2>1
<1>5. ASSUME NEW z \in Peers, job'[z].op = "pong", ~InC(z)'
      PROVE  up'[z] /\ rcv'[z].pong
  <2>1. ~InC(z) /\ (job[z].op = "pong" => up[z] /\ rcv[z].pong)
    BY <1>3, <1>5 DEF Effects, InC, Settled
  <2>2. CASE z # x
    <3>1. z = Other(x)
      BY <2>2, OtherFacts DEF Peers
    <3>2. job'[z] = job[z] /\ up'[z] = up[z] /\ Pongs(z)' = Pongs(z)
      BY <1>3, <3>1 DEF Effects, Untouched
    <3>3. QED
      BY <1>5, <2>1, <3>2 DEF Pongs
  <2>3. CASE z = x /\ Sealing(x)
    <3>1. PICK o, f : Asked(x, o, f) /\ up[x] /\ job'[x].op = o /\ UNCHANGED <<up, Pongs(x)>>
      BY <2>3 DEF Sealing
    <3>2. Pongs(x)
      BY <1>5, <2>3, <3>1 DEF Asked, AskedControl, AskedMessage, AskedNext
    <3>3. QED
      BY <1>5, <2>1, <2>3, <3>1, <3>2 DEF Pongs
  <2>4. CASE z = x /\ Resting(x)
    <3>1. job[x].op = "pong" /\ UNCHANGED <<up[x], Pongs(x)>>
      BY <1>5, <2>1, <2>4 DEF Resting
    <3>2. QED
      BY <1>5, <2>1, <2>4, <3>1 DEF Pongs
  <2>5. CASE z = x /\ Taking(x)
    BY <1>5, <2>1, <2>5 DEF Taking, Pongs
  <2>6. QED
    BY <1>3, <2>2, <2>3, <2>4, <2>5 DEF Effects
<1>6. QED
  BY <1>1, <1>2, <1>4, <1>5 DEF Settled, CallOrder, AckRecords

-----------------------------------------------------------------------------
(* On a timely network one datagram, or one acknowledgement, is on the way   *)

LEMMA DeliveredKept ==
    ASSUME NEW p, NEW q, Delivered(p, q), Carrying(p, q), up'[p] => up[p]
    PROVE  Delivered(p, q)'
<1>1. CASE Lightens(p, q)
  <2>1. CASE job'[p] = job[p]
    BY <1>1, <2>1 DEF Lightens, Delivered, Going, Pends
  <2>2. CASE job'[p].op = "none" /\ (~Pends(p) \/ ~up'[p])
    BY <1>1, <2>2 DEF Lightens, Delivered, Going, Pends
  <2>3. QED
    BY <1>1, <2>1, <2>2 DEF Lightens
<1>2. CASE Launches(p, q)
  <2>1. net[q] = {} /\ acks[p] = {} /\ Pends(p)'
    BY <1>2 DEF Launches, Delivered, Going
  <2>2. net'[q] \subseteq {job'[p].frame} /\ acks'[p] = {}
    BY <1>2, <2>1 DEF Launches
  <2>3. QED
    BY <2>1, <2>2 DEF Delivered
<1>3. CASE Repeats(p, q)
  <2>1. Going(p) /\ Pends(p) /\ Pends(p)'
    BY <1>3 DEF Repeats, Pends, Going
  <2>2. net[q] \subseteq {job[p].frame} /\ acks[p] = {}
    BY <1>3, <2>1 DEF Repeats, Delivered
  <2>3. net'[q] \subseteq {job'[p].frame} /\ acks'[p] = {}
    BY <1>3, <2>2 DEF Repeats
  <2>4. QED
    BY <2>1, <2>3 DEF Delivered
<1>4. CASE Answers(p, q)
  <2>1. Going(p) /\ ~Pends(p)'
    BY <1>4 DEF Answers, Pends, Going
  <2>2. Pends(p) /\ net[q] = {}
    BY <1>4, <2>1 DEF Answers, Delivered
  <2>3. acks'[p] = {} /\ net'[q] = {}
    BY <1>4, <2>1, <2>2 DEF Answers, Delivered
  <2>4. QED
    BY <2>1, <2>3 DEF Delivered
<1>5. CASE Reaches(p, q)
  <2>1. PICK f \in net[q] : /\ net'[q] = net[q] \ {f}
                            /\ acks'[p] \subseteq acks[p] \union {Utack(q, f)}
    BY <1>5 DEF Reaches
  <2>2. job'[p] = job[p]
    BY <1>5 DEF Reaches
  <2>3. CASE Going(p)
    <3>1. Pends(p) /\ net[q] = {f} /\ f = job[p].frame /\ acks[p] = {}
      BY <2>1, <2>3 DEF Delivered
    <3>2. net'[q] = {} /\ acks'[p] \subseteq {Utack(q, f)}
      BY <2>1, <3>1
    <3>3. Utack(q, f).type = f.type /\ Utack(q, f).seq = f.seq
      BY DEF Utack
    <3>4. Pends(p)'
      BY <2>2, <3>1 DEF Pends
    <3>5. QED
      BY <2>2, <3>1, <3>2, <3>3, <3>4 DEF Delivered
  <2>4. CASE ~Going(p)
    BY <2>2, <2>4 DEF Delivered, Going
  <2>5. QED
    BY <2>3, <2>4
<1>6. QED
  BY <1>1, <1>2, <1>3, <1>4, <1>5 DEF Carrying

LEMMA EmitLaunches ==
    ASSUME Typed, NEW p \in Peers, NEW q \in Peers, q = Other(p), up[p], ~Pends(p),
           NEW o \in {"send", "rekey", "ping", "pong", "bye"}, NEW type, NEW data,
           Emit(p, o, type, data), UNCHANGED acks
    PROVE  Launches(p, q)
<1>1. PICK f : /\ job' = [job EXCEPT ![p] = [op |-> o, frame |-> f, acked |-> FALSE]]
               /\ net' = [net EXCEPT ![q] = net[q] \union {f}]
  BY DEF Emit
<1>2. job'[p].op = o /\ job'[p].frame = f /\ job'[p].acked = FALSE
  BY <1>1 DEF Typed, Running
<1>3. QED
  BY <1>1, <1>2 DEF Launches, Pends, Typed, Carried

(* What p does itself. *)
LEMMA OwnCarries ==
    ASSUME IInv, Settled, ~interrupts, timely, NEW q \in Peers, NEW p \in Peers, p = Other(q),
           Way(p)
    PROVE  Carrying(p, q)
<1>0. /\ Typed /\ q # p /\ q = Other(p)
      /\ acks \in [Peers -> SUBSET AckRecords] /\ net \in [Peers -> SUBSET Frames]
      /\ job \in [Peers -> Jobs] /\ Idle.op = "none" /\ job[p] \in Jobs
      /\ (job[p] = Idle <=> job[p].op = "none")
  BY OtherFacts, JobFacts DEF IInv, Settled, AckRecords, Typed, Carried, Running, Idle
<1>1. CASE Application(p)
  <2>1. up[p] /\ ~Pends(p) /\ UNCHANGED acks
    BY <1>0, <1>1 DEF Application, StartSend, StartRekey, StartPing, StartBye, Ready, Pends
  <2>2. CASE StartSend(p)
    <3>1. PICK type, data : Emit(p, "send", type, data)
      BY <2>2 DEF StartSend
    <3>2. QED
      BY <1>0, <2>1, <3>1, EmitLaunches DEF Carrying
  <2>3. CASE StartRekey(p)
    <3>1. PICK data : Emit(p, "rekey", "REKEY", data)
      BY <2>3 DEF StartRekey
    <3>2. QED
      BY <1>0, <2>1, <3>1, EmitLaunches DEF Carrying
  <2>4. CASE StartPing(p)
    BY <1>0, <2>1, <2>4, EmitLaunches DEF StartPing, Carrying
  <2>5. CASE StartBye(p)
    BY <1>0, <2>1, <2>5, EmitLaunches DEF StartBye, Carrying
  <2>6. QED
    BY <1>1, <2>2, <2>3, <2>4, <2>5 DEF Application
<1>2. CASE NextFragment(p)
  <2>1. up[p] /\ ~Pends(p) /\ UNCHANGED acks
    BY <1>2 DEF NextFragment, Pends
  <2>2. PICK type, data : Emit(p, "send", type, data)
    BY <1>2 DEF NextFragment
  <2>3. QED
    BY <1>0, <2>1, <2>2, EmitLaunches DEF Carrying
<1>3. CASE StartPong(p)
  <2>1. up[p] /\ ~Pends(p) /\ UNCHANGED acks /\ Emit(p, "pong", "PONG", <<>>)
    BY <1>0, <1>3 DEF StartPong, Pends
  <2>2. QED
    BY <1>0, <2>1, EmitLaunches DEF Carrying
<1>4. CASE FinishRekey(p) \/ FinishSend(p) \/ FinishPing(p) \/ FinishPong(p)
  <2>1. UNCHANGED <<net, acks>> /\ job' = [job EXCEPT ![p] = Idle] /\ job[p].acked
    BY <1>4 DEF FinishRekey, FinishSend, FinishPing, FinishPong
  <2>2. QED
    BY <1>0, <2>1 DEF Carrying, Lightens, Pends
<1>5. CASE FinishBye(p) \/ GiveUp(p)
  <2>1. UNCHANGED <<net, acks>> /\ job' = [job EXCEPT ![p] = Idle]
        /\ (up' = [up EXCEPT ![p] = FALSE] \/ up' = [up EXCEPT ![p] = @ /\ interrupts])
    BY <1>5 DEF FinishBye, GiveUp
  <2>2. ~up'[p]
    BY <1>0, <2>1 DEF Typed, Running
  <2>3. QED
    BY <1>0, <2>1, <2>2 DEF Carrying, Lightens
<1>6. CASE Retransmit(p)
  <2>1. Pends(p) /\ UNCHANGED <<job, acks>>
        /\ (\A a \in acks[p] : <<a.type, a.seq>> # <<job[p].frame.type, job[p].frame.seq>>)
        /\ net' = [net EXCEPT ![q] = net[q] \union {job[p].frame}]
    BY <1>0, <1>6 DEF Retransmit, Pends
  <2>2. QED
    BY <1>0, <2>1 DEF Carrying, Repeats
<1>7. CASE \E a \in acks[p] : FeedAck(p, a)
  <2>1. PICK a \in acks[p] : FeedAck(p, a)
    BY <1>7
  <2>2. UNCHANGED net /\ acks'[p] = acks[p] \ {a}
    BY <1>0, <2>1 DEF FeedAck, Taken
  <2>3. CASE ~AckMatches(p, a)
    BY <1>0, <2>1, <2>2, <2>3 DEF FeedAck, Carrying, Lightens
  <2>4. CASE AckMatches(p, a)
    <3>1. job'[p].op = job[p].op /\ job'[p].frame = job[p].frame /\ job[p].op # "none"
      BY <1>0, <2>1, <2>4, AckLeaves DEF AckMatches
    <3>2. PICK j : j = [job[p] EXCEPT !.acked = TRUE]
      OBVIOUS
    <3>3. j.acked = TRUE /\ job' = [job EXCEPT ![p] = j]
      BY <1>0, <2>1, <2>4, <3>1, <3>2 DEF FeedAck, Jobs
    <3>4. job'[p].acked = TRUE
      BY <1>0, <3>3
    <3>5. QED
      BY <2>1, <2>2, <3>1, <3>4 DEF Carrying, Answers
  <2>5. QED
    BY <2>3, <2>4
<1>8. CASE Lose(p)
  <2>1. UNCHANGED job /\ net'[q] = net[q] /\ acks'[p] \subseteq acks[p]
    BY <1>0, <1>8 DEF Lose
  <2>2. QED
    BY <2>1 DEF Carrying, Lightens
<1>9. CASE \E f \in net[p] : FeedFrame(p, f)
  <2>1. PICK f \in net[p] : FeedFrame(p, f)
    BY <1>9
  <2>2. UNCHANGED job /\ net'[q] = net[q] /\ acks'[p] = acks[p]
    BY <1>0, <2>1 DEF FeedFrame, Feed, SendUtack
  <2>3. QED
    BY <2>2 DEF Carrying, Lightens
<1>10. CASE DropFrame(p) \/ Receives(p)
  <2>1. UNCHANGED <<job, net, acks>>
    BY <1>0, <1>10, ReceivesFacts DEF DropFrame
  <2>2. QED
    BY <2>1 DEF Carrying, Lightens
<1>11. ~RecvTimeout(p)
  BY DEF RecvTimeout
<1>12. QED
  <2>1. Works(p) \/ Listens(p)
    BY DEF Way
  <2>2. CASE Works(p)
    BY <1>1, <1>2, <1>4, <1>5, <1>6, <1>7, <1>8, <2>2 DEF Works, Ends
  <2>3. CASE Listens(p)
    BY <1>3, <1>4, <1>9, <1>10, <1>11, <2>3 DEF Listens, Receiving, Receives
  <2>4. QED
    BY <2>1, <2>2, <2>3

(* What its peer does. *)
LEMMA EmitAlone ==
    ASSUME Typed, NEW p \in Peers, NEW q \in Peers, q = Other(p), NEW o, NEW type, NEW data,
           Emit(q, o, type, data)
    PROVE  net'[q] = net[q] /\ job'[p] = job[p]
  BY OtherFacts DEF Emit, Typed, Carried, Running

LEMMA PeerCarries ==
    ASSUME IInv, Settled, ~interrupts, timely, NEW q \in Peers, NEW p \in Peers, p = Other(q),
           Way(q)
    PROVE  Carrying(p, q)
<1>0. /\ Typed /\ q # p /\ q = Other(p)
      /\ acks \in [Peers -> SUBSET AckRecords] /\ net \in [Peers -> SUBSET Frames]
      /\ job \in [Peers -> Jobs]
  BY OtherFacts DEF IInv, Settled, AckRecords, Typed, Carried, Running
<1>1. ASSUME job'[p] = job[p], net'[q] \subseteq net[q], acks'[p] \subseteq acks[p]
      PROVE  Carrying(p, q)
  BY <1>1 DEF Carrying, Lightens
<1>2. CASE Application(q) \/ NextFragment(q) \/ StartPong(q)
  <2>1. UNCHANGED acks
    BY <1>2 DEF Application, StartSend, StartRekey, StartPing, StartBye, NextFragment, StartPong
  <2>2. \E o, type, data : Emit(q, o, type, data)
    BY <1>2 DEF Application, StartSend, StartRekey, StartPing, StartBye, NextFragment, StartPong
  <2>3. QED
    BY <1>0, <1>1, <2>1, <2>2, EmitAlone
<1>3. CASE FinishRekey(q) \/ FinishSend(q) \/ FinishPing(q) \/ FinishPong(q) \/ FinishBye(q)
           \/ GiveUp(q)
  <2>1. UNCHANGED <<net, acks>> /\ job' = [job EXCEPT ![q] = Idle]
    BY <1>3 DEF FinishRekey, FinishSend, FinishPing, FinishPong, FinishBye, GiveUp
  <2>2. QED
    BY <1>0, <1>1, <2>1
<1>4. CASE Retransmit(q)
  BY <1>0, <1>1, <1>4 DEF Retransmit
<1>5. CASE \E a \in acks[q] : FeedAck(q, a)
  <2>1. PICK a \in acks[q] : FeedAck(q, a)
    BY <1>5
  <2>2. UNCHANGED net /\ acks'[p] = acks[p] /\ job'[p] = job[p]
    BY <1>0, <2>1, AckLeaves DEF FeedAck
  <2>3. QED
    BY <1>1, <2>2
<1>6. CASE Lose(q)
  <2>1. UNCHANGED job /\ net'[q] \subseteq net[q] /\ acks'[p] = acks[p]
    BY <1>0, <1>6 DEF Lose
  <2>2. QED
    BY <1>1, <2>1
<1>7. CASE \E f \in net[q] : FeedFrame(q, f)
  <2>1. PICK f \in net[q] : FeedFrame(q, f)
    BY <1>7
  <2>2. UNCHANGED job /\ net'[q] = net[q] \ {f}
    BY <1>0, <2>1 DEF FeedFrame, Taken
  <2>3. acks'[p] \subseteq acks[p] \union {Utack(q, f)}
    <3>1. PICK u : u = Utack(q, f)
      OBVIOUS
    <3>2. acks' = acks \/ acks' = [acks EXCEPT ![p] = acks[p] \union {u}]
      BY <1>0, <2>1, <3>1 DEF FeedFrame, Feed, SendUtack
    <3>3. QED
      BY <1>0, <3>1, <3>2
  <2>4. QED
    BY <2>1, <2>2, <2>3 DEF Carrying, Reaches
<1>8. CASE DropFrame(q) \/ Receives(q)
  <2>1. UNCHANGED <<job, net, acks>>
    BY <1>0, <1>8, ReceivesFacts DEF DropFrame
  <2>2. QED
    BY <1>1, <2>1
<1>9. ~RecvTimeout(q)
  BY DEF RecvTimeout
<1>10. QED
  <2>1. Works(q) \/ Listens(q)
    BY DEF Way
  <2>2. CASE Works(q)
    BY <1>2, <1>3, <1>4, <1>5, <1>6, <2>2 DEF Works, Ends
  <2>3. CASE Listens(q)
    BY <1>2, <1>3, <1>7, <1>8, <1>9, <2>3 DEF Listens, Receiving, Receives
  <2>4. QED
    BY <2>1, <2>2, <2>3

LEMMA StepCarries ==
    ASSUME IInv, Settled, ~interrupts, timely, CNext, NEW q \in Peers, NEW p \in Peers,
           p = Other(q), InC(q) => slot = Empty
    PROVE  Carrying(p, q)
<1>0. /\ Typed /\ "A" \in Peers /\ "B" \in Peers /\ Other("A") = "B" /\ Other("B") = "A"
      /\ net \in [Peers -> SUBSET Frames]
      /\ (p = "A" /\ q = "B") \/ (p = "B" /\ q = "A")
  BY PeersAre DEF IInv, Typed, Carried
<1>1. ASSUME NEW x \in Peers, Way(x) PROVE Carrying(p, q)
  <2>1. x = p \/ x = q
    BY <1>0, PeersAre
  <2>2. QED
    BY <1>1, <2>1, OwnCarries, PeerCarries
<1>2. CASE CWay
  <2>0. port = "c" /\ UNCHANGED port
    BY <1>2 DEF CWay
  <2>1. CASE CIdles
    <3>1. /\ UNCHANGED acks /\ net'["B"] \subseteq net["B"] /\ net'["A"] = net["A"]
          /\ job'["A"] = job["A"]
          /\ \/ UNCHANGED job
             \/ /\ job'["B"].op = "none"
                /\ \/ ~up'["B"]
                   \/ job["B"].acked /\ job["B"].op = "pong"
      BY <2>0, <2>1, CIdlesFacts
    <3>2. QED
      BY <1>0, <3>1 DEF Carrying, Lightens, Pends
  <2>2. CASE CStartPong
    <3>1. up["B"] /\ ~Pends("B") /\ UNCHANGED acks /\ Emit("B", "pong", "PONG", <<>>)
      BY <1>0, <2>0, <2>2 DEF CStartPong, Settled, Pends, Idle
    <3>2. CASE p = "B"
      BY <1>0, <3>1, <3>2, EmitLaunches DEF Carrying
    <3>3. CASE p = "A"
      <4>1. net'["B"] = net["B"] /\ job'["A"] = job["A"]
        BY <1>0, <3>1, EmitAlone
      <4>2. QED
        BY <1>0, <3>1, <3>3, <4>1 DEF Carrying, Lightens
    <3>4. QED
      BY <1>0, <3>2, <3>3
  <2>3. CASE \E f : CReads(f)
    <3>1. PICK f : CReads(f)
      BY <2>3
    <3>2. /\ acks'["A"] \subseteq acks["A"] \union {Utack("B", f)} /\ acks'["B"] = acks["B"]
          /\ net'["A"] = net["A"] /\ job' = job
      BY <2>0, <3>1, CReadsFacts
    <3>3. CASE q = "A"
      BY <1>0, <3>2, <3>3 DEF Carrying, Lightens
    <3>4. CASE q = "B"
      <4>1. slot = Empty /\ CRead(f)
        BY <2>0, <3>1, <3>4 DEF InC, CReads, CDrop, CRecvPong, CRecvBye, CRecvPing, CRecvData,
                                CRecvRekey, CAccept
      <4>2. f \in net["B"] /\ net'["B"] = net["B"] \ {f}
        BY <1>0, <4>1 DEF CRead, Taken
      <4>3. QED
        BY <1>0, <3>2, <3>4, <4>2 DEF Carrying, Reaches
    <3>5. QED
      BY <1>0, <3>3, <3>4
  <2>4. QED
    BY <1>2, <2>1, <2>2, <2>3 DEF CWay
<1>3. QED
  BY <1>1, <1>2, EveryStep

-----------------------------------------------------------------------------
(* A session that keeps its first keys                                       *)

LEMMA ScriptChanges ==
    ASSUME NEW x \in Peers, Effects(x), NEW z \in Peers
    PROVE  \/ script'[z] = script[z]
           \/ script[z] # <<>> /\ script'[z] = Tail(script[z])
<1>1. CASE z # x
  <2>1. z = Other(x)
    BY <1>1, OtherFacts DEF Peers
  <2>2. QED
    BY <2>1 DEF Effects, Untouched
<1>2. CASE z = x
  BY <1>2 DEF Effects, Sealing, Asked, AskedControl, AskedMessage, AskedNext, ByScript, Ready,
              Resting, Taking, Lessens
<1>3. QED
  BY <1>1, <1>2

LEMMA TailFacts ==
    ASSUME NEW S, NEW s \in Seq(S), s # <<>>
    PROVE  /\ Tail(s) \in Seq(S) /\ Len(s) \in Nat \ {0} /\ Len(Tail(s)) = Len(s) - 1
           /\ Head(s) = s[1] /\ DOMAIN s = 1 .. Len(s)
           /\ \A i \in DOMAIN Tail(s) : i \in Nat /\ i + 1 \in DOMAIN s /\ Tail(s)[i] = s[i + 1]
  OBVIOUS

LEMMA WithoutStays ==
    ASSUME Typed, NEW x \in Peers, Effects(x), NEW z \in Peers, NEW o, Without(z, o)
    PROVE  Without(z, o)'
<1>1. CASE script'[z] = script[z]
  BY <1>1 DEF Without
<1>2. CASE script[z] # <<>> /\ script'[z] = Tail(script[z])
  <2>1. script[z] \in Seq(Operations)
    BY DEF Typed, Running
  <2>2. \A i \in DOMAIN Tail(script[z]) : i + 1 \in DOMAIN script[z]
                                          /\ Tail(script[z])[i] = script[z][i + 1]
    BY <1>2, <2>1, TailFacts
  <2>3. QED
    BY <1>2, <2>2 DEF Without
<1>3. QED
  BY <1>1, <1>2, ScriptChanges

(* The next operation of a script. *)
LEMMA ReadyCalls ==
    ASSUME Typed, NEW p \in Peers, NEW o, Ready(p, o)
    PROVE  ~Without(p, o)
<1>1. script[p] \in Seq(Operations) /\ script[p] # <<>> /\ Head(script[p]).op = o
  BY DEF Typed, Running, Ready
<1>2. 1 \in DOMAIN script[p] /\ script[p][1] = Head(script[p])
  BY <1>1, TailFacts
<1>3. QED
  BY <1>1, <1>2 DEF Without

LEMMA PlainFavours ==
    ASSUME IInv, Plain, NEW q \in Peers, NEW p \in Peers, p = Other(q), up[q]
    PROVE  Linked(p, q) /\ Favoured(p, q)
<1>0. Typed /\ q = Other(p) /\ JobFits(q) /\ JobFits(p) /\ Linked(p, q)
  BY OtherFacts DEF IInv, Plain
<1>1. job[p].op # "rekey" /\ job[q].op # "rekey"
  <2>1. ASSUME NEW z \in Peers, JobFits(z), job[z].op = "rekey" PROVE FALSE
    <3>1. job[z].frame \in Around(Other(z)) /\ Other(z) \in Peers
      BY <2>1, OtherFacts DEF Around, Pending
    <3>2. QED
      BY <2>1, <3>1 DEF JobFits, Plain
  <2>2. QED
    BY <1>0, <2>1
<1>2. ~Ready(p, "rekey")
  BY <1>0, ReadyCalls DEF Plain
<1>3. ASSUME NEW f \in Around(q) PROVE FedFits(p, q, f)
  <2>1. Ranked(q) /\ (Going(p) => Latest(p, q))
    BY <1>0 DEF Linked, Numbered
  <2>2. f.gen = <<>> /\ gen[p] = <<>> /\ Len(<<>>) = 0
    BY <1>3 DEF Plain
  <2>3. Going(p) => f.seq < tx_seq[p]
    BY <1>3, <2>1, <2>2 DEF Latest
  <2>4. job[p].op # "none" => job[p].frame \in Around(q)
    BY <1>0 DEF Around, Pending
  <2>5. QED
    BY <1>3, <2>1, <2>2, <2>3, <2>4 DEF FedFits, Ranked, Plain
<1>4. \A f \in net[q] : f \in Around(q)
  BY DEF Around
<1>5. InC(q) /\ slot # Empty => slot \in Around(q)
  BY DEF InC, Around, PutBy
<1>6. QED
  BY <1>0, <1>1, <1>2, <1>3, <1>4, <1>5 DEF Favoured, Plain

LEMMA PlainStep ==
    ASSUME IInv, IInv', Settled, CNext, ~interrupts, Plain, \A p \in Peers : Prefix(p)
    PROVE  Plain' /\ (\A p \in Peers : Prefix(p)' /\ (UNCHANGED got[p] \/ GivesOne(p)))
<1>0. Typed /\ Typed'
  BY DEF IInv
<1>1. PICK x \in Peers : Effects(x)
  BY StepEffects
<1>2. PICK y \in Peers : y = Other(x) /\ x # y /\ \A z \in Peers : z = x \/ z = y
  BY OtherFacts DEF Peers
<1>3. \A z \in Peers : Without(z, "rekey")'
  BY <1>0, <1>1, WithoutStays DEF Plain
<1>4. ASSUME NEW q \in Peers, NEW p \in Peers, p = Other(q)
      PROVE  Prefix(p)' /\ (up'[q] => Linked(p, q)') /\ (UNCHANGED got[p] \/ GivesOne(p))
  BY <1>4, PlainFavours, LinkStep
<1>5. \A p \in Peers : Prefix(p)' /\ (UNCHANGED got[p] \/ GivesOne(p))
  <2>1. ASSUME NEW p \in Peers PROVE Prefix(p)' /\ (UNCHANGED got[p] \/ GivesOne(p))
    <3>1. PICK q \in Peers : p = Other(q)
      BY OtherFacts
    <3>2. QED
      BY <1>4, <3>1
  <2>2. QED
    BY <2>1
<1>6. job[x].op # "rekey"
  <2>1. ASSUME job[x].op = "rekey" PROVE FALSE
    <3>1. job[x].frame \in Around(y) /\ JobFits(x)
      BY <1>2, <2>1, OtherFacts DEF Around, Pending, IInv
    <3>2. QED
      BY <2>1, <3>1 DEF JobFits, Plain
  <2>2. QED
    BY <2>1
<1>7. gen'[x] = <<>> /\ gen'[y] = <<>>
  <2>1. gen'[x] = gen[x]
    BY <1>1, <1>6 DEF Effects, Sealing, Resting, Taking, Plain
  <2>2. gen'[y] = gen[y]
    BY <1>1, <1>2 DEF Effects, Untouched
  <2>3. QED
    BY <2>1, <2>2 DEF Plain
<1>8. ASSUME NEW z \in Peers, NEW f \in Around(z)' PROVE f.gen = <<>> /\ f.type # "REKEY"
  <2>1. CASE Sealing(x)
    <3>1. PICK o, g : /\ Asked(x, o, g) /\ g.gen = gen[x] /\ Around(x)' \subseteq Around(x)
                      /\ Around(y)' \subseteq Around(y) \union {g}
      BY <1>2, <2>1 DEF Sealing
    <3>2. g.type # "REKEY"
      <4>1. CASE AskedControl(x, o, g)
        <5>1. o # "rekey"
          BY <1>0, <4>1, ReadyCalls DEF AskedControl, ByScript, Plain
        <5>2. QED
          BY <4>1, <5>1 DEF AskedControl, ControlOf
      <4>2. CASE AskedMessage(x, o, g) \/ AskedNext(x, o, g)
        BY <4>2 DEF AskedMessage, AskedNext, Fragment, DataTypes
      <4>3. QED
        BY <3>1, <4>1, <4>2 DEF Asked
    <3>3. f \in Around(z) \/ f = g
      BY <1>2, <1>8, <3>1
    <3>4. QED
      BY <3>1, <3>2, <3>3 DEF Plain
  <2>2. CASE Resting(x) \/ Taking(x)
    <3>1. f \in Around(z)
      BY <1>2, <1>8, <2>2 DEF Resting, Taking, Lessens
    <3>2. QED
      BY <3>1 DEF Plain
  <2>3. QED
    BY <1>1, <2>1, <2>2 DEF Effects
<1>9. \A q \in Peers : up'[q] => Linked(Other(q), q)'
  <2>1. ASSUME NEW q \in Peers PROVE up'[q] => Linked(Other(q), q)'
    <3>1. PICK p \in Peers : p = Other(q)
      BY OtherFacts
    <3>2. up'[q] => Linked(p, q)'
      BY <1>4, <3>1
    <3>3. QED
      BY <3>1, <3>2
  <2>2. QED
    BY <2>1
<1>10. QED
  BY <1>2, <1>3, <1>5, <1>7, <1>8, <1>9 DEF Plain

-----------------------------------------------------------------------------
(* An application that only listens, and a peer that rotates the keys while  *)
(* less than a whole window of frames has been sealed with them.             *)

LEMMA FramesTyped ==
    ASSUME NEW o \in Operations
    PROVE  FramesOf(o) \in Nat
<1>1. CASE o.op = "send"
  <2>1. o \in [op : {"send"}, frags : 1 .. MaxFrags]
    BY <1>1 DEF Operations
  <2>2. o.frags \in 1 .. MaxFrags
    BY <2>1
  <2>3. QED
    BY <1>1, <2>2 DEF FramesOf
<1>2. QED
  BY <1>1 DEF FramesOf

LEMMA EarlyShifts ==
    ASSUME NEW s \in Seq(Operations), NEW b \in Nat, NEW k \in Nat, Early(s, b, k),
           NEW c \in Nat, NEW l \in Nat, l <= k, c + l <= b + k
    PROVE  Early(s, c, l)
<1>1. PICK at \in [1 .. Len(s) + 1 -> Nat] : EarlyAt(s, b, k, at)
  BY DEF Early
<1>2. PICK d \in Nat : d = k - l
  OBVIOUS
<1>3. PICK n \in Nat : n = Len(s) /\ DOMAIN s = 1 .. n
  OBVIOUS
<1>4. PICK to \in [1 .. n + 1 -> Nat] : \A i \in 1 .. n + 1 : to[i] = at[i] + d
  <2>1. [i \in 1 .. n + 1 |-> at[i] + d] \in [1 .. n + 1 -> Nat]
    BY <1>1, <1>3
  <2>2. QED
    BY <2>1
<1>5. c <= to[1]
  <2>1. b <= at[1] /\ at[1] \in Nat /\ to[1] = at[1] + d
    BY <1>1, <1>3, <1>4 DEF EarlyAt
  <2>2. QED
    BY <1>2, <2>1
<1>6. ASSUME NEW i \in DOMAIN s
      PROVE  IF s[i].op = "rekey" THEN to[i] + l < W ELSE to[i] + FramesOf(s[i]) <= to[i + 1]
  <2>1. /\ at[i] \in Nat /\ at[i + 1] \in Nat /\ to[i] = at[i] + d /\ to[i + 1] = at[i + 1] + d
        /\ FramesOf(s[i]) \in Nat
    <3>1. i \in 1 .. n + 1 /\ i + 1 \in 1 .. n + 1 /\ s[i] \in Operations
      BY <1>3, <1>6
    <3>2. at \in [1 .. n + 1 -> Nat]
      BY <1>1, <1>3
    <3>3. FramesOf(s[i]) \in Nat
      BY <3>1, FramesTyped
    <3>4. QED
      BY <1>4, <3>1, <3>2, <3>3
  <2>2. IF s[i].op = "rekey" THEN at[i] + k < W ELSE at[i] + FramesOf(s[i]) <= at[i + 1]
    BY <1>1, <1>6 DEF EarlyAt
  <2>3. W \in Nat
    BY WAssumption
  <2>4. QED
    <3>1. PICK m \in Nat, u \in Nat, v \in Nat, w \in Nat :
                 m = FramesOf(s[i]) /\ u = at[i] /\ v = at[i + 1] /\ w = W
      BY <2>1, <2>3
    <3>2. (u + k < w => (u + d) + l < w) /\ (u + m <= v => (u + d) + m <= v + d)
      BY <1>2, SMT
    <3>3. to[i] = u + d /\ to[i + 1] = v + d
      BY <2>1, <3>1
    <3>4. IF s[i].op = "rekey" THEN u + k < w ELSE u + m <= v
      BY <2>2, <3>1, Zenon
    <3>5. IF s[i].op = "rekey" THEN (u + d) + l < w ELSE (u + d) + m <= v + d
      BY <3>2, <3>4, Zenon
    <3>6. QED
      BY <3>1, <3>3, <3>5, Zenon
<1>7. EarlyAt(s, c, l, to)
  BY <1>5, <1>6 DEF EarlyAt
<1>8. QED
  BY <1>3, <1>4, <1>7 DEF Early

(* What an operation leaves for those after it.                              *)
LEMMA EarlyGoesOn ==
    ASSUME NEW s \in Seq(Operations), s # <<>>, NEW b \in Nat, NEW k \in Nat, Early(s, b, k)
    PROVE  IF Head(s).op = "rekey" THEN b + k < W /\ Early(Tail(s), 0, k)
           ELSE Early(Tail(s), b + FramesOf(Head(s)), k)
<1>1. PICK at \in [1 .. Len(s) + 1 -> Nat] : EarlyAt(s, b, k, at)
  BY DEF Early
<1>2. PICK n \in Nat : n + 1 = Len(s) /\ DOMAIN s = 1 .. n + 1
  <2>1. PICK l \in Nat : l = Len(s) /\ l # 0 /\ DOMAIN s = 1 .. l
    OBVIOUS
  <2>2. l - 1 \in Nat /\ (l - 1) + 1 = l
    BY <2>1
  <2>3. QED
    BY <2>1, <2>2
<1>3. PICK t \in Seq(Operations) : t = Tail(s) /\ Len(t) = n /\ DOMAIN t = 1 .. n
  <2>1. PICK t : t = Tail(s)
    OBVIOUS
  <2>2. t \in Seq(Operations) /\ Len(t) = Len(s) - 1
    BY <2>1, TailFacts
  <2>3. Len(t) = n
    BY <1>2, <2>2
  <2>4. DOMAIN t = 1 .. n
    BY <2>2, <2>3
  <2>5. QED
    BY <2>1, <2>2, <2>3, <2>4
<1>4. PICK to \in [1 .. n + 1 -> Nat] : \A i \in 1 .. n + 1 : to[i] = at[i + 1]
  <2>1. at \in [1 .. n + 1 + 1 -> Nat]
    BY <1>1, <1>2
  <2>2. \A i \in 1 .. n + 1 : i + 1 \in 1 .. n + 1 + 1
    OBVIOUS
  <2>3. [i \in 1 .. n + 1 |-> at[i + 1]] \in [1 .. n + 1 -> Nat]
    BY <2>1, <2>2
  <2>4. QED
    BY <2>3, Zenon
<1>5. ASSUME NEW i \in DOMAIN t
      PROVE  IF t[i].op = "rekey" THEN to[i] + k < W ELSE to[i] + FramesOf(t[i]) <= to[i + 1]
  <2>1. i + 1 \in DOMAIN s /\ t[i] = s[i + 1]
    BY <1>3, <1>5, TailFacts
  <2>2. i \in 1 .. n + 1 /\ i + 1 \in 1 .. n + 1
    BY <1>3, <1>5
  <2>3. to[i] = at[i + 1] /\ to[i + 1] = at[i + 1 + 1]
    BY <1>4, <2>2
  <2>4. IF s[i + 1].op = "rekey" THEN at[i + 1] + k < W
        ELSE at[i + 1] + FramesOf(s[i + 1]) <= at[i + 1 + 1]
    BY <1>1, <2>1 DEF EarlyAt
  <2>5. QED
    BY <2>1, <2>3, <2>4
<1>6. /\ Head(s) = s[1] /\ 1 \in DOMAIN s /\ at[1] \in Nat /\ at[2] \in Nat /\ to[1] = at[2]
      /\ b <= at[1] /\ W \in Nat
  <2>1. 1 \in 1 .. n + 1 /\ 2 \in 1 .. n + 1 + 1 /\ 1 + 1 = 2
    BY <1>2
  <2>2. at \in [1 .. n + 1 + 1 -> Nat]
    BY <1>1, <1>2
  <2>3. to[1] = at[1 + 1]
    BY <1>4, <2>1
  <2>4. b <= at[1]
    BY <1>1 DEF EarlyAt
  <2>5. QED
    BY <1>2, <2>1, <2>2, <2>3, <2>4, WAssumption, TailFacts
<1>7. CASE Head(s).op = "rekey"
  <2>1. at[1] + k < W
    BY <1>1, <1>6, <1>7 DEF EarlyAt
  <2>2. EarlyAt(t, 0, k, to)
    BY <1>5, <1>6 DEF EarlyAt
  <2>3. QED
    BY <1>3, <1>4, <1>6, <1>7, <2>1, <2>2 DEF Early
<1>8. CASE Head(s).op # "rekey"
  <2>1. at[1] + FramesOf(Head(s)) <= at[2] /\ FramesOf(Head(s)) \in Nat
    <3>1. at[1] + FramesOf(s[1]) <= at[1 + 1]
      BY <1>1, <1>6, <1>8 DEF EarlyAt
    <3>2. s[1] \in Operations
      BY <1>6
    <3>3. FramesOf(s[1]) \in Nat
      BY <3>2, FramesTyped
    <3>4. QED
      BY <1>6, <3>1, <3>3
  <2>2. EarlyAt(t, b + FramesOf(Head(s)), k, to)
    BY <1>5, <1>6, <2>1 DEF EarlyAt
  <2>3. QED
    BY <1>3, <1>4, <1>8, <2>2 DEF Early
<1>9. QED
  BY <1>7, <1>8

LEMMA RestTyped ==
    ASSUME IInv, NEW p \in Peers
    PROVE  Base(p) \in Nat /\ Rest(p) \in Nat
<1>1. Base(p) \in Nat
  <2>1. tx_seq[p] \in Nat
    BY DEF IInv, Typed, Keyed
  <2>2. QED
    BY <2>1 DEF Base
<1>2. Rest(p) \in Nat
  <2>1. CASE job[p].op = "send"
    <3>1. PICK n \in 1 .. MaxFrags, i \in 1 .. MaxFrags :
                 /\ i <= n /\ sent[p][Len(sent[p])] = Message(p, Len(sent[p]), n)
                 /\ job[p].frame.data = <<p, Len(sent[p]), i>>
      BY <2>1, UdpSessionAssumption DEF IInv, JobFits
    <3>2. Len(sent[p][Len(sent[p])]) = n
      BY <3>1, UdpSessionAssumption DEF Message
    <3>3. job[p].frame.data[3] = i
      BY <3>1
    <3>4. n - i \in Nat
      BY <3>1, UdpSessionAssumption
    <3>5. QED
      BY <2>1, <3>2, <3>3, <3>4 DEF Rest
  <2>2. QED
    BY <2>1 DEF Rest
<1>3. QED
  BY <1>1, <1>2

LEMMA PotentialTyped ==
    ASSUME Typed, NEW p \in Peers, NEW q \in Peers, IsFiniteSet(Pings(p))
    PROVE  /\ Potential(p, q) \in Nat /\ Len(script[q]) \in Nat /\ Cardinality(Pings(p)) \in Nat
<1>1. Len(script[q]) \in Nat
  BY DEF Typed, Running
<1>2. Cardinality(Pings(p)) \in Nat
  BY FS_CardinalityType
<1>3. QED
  BY <1>1, <1>2 DEF Potential

(* Such a session goes the way the steps of a direction need.                *)
LEMMA ListeningFavours ==
    ASSUME IInv, NEW q \in Peers, NEW p \in Peers, p = Other(q), Listening(p, q), up[q]
    PROVE  Linked(p, q) /\ Favoured(p, q)
<1>0. Typed /\ Linked(p, q) /\ Delivered(p, q) /\ (InC(q) => slot = Empty)
  BY DEF IInv, Listening, Unasked
<1>1. job[q].op # "rekey" /\ \A f \in Around(p) : f.type # "REKEY"
  BY DEF Listening
<1>2. ASSUME NEW f \in net[q] PROVE FedFits(p, q, f)
  <2>1. CASE ~Going(p)
    BY <2>1 DEF FedFits, Going
  <2>2. CASE Going(p)
    <3>1. Pends(p) /\ f = job[p].frame
      BY <1>0, <1>2, <2>2 DEF Delivered
    <3>2. job[p].frame.seq + 1 = tx_seq[p] /\ job[p].op # "none"
      BY <1>0, <2>2, <3>1 DEF Linked, Numbered, Latest, Pends
    <3>3. job[p].frame.seq \in Nat /\ tx_seq[p] \in Nat
      <4>1. job[p].frame \in Frames
        BY <1>0, <3>2 DEF Typed, Running, Jobs, Idle
      <4>2. QED
        BY <1>0, <4>1 DEF Typed, Keyed, Frames
    <3>4. f.seq < tx_seq[p]
      BY <3>1, <3>2, <3>3
    <3>5. QED
      BY <3>1, <3>4 DEF FedFits
  <2>3. QED
    BY <2>1, <2>2
<1>3. ASSUME Ready(p, "rekey") PROVE tx_seq[p] < W
  <2>1. /\ up[p] /\ job[p].op = "none" /\ script[p] \in Seq(Operations) /\ script[p] # <<>>
        /\ Head(script[p]).op = "rekey"
    BY <1>0, <1>3 DEF Ready, Idle, Typed, Running
  <2>2. PICK b \in Nat, k \in Nat : b = Base(p) + Rest(p) /\ k = Potential(p, q)
    BY <1>0, RestTyped, PotentialTyped DEF Listening
  <2>3. Early(script[p], b, k)
    BY <2>1, <2>2 DEF Listening, Budget
  <2>4. b + k < W
    <3>1. PICK s \in Seq(Operations) : s = script[p]
      BY <2>1
    <3>2. QED
      BY <2>1, <2>3, <3>1, EarlyGoesOn
  <2>5. b = tx_seq[p] /\ tx_seq[p] \in Nat
    BY <1>0, <2>1, <2>2 DEF Base, Rest, Typed, Keyed
  <2>6. QED
    BY <2>2, <2>4, <2>5, WAssumption
<1>4. job[p].op = "rekey" /\ job[p].acked => acks[p] = {}
  BY <1>0 DEF Delivered, Going, Pends
<1>5. QED
  BY <1>0, <1>1, <1>2, <1>3, <1>4 DEF Favoured

LEMMA FewerPings ==
    ASSUME NEW p \in Peers, IsFiniteSet(Pings(p)), Pings(p)' \subseteq Pings(p)
    PROVE  IsFiniteSet(Pings(p))' /\ Cardinality(Pings(p)') <= Cardinality(Pings(p))
<1>1. PICK S, T : S = Pings(p) /\ T = Pings(p)' /\ T \in SUBSET S
  OBVIOUS
<1>2. QED
  BY <1>1, FS_Subset

LEMMA OnePingLess ==
    ASSUME NEW p \in Peers, IsFiniteSet(Pings(p)), NEW h, h \in Pings(p),
           Pings(p)' \subseteq Pings(p) \ {h}
    PROVE  /\ IsFiniteSet(Pings(p))' /\ Cardinality(Pings(p)) \in Nat
           /\ Cardinality(Pings(p)') + 1 <= Cardinality(Pings(p))
<1>1. PICK S, g, T : S = Pings(p) /\ T = Pings(p)' /\ g = h /\ T \in SUBSET (S \ {g})
  OBVIOUS
<1>2. IsFiniteSet(S \ {g}) /\ Cardinality(S \ {g}) = Cardinality(S) - 1 /\ Cardinality(S) \in Nat
  BY <1>1, FS_RemoveElement, FS_CardinalityType
<1>3. IsFiniteSet(T) /\ Cardinality(T) <= Cardinality(S \ {g}) /\ Cardinality(T) \in Nat
  BY <1>1, <1>2, FS_Subset, FS_CardinalityType
<1>4. PICK a \in Nat, b \in Nat : a = Cardinality(S) /\ b = Cardinality(T) /\ b <= a - 1
  BY <1>2, <1>3
<1>5. b + 1 <= a
  BY <1>4
<1>6. QED
  BY <1>1, <1>3, <1>4, <1>5

LEMMA OnePingMore ==
    ASSUME NEW p \in Peers, IsFiniteSet(Pings(p)), NEW h, Pings(p)' \subseteq Pings(p) \union {h}
    PROVE  /\ IsFiniteSet(Pings(p))' /\ Cardinality(Pings(p)) \in Nat
           /\ Cardinality(Pings(p)') <= Cardinality(Pings(p)) + 1
<1>1. PICK S, g, T : S = Pings(p) /\ T = Pings(p)' /\ g = h /\ T \in SUBSET (S \union {g})
  OBVIOUS
<1>2. /\ IsFiniteSet(S \union {g}) /\ Cardinality(S) \in Nat
      /\ Cardinality(S \union {g}) = Cardinality(S) \/ Cardinality(S \union {g}) = Cardinality(S) + 1
  BY <1>1, FS_AddElement, FS_CardinalityType
<1>3. IsFiniteSet(T) /\ Cardinality(T) <= Cardinality(S \union {g}) /\ Cardinality(T) \in Nat
  BY <1>1, <1>2, FS_Subset, FS_CardinalityType
<1>4. PICK a \in Nat, b \in Nat : a = Cardinality(S) /\ b = Cardinality(T) /\ b <= a + 1
  <2>1. PICK n \in Nat : n = Cardinality(S) /\ Cardinality(S \union {g}) <= n + 1
    BY <1>2
  <2>2. PICK m \in Nat : m = Cardinality(T)
    BY <1>3
  <2>3. Cardinality(S \union {g}) \in Nat /\ m <= Cardinality(S \union {g})
    BY <1>2, <1>3, <2>2, FS_CardinalityType
  <2>4. m <= n + 1
    BY <2>1, <2>2, <2>3
  <2>5. QED
    BY <2>1, <2>2, <2>4
<1>5. QED
  BY <1>1, <1>3, <1>4

LEMMA OwnPotential ==
    ASSUME IInv, IInv', NEW q \in Peers, NEW p \in Peers, p = Other(q), Listening(p, q),
           Effects(p)
    PROVE  /\ Falls(p, q)
           /\ job'[p].op = "pong" /\ job[p].op # "pong" => Potential(p, q)' + 1 <= Potential(p, q)
<1>0. /\ Typed /\ Typed' /\ Other(p) = q /\ p # q /\ IsFiniteSet(Pings(p))
      /\ script'[q] = script[q]
  BY OtherFacts DEF IInv, Listening, Effects, Untouched
<1>1. PICK l \in Nat, c \in Nat : l = Len(script[q]) /\ c = Cardinality(Pings(p))
  BY <1>0, PotentialTyped
<1>2. Potential(p, q) = l + c + (IF Owes(p) THEN 1 ELSE 0)
  BY <1>1 DEF Potential
<1>3. ASSUME Pings(p)' \subseteq Pings(p)
      PROVE  /\ IsFiniteSet(Pings(p))'
             /\ \E d \in Nat : d <= c /\ Potential(p, q)' = l + d + (IF Owes(p)' THEN 1 ELSE 0)
  <2>1. IsFiniteSet(Pings(p))' /\ Cardinality(Pings(p)') <= Cardinality(Pings(p))
    BY <1>0, <1>3, FewerPings
  <2>2. Cardinality(Pings(p)') \in Nat
    BY <2>1, FS_CardinalityType
  <2>3. Potential(p, q)' = l + Cardinality(Pings(p)') + (IF Owes(p)' THEN 1 ELSE 0)
    BY <1>0, <1>1 DEF Potential
  <2>4. QED
    BY <1>1, <2>1, <2>2, <2>3
<1>9. ASSUME Pings(p)' \subseteq Pings(p), Owes(p)' => Owes(p) PROVE Falls(p, q)
  <2>1. PICK d \in Nat : d <= c /\ Potential(p, q)' = l + d + (IF Owes(p)' THEN 1 ELSE 0)
    BY <1>3, <1>9
  <2>2. PICK a \in Nat, b \in Nat : /\ a = (IF Owes(p) THEN 1 ELSE 0)
                                    /\ b = (IF Owes(p)' THEN 1 ELSE 0) /\ b <= a
    BY <1>9
  <2>3. l + d + b <= l + c + a
    BY <2>1, <2>2
  <2>4. QED
    BY <1>2, <1>3, <1>9, <2>1, <2>2, <2>3 DEF Falls
<1>4. CASE Sealing(p)
  <2>1. PICK o, f : /\ Asked(p, o, f) /\ job'[p].op = o /\ Around(p)' \subseteq Around(p)
                    /\ UNCHANGED <<gen, rx_seq, rx_window_bitmap, Pongs(p)>>
    BY <1>4 DEF Sealing
  <2>2. Pings(p)' \subseteq Pings(p)
    BY <2>1 DEF Pings, Alive, Dead
  <2>3. job[p].op # "pong"
    BY <2>1 DEF Asked, AskedControl, AskedMessage, AskedNext, ByScript, Ready, Idle
  <2>4. CASE o = "pong"
    <3>1. Pongs(p)
      BY <2>1, <2>4 DEF Asked, AskedControl, AskedMessage, AskedNext
    <3>2. Owes(p) /\ ~Owes(p)'
      BY <2>1, <2>3, <2>4, <3>1 DEF Owes
    <3>3. QED
      BY <1>1, <1>2, <1>3, <2>2, <3>2 DEF Falls
  <2>5. CASE o # "pong"
    <3>1. Owes(p)' <=> Owes(p)
      BY <2>1, <2>3, <2>5 DEF Owes
    <3>2. QED
      BY <1>1, <1>2, <1>3, <2>1, <2>2, <2>5, <3>1 DEF Falls
  <2>6. QED
    BY <2>4, <2>5
<1>5. ASSUME Lessens(p) PROVE Pings(p)' \subseteq Pings(p)
  BY <1>5 DEF Lessens, Pings, Alive
<1>6. CASE Resting(p)
  <2>1. Lessens(p) /\ (Owes(p)' => Owes(p)) /\ (job'[p].op = "pong" => job[p].op = "pong")
    BY <1>6 DEF Resting
  <2>2. QED
    BY <1>5, <1>9, <2>1
<1>7. CASE Taking(p)
  <2>1. PICK h \in Around(p) : Owes(p)' => Owes(p) \/ (h.type = "PING" /\ ~Dead(p, h) /\ Dead(p, h)')
    BY <1>7 DEF Taking
  <2>2. Lessens(p) /\ job'[p] = job[p]
    BY <1>7 DEF Taking
  <2>3. CASE Owes(p)' => Owes(p)
    BY <1>5, <1>9, <2>2, <2>3
  <2>4. CASE h.type = "PING" /\ ~Dead(p, h) /\ Dead(p, h)'
    <3>1. h \in Pings(p) /\ Pings(p)' \subseteq Pings(p) \ {h}
      BY <1>5, <2>1, <2>2, <2>4 DEF Pings, Alive
    <3>2. /\ IsFiniteSet(Pings(p))' /\ Cardinality(Pings(p)') + 1 <= c
      BY <1>0, <1>1, <3>1, OnePingLess
    <3>3. Cardinality(Pings(p)') \in Nat
      BY <3>2, FS_CardinalityType
    <3>4. Potential(p, q)' = l + Cardinality(Pings(p)') + (IF Owes(p)' THEN 1 ELSE 0)
      BY <1>0, <1>1 DEF Potential
    <3>5. QED
      BY <1>1, <1>2, <2>2, <3>2, <3>3, <3>4 DEF Falls
  <2>5. QED
    BY <2>1, <2>3, <2>4
<1>8. QED
  BY <1>4, <1>6, <1>7 DEF Effects

LEMMA PeerPotential ==
    ASSUME IInv, IInv', NEW q \in Peers, NEW p \in Peers, p = Other(q), Listening(p, q),
           Effects(q)
    PROVE  Falls(p, q)
<1>0. /\ Typed /\ Typed' /\ p # q /\ IsFiniteSet(Pings(p))
      /\ UNCHANGED <<job[p], gen[p], rx_seq[p], rx_window_bitmap[p], Pongs(p)>>
  BY OtherFacts DEF IInv, Listening, Effects, Untouched
<1>1. PICK l \in Nat, c \in Nat : l = Len(script[q]) /\ c = Cardinality(Pings(p))
  BY <1>0, PotentialTyped
<1>2. PICK e \in Nat : e = (IF Owes(p) THEN 1 ELSE 0) /\ e = (IF Owes(p)' THEN 1 ELSE 0)
  BY <1>0 DEF Owes
<1>3. Potential(p, q) = l + c + e
  BY <1>1, <1>2 DEF Potential
<1>4. Potential(p, q)' = Len(script'[q]) + Cardinality(Pings(p)') + e
  BY <1>2 DEF Potential
<1>5. ASSUME Pings(p)' \subseteq Pings(p), script'[q] = script[q] PROVE Falls(p, q)
  <2>1. IsFiniteSet(Pings(p))' /\ Cardinality(Pings(p)') <= Cardinality(Pings(p))
    BY <1>0, <1>5, FewerPings
  <2>2. Cardinality(Pings(p)') \in Nat
    BY <2>1, FS_CardinalityType
  <2>3. QED
    BY <1>1, <1>3, <1>4, <1>5, <2>1, <2>2 DEF Falls
<1>6. \A f : Dead(p, f)' <=> Dead(p, f)
  BY <1>0 DEF Dead
<1>7. CASE Sealing(q)
  <2>1. PICK o, f : /\ Asked(q, o, f) /\ Around(p)' \subseteq Around(p) \union {f}
    BY <1>7 DEF Sealing
  <2>2. AskedControl(q, o, f)
    <3>1. ~Ready(q, "send") /\ job[q].op # "send"
      BY <1>0, ReadyCalls DEF Listening
    <3>2. QED
      BY <2>1, <3>1 DEF Asked, AskedMessage, AskedNext, ByScript
  <2>3. CASE o = "pong"
    <3>1. f.type = "PONG" /\ script'[q] = script[q]
      BY <2>2, <2>3 DEF AskedControl, ControlOf
    <3>2. Pings(p)' \subseteq Pings(p)
      BY <1>6, <2>1, <3>1 DEF Pings, Alive
    <3>3. QED
      BY <1>5, <3>1, <3>2
  <2>4. CASE o # "pong"
    <3>1. script'[q] = Tail(script[q]) /\ script[q] # <<>>
      BY <2>2, <2>4 DEF AskedControl, ByScript, Ready
    <3>2. Len(script'[q]) + 1 = l
      <4>1. script[q] \in Seq(Operations)
        BY <1>0 DEF Typed, Running
      <4>2. QED
        BY <1>1, <3>1, <4>1, TailFacts
    <3>3. Pings(p)' \subseteq Pings(p) \union {f}
      BY <1>6, <2>1 DEF Pings, Alive
    <3>4. IsFiniteSet(Pings(p))' /\ Cardinality(Pings(p)') <= c + 1
      BY <1>0, <1>1, <3>3, OnePingMore
    <3>5. Cardinality(Pings(p)') \in Nat /\ Len(script'[q]) \in Nat
      <4>1. script'[q] \in Seq(Operations)
        BY <1>0 DEF Typed, Running
      <4>2. QED
        BY <3>4, <4>1, FS_CardinalityType
    <3>6. QED
      BY <1>1, <1>3, <1>4, <3>2, <3>4, <3>5 DEF Falls
  <2>5. QED
    BY <2>3, <2>4
<1>8. CASE Resting(q) \/ Taking(q)
  <2>1. Lessens(q) /\ Other(q) = p
    BY <1>8 DEF Resting, Taking
  <2>2. Pings(p)' \subseteq Pings(p) /\ script'[q] = script[q]
    BY <1>6, <2>1 DEF Lessens, Pings, Alive
  <2>3. QED
    BY <1>5, <2>2
<1>9. QED
  BY <1>7, <1>8 DEF Effects

(* The budget, with less to answer and the next operation no later.          *)
LEMMA BudgetShifts ==
    ASSUME IInv, IInv', NEW q \in Peers, NEW p \in Peers, Falls(p, q), IsFiniteSet(Pings(p)),
           NEW b \in Nat, NEW c \in Nat, c = Base(p)' + Rest(p)',
           Early(script'[p], b, Potential(p, q)),
           c + Potential(p, q)' <= b + Potential(p, q)
    PROVE  Early(script'[p], Base(p)' + Rest(p)', Potential(p, q)')
<1>1. Potential(p, q) \in Nat
  BY PotentialTyped DEF IInv
<1>2. Potential(p, q)' \in Nat
  <2>1. Len(script'[q]) \in Nat
    BY DEF IInv, Typed, Running
  <2>2. Cardinality(Pings(p)') \in Nat
    BY FS_CardinalityType DEF Falls
  <2>3. QED
    BY <2>1, <2>2 DEF Potential
<1>3. PICK s \in Seq(Operations), k \in Nat, l \in Nat :
             s = script'[p] /\ k = Potential(p, q) /\ l = Potential(p, q)'
  BY <1>1, <1>2 DEF IInv, Typed, Running
<1>4. l <= k /\ c + l <= b + k /\ Early(s, b, k)
  BY <1>3 DEF Falls
<1>5. Early(s, c, l)
  BY <1>4, EarlyShifts
<1>6. QED
  BY <1>3, <1>5

LEMMA OwnBudget ==
    ASSUME IInv, IInv', NEW q \in Peers, NEW p \in Peers, p = Other(q), Listening(p, q),
           Effects(p), Budget(p, q)
    PROVE  Budget(p, q)'
<1>0. /\ Typed /\ Typed' /\ Falls(p, q) /\ IsFiniteSet(Pings(p)) /\ tx_seq[p] \in Nat
      /\ script[p] \in Seq(Operations) /\ tx_seq'[p] \in Nat
  BY OwnPotential DEF IInv, Listening, Typed, Keyed, Running
<1>1. SUFFICES ASSUME up'[p]
               PROVE  Early(script'[p], Base(p)' + Rest(p)', Potential(p, q)')
  BY DEF Budget
<1>2. up[p]
  BY <1>1 DEF Effects, Sealing, Resting, Taking, Lessens
<1>3. PICK b \in Nat, k \in Nat, s \in Seq(Operations) :
             b = Base(p) + Rest(p) /\ k = Potential(p, q) /\ s = script[p]
  BY <1>0, RestTyped, PotentialTyped
<1>4. Early(s, b, k)
  BY <1>2, <1>3 DEF Budget
<1>5. PICK c \in Nat, l \in Nat : c = Base(p)' + Rest(p)' /\ l = Potential(p, q)' /\ l <= k
  <2>1. Base(p)' \in Nat /\ Rest(p)' \in Nat
    <3>1. Base(p)' \in Nat
      BY <1>0 DEF Base
    <3>2. Rest(p)' \in Nat
      <4>1. CASE job'[p].op = "send"
        <5>1. PICK n \in 1 .. MaxFrags, i \in 1 .. MaxFrags :
                     /\ i <= n /\ sent'[p][Len(sent'[p])] = Message(p, Len(sent'[p]), n)
                     /\ job'[p].frame.data = <<p, Len(sent'[p]), i>>
          BY <4>1, UdpSessionAssumption DEF IInv, JobFits
        <5>2. Len(sent'[p][Len(sent'[p])]) = n
          BY <5>1, UdpSessionAssumption DEF Message
        <5>3. job'[p].frame.data[3] = i
          BY <5>1
        <5>4. n - i \in Nat
          BY <5>1, UdpSessionAssumption
        <5>5. QED
          BY <4>1, <5>2, <5>3, <5>4 DEF Rest
      <4>2. QED
        BY <4>1 DEF Rest
    <3>3. QED
      BY <3>1, <3>2
  <2>2. Potential(p, q)' \in Nat
    <3>1. Len(script'[q]) \in Nat /\ Cardinality(Pings(p)') \in Nat
      BY <1>0, FS_CardinalityType DEF Falls, Typed, Running
    <3>2. QED
      BY <3>1 DEF Potential
  <2>3. QED
    BY <1>0, <1>3, <2>1, <2>2 DEF Falls
(* Enough: the rest of the script is early from some d on.                   *)
<1>6. ASSUME NEW d \in Nat, Early(script'[p], d, k), c + l <= d + k
      PROVE  Early(script'[p], Base(p)' + Rest(p)', Potential(p, q)')
  BY <1>0, <1>3, <1>5, <1>6, BudgetShifts
<1>7. CASE Sealing(p)
  <2>1. PICK o, f : /\ Asked(p, o, f) /\ job'[p].op = o /\ job'[p].frame = f
                    /\ tx_seq'[p] = tx_seq[p] + 1
    BY <1>7 DEF Sealing
  <2>2. ASSUME ByScript(p, o)
        PROVE  /\ b = tx_seq[p] /\ script'[p] = Tail(s) /\ Head(s).op = o /\ s # <<>>
               /\ job[p].op = "none"
               /\ IF o = "rekey" THEN Early(script'[p], 0, k)
                  ELSE FramesOf(Head(s)) \in Nat /\ Early(script'[p], b + FramesOf(Head(s)), k)
    <3>1. /\ job[p].op = "none" /\ script'[p] = Tail(s) /\ Head(s).op = o /\ s # <<>>
      BY <1>3, <2>2 DEF ByScript, Ready, Idle
    <3>2. b = tx_seq[p]
      BY <1>0, <1>3, <3>1 DEF Base, Rest
    <3>3. Head(s) \in Operations
      BY <3>1
    <3>4. FramesOf(Head(s)) \in Nat
      BY <3>3, FramesTyped
    <3>5. QED
      BY <1>4, <3>1, <3>2, <3>4, EarlyGoesOn
  <2>3. CASE AskedControl(p, o, f) /\ o = "rekey"
    <3>1. ByScript(p, o) /\ c = 0
      BY <1>5, <2>1, <2>3 DEF AskedControl, Base, Rest
    <3>2. Early(script'[p], 0, k)
      BY <2>2, <2>3, <3>1
    <3>3. QED
      BY <1>5, <1>6, <3>1, <3>2
  <2>4. CASE AskedControl(p, o, f) /\ o \in {"ping", "bye"}
    <3>1. ByScript(p, o) /\ c = tx_seq[p] + 1
      BY <1>0, <1>5, <2>1, <2>4 DEF AskedControl, Base, Rest
    <3>2. FramesOf(Head(s)) = 1
      BY <2>2, <2>4, <3>1 DEF FramesOf
    <3>3. Early(script'[p], c, k)
      BY <2>2, <2>4, <3>1, <3>2
    <3>4. QED
      BY <1>5, <1>6, <3>3
  <2>5. CASE AskedControl(p, o, f) /\ o = "pong"
    <3>1. job[p].op = "none" /\ script'[p] = script[p] /\ job'[p].op = "pong"
      BY <2>1, <2>5 DEF AskedControl
    <3>2. l + 1 <= k
      BY <1>3, <1>5, <3>1, OwnPotential
    <3>3. b = tx_seq[p] /\ c = tx_seq[p] + 1
      BY <1>0, <1>3, <1>5, <2>1, <3>1 DEF Base, Rest
    <3>4. c + l <= b + k
      BY <1>0, <3>2, <3>3
    <3>5. QED
      BY <1>3, <1>4, <1>6, <3>1, <3>4
  <2>6. CASE AskedMessage(p, o, f)
    <3>1. /\ ByScript(p, o) /\ o = "send" /\ f.data = <<p, Len(sent[p]) + 1, 1>>
          /\ sent'[p] = Append(sent[p], Message(p, Len(sent[p]) + 1, Head(s).frags))
      BY <1>3, <2>6 DEF AskedMessage
    <3>2. PICK n \in 1 .. MaxFrags : n = Head(s).frags /\ FramesOf(Head(s)) = n
      <4>1. Head(s) \in Operations /\ Head(s).op = "send"
        BY <2>2, <3>1
      <4>2. Head(s).frags \in 1 .. MaxFrags
        BY <4>1 DEF Operations
      <4>3. QED
        BY <4>1, <4>2 DEF FramesOf
    <3>3. Len(sent'[p][Len(sent'[p])]) = n
      <4>1. sent[p] \in Seq(Seq(Fragments))
        BY <1>0 DEF Typed, Told
      <4>2. PICK m \in Nat, t \in Seq(Seq(Fragments)) : m = Len(sent[p]) /\ t = sent[p]
        BY <4>1
      <4>3. PICK g : g = Message(p, m + 1, n) /\ Len(g) = n
        <5>1. n \in Nat
          BY UdpSessionAssumption
        <5>2. Message(p, m + 1, n) = [i \in 1 .. n |-> <<p, m + 1, i>>]
          BY DEF Message
        <5>3. Len([i \in 1 .. n |-> <<p, m + 1, i>>]) = n
          BY <5>1
        <5>4. QED
          BY <5>2, <5>3
      <4>4. sent'[p] = Append(t, g)
        BY <3>1, <3>2, <4>2, <4>3
      <4>5. Len(sent'[p]) = m + 1 /\ sent'[p][m + 1] = g
        BY <4>2, <4>4
      <4>6. QED
        BY <4>3, <4>5
    <3>4. Rest(p)' = n - 1
      BY <2>1, <3>1, <3>3 DEF Rest
    <3>5. c = tx_seq[p] + n
      <4>1. Base(p)' = tx_seq[p] + 1
        BY <2>1, <3>1 DEF Base
      <4>2. n \in Nat
        BY UdpSessionAssumption
      <4>3. QED
        BY <1>0, <1>5, <3>4, <4>1, <4>2
    <3>6. Early(script'[p], c, k)
      BY <2>2, <3>1, <3>2, <3>5
    <3>7. QED
      BY <1>5, <1>6, <3>6
  <2>7. CASE AskedNext(p, o, f)
    <3>1. /\ o = "send" /\ job[p].op = "send" /\ UNCHANGED <<script[p], sent[p]>>
          /\ f.data[3] = job[p].frame.data[3] + 1
      BY <2>7 DEF AskedNext
    <3>2. c = b
      <4>0. PICK r \in 1 .. MaxFrags, j \in 1 .. MaxFrags :
                   job[p].frame.data = <<p, Len(sent[p]), j>>
        BY <3>1, UdpSessionAssumption DEF IInv, JobFits
      <4>1. PICK n, i \in Nat : n = Len(sent[p][Len(sent[p])]) /\ i = job[p].frame.data[3]
        <5>1. job[p].frame.data[3] = j /\ j \in Nat
          BY <4>0, UdpSessionAssumption
        <5>2. sent[p] \in Seq(Seq(Fragments)) /\ Len(sent[p]) # 0
          BY <1>0, <3>1 DEF IInv, JobFits, Typed, Told
        <5>3. sent[p][Len(sent[p])] \in Seq(Fragments)
          BY <5>2
        <5>4. Len(sent[p][Len(sent[p])]) \in Nat
          BY <5>3
        <5>5. QED
          BY <5>1, <5>4
      <4>2. Rest(p) = n - i /\ Rest(p)' = n - (i + 1)
        BY <2>1, <3>1, <4>1 DEF Rest
      <4>3. Base(p) = tx_seq[p] /\ Base(p)' = tx_seq[p] + 1
        BY <2>1, <3>1 DEF Base
      <4>5. PICK t \in Nat : t = tx_seq[p]
        BY <1>0
      <4>6. b = t + (n - i) /\ c = (t + 1) + (n - (i + 1))
        BY <1>3, <1>5, <4>2, <4>3, <4>5
      <4>7. (t + 1) + (n - (i + 1)) = t + (n - i)
        OBVIOUS
      <4>8. QED
        BY <4>6, <4>7
    <3>3. c + l <= b + k
      BY <1>5, <3>2
    <3>4. Early(script'[p], b, k)
      BY <1>3, <1>4, <3>1
    <3>5. QED
      BY <1>6, <3>3, <3>4
  <2>8. QED
    BY <2>1, <2>3, <2>4, <2>5, <2>6, <2>7 DEF Asked, AskedControl
<1>8. CASE Resting(p)
  <2>0. /\ script'[p] = s /\ sent'[p] = sent[p] /\ Base(p) \in Nat /\ Rest(p) \in Nat
    BY <1>3, <1>8, RestTyped DEF Resting, Lessens
  <2>1. c <= b
    <3>1. CASE job'[p].op = job[p].op /\ job'[p].frame = job[p].frame
      <4>1. Rest(p)' = Rest(p)
        BY <2>0, <3>1 DEF Rest
      <4>2. Base(p)' = Base(p)
        BY <1>8, <3>1 DEF Resting, Base
      <4>3. QED
        BY <1>3, <1>5, <4>1, <4>2
    <3>2. CASE job'[p].op = "none" /\ EndsWell(p)
      <4>1. Rest(p)' = 0
        BY <3>2 DEF Rest
      <4>2. Base(p)' <= Base(p)
        <5>1. CASE job[p].op = "rekey"
          <6>1. gen'[p] # gen[p]
            BY <1>1, <3>2, <5>1 DEF EndsWell
          <6>2. tx_seq'[p] = 0
            BY <1>8, <6>1 DEF Resting
          <6>3. QED
            BY <2>0, <3>2, <5>1, <6>2 DEF Base
        <5>2. CASE job[p].op # "rekey"
          BY <1>0, <1>8, <3>2, <5>2 DEF Resting, Base
        <5>3. QED
          BY <5>1, <5>2
      <4>3. Base(p)' \in Nat
        BY <1>0, <3>2 DEF Base
      <4>4. QED
        BY <1>3, <1>5, <2>0, <4>1, <4>2, <4>3
    <3>3. QED
      BY <1>8, <3>1, <3>2 DEF Resting
  <2>2. QED
    BY <1>4, <1>5, <1>6, <2>0, <2>1
<1>9. CASE Taking(p)
  <2>1. PICK h \in Around(p) : (gen'[p] = gen[p] /\ tx_seq'[p] = tx_seq[p]) \/ h.type = "REKEY"
    BY <1>9 DEF Taking
  <2>2. UNCHANGED <<job[p], script[p], sent[p], tx_seq[p]>>
    BY <1>9, <2>1 DEF Taking, Lessens, Listening
  <2>3. c = b
    BY <1>3, <1>5, <2>2 DEF Base, Rest
  <2>4. QED
    BY <1>3, <1>4, <1>5, <1>6, <2>2, <2>3
<1>10. QED
  BY <1>7, <1>8, <1>9 DEF Effects

LEMMA BudgetStep ==
    ASSUME IInv, IInv', NEW q \in Peers, NEW p \in Peers, p = Other(q), Listening(p, q),
           NEW x \in Peers, Effects(x)
    PROVE  IsFiniteSet(Pings(p))' /\ Budget(p, q)'
<1>0. Budget(p, q) /\ (x = p \/ x = q) /\ IsFiniteSet(Pings(p)) /\ q # p
  BY OtherFacts DEF Listening
<1>1. CASE x = p
  <2>1. Effects(p)
    BY <1>1
  <2>2. QED
    BY <1>0, <2>1, OwnPotential, OwnBudget DEF Falls
<1>2. CASE x = q
  <2>1. Effects(q)
    BY <1>2
  <2>2. Falls(p, q)
    BY <2>1, PeerPotential
  <2>3. UNCHANGED <<job[p], script[p], sent[p], tx_seq[p], up[p]>>
    BY <2>1 DEF Effects, Untouched
  <2>4. PICK b \in Nat : b = Base(p) + Rest(p)
    BY RestTyped
  <2>5. b = Base(p)' + Rest(p)'
    BY <2>3, <2>4 DEF Base, Rest
  <2>6. Potential(p, q) \in Nat /\ Potential(p, q)' <= Potential(p, q) /\ Potential(p, q)' \in Nat
    <3>1. Potential(p, q) \in Nat
      BY <1>0, PotentialTyped DEF IInv
    <3>2. Len(script'[q]) \in Nat /\ Cardinality(Pings(p)') \in Nat
      BY <2>2, FS_CardinalityType DEF Falls, IInv, Typed, Running
    <3>3. QED
      BY <2>2, <3>1, <3>2 DEF Falls, Potential
  <2>7. ASSUME up'[p] PROVE Early(script'[p], Base(p)' + Rest(p)', Potential(p, q)')
    <3>1. Early(script'[p], b, Potential(p, q))
      BY <1>0, <2>3, <2>4, <2>7 DEF Budget
    <3>2. b + Potential(p, q)' <= b + Potential(p, q)
      BY <2>6
    <3>3. QED
      BY <1>0, <2>2, <2>5, <3>1, <3>2, BudgetShifts
  <2>8. Budget(p, q)'
    BY <2>7 DEF Budget
  <2>9. QED
    BY <2>2, <2>8 DEF Falls
<1>3. QED
  BY <1>0, <1>1, <1>2

(* What a listener sends.                                                    *)
LEMMA ListenerSeals ==
    ASSUME IInv, NEW q \in Peers, NEW p \in Peers, Listening(p, q), NEW o, NEW f, Asked(q, o, f)
    PROVE  /\ AskedControl(q, o, f) /\ o \in {"ping", "pong", "bye"}
           /\ f.type \in {"PING", "PONG", "BYE"} /\ sent'[q] = sent[q]
<1>1. ~Ready(q, "send") /\ ~Ready(q, "rekey") /\ job[q].op # "send"
  BY ReadyCalls DEF Listening, IInv
<1>2. AskedControl(q, o, f)
  BY <1>1 DEF Asked, AskedMessage, AskedNext, ByScript
<1>3. o \in {"ping", "pong", "bye"}
  BY <1>1, <1>2 DEF AskedControl, ByScript
<1>4. QED
  BY <1>2, <1>3 DEF AskedControl, ControlOf

LEMMA QuietStays ==
    ASSUME IInv, NEW q \in Peers, NEW p \in Peers, p = Other(q), Listening(p, q),
           NEW x \in Peers, Effects(x), InC(q)
    PROVE  Unasked(p, q)'
<1>0. /\ Typed /\ Unasked(p, q) /\ (x = p \/ x = q) /\ q # p /\ q = Other(p) /\ q = "B"
      /\ job[q].op = "none"
  BY OtherFacts DEF IInv, Listening, InC, Unasked
<1>1. slot' = Empty
  <2>1. slot' = slot \/ slot' = Empty \/ job["B"].op # "none"
    BY DEF Effects
  <2>2. QED
    BY <1>0, <2>1 DEF Unasked
<1>2. Without(p, "ping")'
  BY <1>0, WithoutStays DEF Unasked
<1>3. CASE x = q
  <2>1. ~Sealing(q)
    <3>1. SUFFICES ASSUME Sealing(q) PROVE FALSE
      OBVIOUS
    <3>2. PICK o, f : Asked(q, o, f)
      BY <3>1 DEF Sealing
    <3>3. AskedControl(q, o, f)
      BY <3>2, ListenerSeals
    <3>4. ~Pongs(q) /\ script[q] = <<>>
      BY <1>0 DEF Unasked, Owes
    <3>5. QED
      BY <3>3, <3>4 DEF AskedControl, ByScript, Ready
  <2>2. Lessens(q) /\ (job'[q].op = "none")
    BY <1>0, <1>3, <2>1 DEF Effects, Resting, Taking
  <2>3. ~Owes(q)'
    <3>1. CASE Resting(q)
      BY <1>0, <3>1 DEF Resting, Unasked
    <3>2. CASE Taking(q)
      <4>1. PICK h \in Around(q) : Owes(q)' => Owes(q) \/ h.type = "PING"
        BY <3>2 DEF Taking
      <4>2. QED
        BY <1>0, <4>1 DEF Unasked
    <3>3. QED
      BY <1>3, <2>1, <3>1, <3>2 DEF Effects
  <2>4. QED
    BY <1>0, <1>1, <1>2, <2>2, <2>3 DEF Lessens, Unasked
<1>4. CASE x = p
  <2>1. UNCHANGED <<script[q], job[q], Pongs(q)>>
    BY <1>0, <1>4 DEF Effects, Untouched
  <2>2. ASSUME NEW f \in Around(q)' PROVE f.type # "PING"
    <3>1. CASE Sealing(p)
      <4>1. PICK o, g : Asked(p, o, g) /\ Around(q)' \subseteq Around(q) \union {g}
        BY <1>0, <3>1 DEF Sealing
      <4>2. ~Ready(p, "ping")
        BY <1>0, ReadyCalls DEF Unasked
      <4>3. g.type # "PING"
        BY <4>1, <4>2 DEF Asked, AskedControl, ControlOf, AskedMessage, AskedNext, ByScript,
                          Fragment, DataTypes
      <4>4. QED
        BY <1>0, <2>2, <4>1, <4>3 DEF Unasked
    <3>2. CASE Resting(p) \/ Taking(p)
      BY <1>0, <2>2, <3>2 DEF Resting, Taking, Lessens, Unasked
    <3>3. QED
      BY <1>4, <3>1, <3>2 DEF Effects
  <2>3. QED
    BY <1>0, <1>1, <1>2, <2>1, <2>2 DEF Unasked, Owes
<1>5. QED
  BY <1>0, <1>3, <1>4

LEMMA ListeningStep ==
    ASSUME IInv, IInv', Settled, CNext, ~interrupts, NEW q \in Peers, NEW p \in Peers,
           p = Other(q), Listening(p, q), Prefix(p)
    PROVE  /\ Listening(p, q)' /\ Prefix(p)' /\ Prefix(q)' /\ UNCHANGED got[q]
           /\ UNCHANGED got[p] \/ GivesOne(p)
<1>0. /\ Typed /\ Typed' /\ q = Other(p) /\ q # p /\ sent[q] = <<>> /\ got[q] = <<>> /\ timely
      /\ Delivered(p, q) /\ (InC(q) => slot = Empty) /\ (InC(q) => Unasked(p, q))
  BY OtherFacts DEF IInv, Listening, Unasked
<1>1. PICK x \in Peers : Effects(x)
  BY StepEffects
<1>2. x = p \/ x = q
  BY OtherFacts
<1>3. Prefix(p)' /\ (up'[q] => Linked(p, q)') /\ (UNCHANGED got[p] \/ GivesOne(p))
  BY ListeningFavours, LinkStep
<1>4. timely' /\ (InC(q)' => InC(q))
  BY <1>0, <1>1 DEF Effects, InC
<1>5. Without(q, "send")' /\ Without(q, "rekey")'
  BY <1>0, <1>1, WithoutStays DEF Listening
<1>6. IsFiniteSet(Pings(p))' /\ Budget(p, q)'
  BY <1>1, BudgetStep
<1>7. Delivered(p, q)'
  <2>1. Carrying(p, q)
    BY <1>0, StepCarries
  <2>2. up'[p] => up[p]
    BY <1>0, <1>1, UpFalls
  <2>3. QED
    BY <1>0, <2>1, <2>2, DeliveredKept
<1>8. /\ job'[q].op \in {"none", "ping", "pong", "bye"}
      /\ \A f \in Around(p)' : f.type \in {"PING", "PONG", "BYE"}
  <2>1. CASE x = p
    <3>1. job'[q] = job[q]
      BY <1>0, <1>1, <2>1 DEF Effects, Untouched
    <3>2. Around(p)' \subseteq Around(p)
      BY <1>1, <2>1 DEF Effects, Sealing, Resting, Taking, Lessens
    <3>3. QED
      BY <3>1, <3>2 DEF Listening
  <2>2. CASE x = q /\ Sealing(q)
    <3>1. PICK o, f : Asked(q, o, f) /\ job'[q].op = o /\ Around(p)' \subseteq Around(p) \union {f}
      BY <2>2 DEF Sealing
    <3>2. o \in {"ping", "pong", "bye"} /\ f.type \in {"PING", "PONG", "BYE"}
      BY <3>1, ListenerSeals
    <3>3. QED
      BY <3>1, <3>2 DEF Listening
  <2>3. CASE x = q /\ (Resting(q) \/ Taking(q))
    <3>1. job'[q].op = job[q].op \/ job'[q].op = "none"
      BY <2>3 DEF Resting, Taking
    <3>2. Around(p)' \subseteq Around(p)
      BY <2>3 DEF Resting, Taking, Lessens
    <3>3. QED
      BY <3>1, <3>2 DEF Listening
  <2>4. QED
    BY <1>1, <1>2, <2>1, <2>2, <2>3 DEF Effects
<1>9. sent'[q] = <<>>
  <2>1. ASSUME x = q, SendsOne(q) PROVE FALSE
    BY <1>0, <2>1, ReadyCalls DEF SendsOne, Listening
  <2>2. QED
    BY <1>0, <1>1, <2>1, SentChanges
<1>10. got'[q] = got[q]
  <2>1. CASE x = q
    BY <1>0, <1>1, <2>1 DEF Effects, Untouched
  <2>2. CASE x = p
    <3>1. \A h \in Around(p) : ~Fragment(h)
      BY DEF Listening, Fragment, DataTypes
    <3>2. got' = got
      BY <1>1, <2>2, <3>1 DEF Effects, Sealing, Resting, Taking
    <3>3. QED
      BY <3>2
  <2>3. QED
    BY <1>2, <2>1, <2>2
<1>11. Prefix(q)'
  BY <1>0, <1>10 DEF Prefix
<1>12. InC(q)' => Unasked(p, q)'
  BY <1>1, <1>4, QuietStays
<1>13. QED
  BY <1>0, <1>3, <1>4, <1>5, <1>6, <1>7, <1>8, <1>9, <1>10, <1>11, <1>12 DEF Listening

-----------------------------------------------------------------------------
(* What a script still sends, and the whole invariant *)

LEMMA SendsFacts ==
    ASSUME NEW s \in Seq(Operations)
    PROVE  /\ Sends(s) \in Nat
           /\ s # <<>> => Sends(Tail(s)) <= Sends(s)
           /\ s # <<>> /\ Head(s).op = "send" => Sends(Tail(s)) + 1 <= Sends(s)
<1> DEFINE S(u) == {i \in DOMAIN u : u[i].op = "send"}
<1>1. \A u \in Seq(Operations) : IsFiniteSet(S(u)) /\ Sends(u) \in Nat /\ Sends(u) = Cardinality(S(u))
  <2>1. TAKE u \in Seq(Operations)
  <2>2. 1 \in Int /\ Len(u) \in Int /\ S(u) \subseteq 1 .. Len(u)
    OBVIOUS
  <2>3. IsFiniteSet(1 .. Len(u)) /\ S(u) \subseteq 1 .. Len(u)
    BY <2>2, FS_Interval
  <2>4. IsFiniteSet(S(u))
    BY <2>3, FS_Subset
  <2>5. QED
    BY <2>4, FS_CardinalityType DEF Sends
<1>2. ASSUME s # <<>>
      PROVE  /\ Sends(Tail(s)) <= Sends(s)
             /\ Head(s).op = "send" => Sends(Tail(s)) + 1 <= Sends(s)
  <2>1. /\ Tail(s) \in Seq(Operations) /\ Head(s) = s[1] /\ 1 \in DOMAIN s
        /\ \A i \in DOMAIN Tail(s) : i \in Nat \ {0} /\ i + 1 \in DOMAIN s /\ Tail(s)[i] = s[i + 1]
    BY <1>2
  <2>2. PICK f : f = [i \in S(Tail(s)) |-> i + 1]
    OBVIOUS
  <2>3. f \in Injection(S(Tail(s)), S(s) \ {1})
    <3>1. \A i \in S(Tail(s)) : i + 1 \in S(s) \ {1}
      BY <2>1
    <3>2. f \in [S(Tail(s)) -> S(s) \ {1}]
      BY <2>2, <3>1
    <3>3. \A i, j \in S(Tail(s)) : f[i] = f[j] => i = j
      BY <2>1, <2>2
    <3>4. QED
      BY <3>2, <3>3 DEF Injection, IsInjective
  <2>4. IsFiniteSet(S(s)) /\ IsFiniteSet(S(s) \ {1})
    BY <1>1, FS_RemoveElement
  <2>5. Sends(Tail(s)) <= Cardinality(S(s) \ {1})
    <3>1. Cardinality(S(Tail(s))) <= Cardinality(S(s) \ {1})
      <4> HIDE DEF S
      <4>1. QED
        BY <2>3, <2>4, FS_Injection
    <3>2. Sends(Tail(s)) = Cardinality(S(Tail(s)))
      BY <2>1 DEF Sends
    <3>3. QED
      BY <3>1, <3>2
  <2>6. Cardinality(S(s) \ {1}) = IF 1 \in S(s) THEN Cardinality(S(s)) - 1 ELSE Cardinality(S(s))
    BY <2>4, FS_RemoveElement
  <2>7. Cardinality(S(s)) = Sends(s) /\ Sends(s) \in Nat /\ Sends(Tail(s)) \in Nat
    BY <1>1, <2>1
  <2>8. Head(s).op = "send" => 1 \in S(s)
    BY <2>1
  <2>9. QED
    BY <2>5, <2>6, <2>7, <2>8
<1>3. QED
  BY <1>1, <1>2

LEMMA SentWithinStep ==
    ASSUME IInv, IInv', SentWithin, NEW x \in Peers, Effects(x)
    PROVE  SentWithin'
<1>0. /\ \A z \in Peers : script[z] \in Seq(Operations) /\ script'[z] \in Seq(Operations)
      /\ \A z \in Peers : sent[z] \in Seq(Seq(Fragments)) /\ MaxMsgs \in Nat
  BY ScriptsAssumption DEF IInv, Typed, Running, Told
<1>1. ASSUME NEW z \in Peers PROVE Len(sent'[z]) + Sends(script'[z]) <= MaxMsgs
  <2>1. /\ Len(sent[z]) \in Nat /\ Sends(script[z]) \in Nat /\ Sends(script'[z]) \in Nat
        /\ Len(sent[z]) + Sends(script[z]) <= MaxMsgs
    BY <1>0, SendsFacts DEF SentWithin
  <2>2. CASE sent'[z] = sent[z]
    <3>1. Sends(script'[z]) <= Sends(script[z])
      <4>1. CASE script'[z] = script[z]
        BY <2>1, <4>1
      <4>2. CASE script[z] # <<>> /\ script'[z] = Tail(script[z])
        BY <1>0, <4>2, SendsFacts
      <4>3. QED
        BY <4>1, <4>2, ScriptChanges
    <3>2. QED
      BY <1>0, <2>1, <2>2, <3>1
  <2>3. CASE z = x /\ SendsOne(x)
    <3>1. PICK n \in 1 .. MaxFrags :
                 /\ Ready(z, "send") /\ script'[z] = Tail(script[z])
                 /\ sent'[z] = Append(sent[z], Message(z, Len(sent[z]) + 1, n))
      BY <2>3 DEF SendsOne
    <3>2. Sends(script'[z]) + 1 <= Sends(script[z])
      BY <1>0, <3>1, SendsFacts DEF Ready
    <3>3. Len(sent'[z]) = Len(sent[z]) + 1
      <4>1. PICK m : m = Message(z, Len(sent[z]) + 1, n)
        OBVIOUS
      <4>2. sent'[z] = Append(sent[z], m)
        BY <3>1, <4>1
      <4>3. QED
        BY <1>0, <4>2
    <3>4. QED
      BY <1>0, <2>1, <3>2, <3>3
  <2>4. QED
    BY <2>2, <2>3, SentChanges
<1>2. QED
  BY <1>1 DEF SentWithin

LEMMA InitFresh == CInit => Unstarted
<1> SUFFICES ASSUME CInit PROVE Unstarted
  OBVIOUS
<1>1. \/ InitWith(Scripts, TimelyScripts, InterruptedScripts)
      \/ InitWith(CScripts, CTimelyScripts, {})
  BY DEF CInit, Init
<1>2. call = NotCalled /\ slot = Empty
  BY DEF CInit
<1>3. QED
  BY <1>1, <1>2 DEF InitWith, Unstarted

LEMMA FreshAround ==
    ASSUME Unstarted, NEW q \in Peers
    PROVE  /\ Around(q) = {} /\ Alive(q) = {} /\ Assembled(q) = <<>>
           /\ job[q].op = "none" /\ ~Owes(q) /\ DOMAIN sent[q] = {} /\ DOMAIN got[q] = {}
<1>1. Idle.op = "none" /\ Reading.asm = <<>> /\ Reading.pong = FALSE
      /\ NotCalled.called = FALSE /\ NotCalled.asm = <<>>
  BY DEF Idle, Reading, NotCalled
<1>2. Around(q) = {}
  <2>1. Buffered(q) = {} /\ PutBy(q) = {} /\ Pending(Other(q)) = {}
    BY <1>1, OtherFacts DEF Unstarted, Buffered, PutBy, Pending
  <2>2. QED
    BY <2>1 DEF Unstarted, Around
<1>3. Assembled(q) = <<>>
  BY <1>1 DEF Unstarted, Assembled
<1>4. ~Owes(q)
  BY <1>1 DEF Unstarted, Owes, Pongs
<1>5. job[q].op = "none" /\ DOMAIN sent[q] = {} /\ DOMAIN got[q] = {}
  BY <1>1 DEF Unstarted
<1>6. QED
  BY <1>2, <1>3, <1>4, <1>5 DEF Alive

LEMMA FreshLinked ==
    ASSUME Unstarted, NEW q \in Peers, NEW p \in Peers, p = Other(q)
    PROVE  Linked(p, q)
<1>0. /\ Around(q) = {} /\ Alive(q) = {} /\ Assembled(q) = <<>> /\ job[p].op = "none"
      /\ DOMAIN sent[p] = {} /\ read_buffer[q] = <<>> /\ DOMAIN read_buffer[q] = {}
      /\ acks[p] = {} /\ gen[p] = <<>> /\ gen[q] = <<>> /\ rx_window_bitmap[q] = {}
      /\ rx_seq[q] = 0 /\ tx_seq[p] = 0 /\ last_rx_seq[q] = -1 /\ confirmed[p] = {}
  BY FreshAround DEF Unstarted
<1>1. Numbered(p, q)
  BY <1>0 DEF Numbered, Genuine, Ranked, Latest
<1>2. Rotating(p, q)
  BY <1>0 DEF Rotating, KeyLine, Keys, InTune
<1>3. Waiting(p, q)
  BY <1>0 DEF Waiting, Placed, Queued
<1>4. Complete(p, q)
  BY <1>0 DEF Complete, Sooner, NoneMissing, NoneCut, OneWhole, ConfirmedKept, EmittedKept
<1>5. Followed(p, q)
  BY <1>0 DEF Followed, Consecutive, Partial, Windowed
<1>6. InReach(p, q)
  BY <1>0, WAssumption DEF InReach, Young
<1>7. QED
  BY <1>1, <1>2, <1>3, <1>4, <1>5, <1>6 DEF Linked

LEMMA FreshSettled ==
    ASSUME Unstarted
    PROVE  Settled /\ \A p \in Peers : Prefix(p)
<1>1. \A p \in Peers : Whole(p) /\ Prefix(p)
  BY FreshAround DEF Whole, Prefix
<1>2. read_buffer["B"] = <<>> /\ call.called = FALSE
  BY OtherFacts DEF Unstarted, NotCalled
<1>3. \A x \in Peers : job[x].op # "pong"
  BY FreshAround
<1>4. acks \in [Peers -> SUBSET [gen : Seq(Salts), type : FrameTypes, seq : Nat]]
  BY DEF Unstarted
<1>5. QED
  BY <1>1, <1>2, <1>3, <1>4 DEF Settled

LEMMA FreshPlain ==
    ASSUME Unstarted, NobodyRekeys(script)
    PROVE  Plain
<1>1. \A p \in Peers : gen[p] = <<>> /\ Without(p, "rekey")
  BY DEF Unstarted, NobodyRekeys, NeverCalls, Without
<1>2. \A q \in Peers : Around(q) = {} /\ Other(q) \in Peers /\ Linked(Other(q), q)
  BY FreshAround, FreshLinked, OtherFacts
<1>3. QED
  BY <1>1, <1>2 DEF Plain

LEMMA FreshListening ==
    ASSUME Unstarted, Typed, timely, NEW q \in Peers, NEW p \in Peers, p = Other(q),
           OnlyListens(script, q),
           InC(q) => script[q] = <<>> /\ NeverCalls(script, p, "ping")
    PROVE  Listening(p, q)
<1>0. /\ Around(q) = {} /\ Around(p) = {} /\ Alive(p) = {} /\ job[q].op = "none"
      /\ job[p].op = "none" /\ ~Owes(p) /\ ~Owes(q) /\ tx_seq[p] = 0
      /\ sent[q] = <<>> /\ got[q] = <<>> /\ net[q] = {} /\ acks[p] = {} /\ slot = Empty
  BY FreshAround DEF Unstarted
<1>1. IsFiniteSet(Pings(p)) /\ Cardinality(Pings(p)) = 0
  <2>1. Pings(p) = {}
    BY <1>0 DEF Pings
  <2>2. QED
    BY <2>1, FS_EmptySet
<1>2. Budget(p, q)
  <2>1. PICK s \in Seq(Operations), k \in Nat : s = script[p] /\ k = Len(script[q])
    BY DEF Typed, Running
  <2>2. Potential(p, q) = k
    BY <1>0, <1>1, <2>1 DEF Potential
  <2>3. Base(p) + Rest(p) = 0
    BY <1>0 DEF Base, Rest
  <2>4. Early(s, 0, k)
    <3>1. PICK at \in [1 .. Len(s) + 1 -> 0 .. Len(s) * MaxFrags] : EarlyAt(s, 0, k, at)
      BY <2>1 DEF OnlyListens
    <3>2. at \in [1 .. Len(s) + 1 -> Nat]
      OBVIOUS
    <3>3. QED
      BY <3>1, <3>2 DEF Early
  <2>5. QED
    BY <2>1, <2>2, <2>3, <2>4 DEF Budget
<1>3. Delivered(p, q)
  BY <1>0 DEF Delivered, Pends
<1>4. InC(q) => Unasked(p, q)
  BY <1>0 DEF Unasked, Without, NeverCalls
<1>5. Without(q, "send") /\ Without(q, "rekey")
  BY DEF OnlyListens, NeverCalls, Without
<1>6. Linked(p, q)
  BY FreshLinked
<1>7. QED
  BY <1>0, <1>1, <1>2, <1>3, <1>4, <1>5, <1>6 DEF Listening

LEMMA InitSentWithin == CInit => SentWithin
<1> SUFFICES ASSUME CInit, NEW p \in Peers PROVE Len(sent[p]) + Sends(script[p]) <= MaxMsgs
  BY DEF SentWithin
<1>1. AreScripts({script})
  BY ScriptsAssumption, CScriptsAssumption DEF CInit, Init, InitWith, AreScripts
<1>2. script[p] \in Seq(Operations) /\ Sends(script[p]) <= MaxMsgs
  BY <1>1 DEF AreScripts
<1>3. Len(sent[p]) = 0
  BY InitFresh DEF Unstarted
<1>4. Sends(script[p]) \in Nat
  BY <1>2, SendsFacts
<1>5. QED
  BY <1>2, <1>3, <1>4

LEMMA InitOrderly == ASSUME RekeysAreSafe, CInit PROVE LInv
<1>0. Unstarted /\ Settled /\ (\A p \in Peers : Prefix(p)) /\ Typed /\ SentWithin
  BY InitFresh, InitSentWithin, FreshSettled, InitIInv DEF IInv
<1>1. SUFFICES ASSUME ~interrupts PROVE Plain \/ \E q \in Peers : Listening(Other(q), q)
  BY <1>0 DEF LInv, Orderly
<1>2. CASE NobodyRekeys(script)
  BY <1>0, <1>2, FreshPlain
<1>3. CASE ~NobodyRekeys(script)
  <2>1. /\ timely
        /\ \/ port = "python" /\ script \in TimelyScripts
           \/ port = "c" /\ script \in CTimelyScripts
    BY <1>1, <1>3 DEF CInit, Init, InitWith, RekeysAreSafe
  <2>2. CASE port = "python"
    <3>1. PICK q \in Peers : OnlyListens(script, q)
      BY <1>3, <2>1, <2>2 DEF RekeysAreSafe
    <3>2. PICK p \in Peers : p = Other(q)
      BY OtherFacts
    <3>3. Listening(p, q)
      BY <1>0, <2>1, <2>2, <3>1, <3>2, FreshListening DEF InC
    <3>4. QED
      BY <3>2, <3>3
  <2>3. CASE port = "c"
    <3>1. \/ OnlyListens(script, "A")
          \/ OnlyListens(script, "B") /\ script["B"] = <<>> /\ NeverCalls(script, "A", "ping")
      BY <1>3, <2>1, <2>3 DEF RekeysAreSafe
    <3>2. PICK q \in Peers, p \in Peers :
                 /\ p = Other(q) /\ OnlyListens(script, q)
                 /\ InC(q) => script[q] = <<>> /\ NeverCalls(script, p, "ping")
      BY <3>1, OtherFacts DEF InC
    <3>3. Listening(p, q)
      BY <1>0, <2>1, <3>2, FreshListening
    <3>4. QED
      BY <3>2, <3>3
  <2>4. QED
    BY <2>1, <2>2, <2>3
<1>4. QED
  BY <1>2, <1>3

LEMMA InterruptsStay == CNext => interrupts' = interrupts
<1>1. ASSUME NEW p \in Peers, Application(p) \/ Writing(p) PROVE interrupts' = interrupts
  BY <1>1 DEF Application, StartSend, StartRekey, StartPing, StartBye, Writing, Retransmit,
              NextFragment, FinishSend, FinishRekey, FinishPing, FinishPong, FinishBye, GiveUp,
              history
<1>2. ASSUME NEW p \in Peers, Datagrams(p) PROVE interrupts' = interrupts
  BY <1>2 DEF Datagrams, FeedFrame, FeedAck, Lose, history
<1>3. ASSUME NEW p \in Peers, Receiving(p) PROVE interrupts' = interrupts
  BY <1>3 DEF Receiving, DropFrame, RecvBye, RecvPing, RecvPong, RecvRekey, Assemble, Accept,
              RecvTimeout, StartPong, history
<1>4. ASSUME CReceiving PROVE interrupts' = interrupts
  <2>1. CASE CRecv \/ CAttemptsSpent \/ CPollNothing \/ CStartPong \/ CFinishPong
    BY <2>1 DEF CRecv, CAttemptsSpent, CPollNothing, CStartPong, CFinishPong, history, vars
  <2>2. CASE \E f \in net["B"] \union {slot} : CRead(f)
    BY <2>2 DEF CRead
  <2>3. QED
    BY <1>4, <2>1, <2>2 DEF CReceiving, CDrop, CRecvPong, CRecvBye, CRecvRekey, CRecvPing,
                            CRecvData, CAccept
<1>5. ASSUME CPeer PROVE interrupts' = interrupts
  <2>1. "B" \in Peers
    BY OtherFacts
  <2>2. CASE CStart
    BY <2>1, <2>2, <1>1 DEF CStart, Application
  <2>3. CASE CSending
    BY <2>1, <2>3, <1>1, <1>2 DEF CSending, Writing, Datagrams
  <2>4. CASE CGiveUp
    BY <2>4 DEF CGiveUp, history
  <2>5. CASE \E f \in net["B"] : CFeedFrame(f)
    BY <2>5 DEF CFeedFrame, history
  <2>6. CASE Lose("B")
    BY <2>6 DEF Lose, history
  <2>7. QED
    BY <1>4, <1>5, <2>2, <2>3, <2>4, <2>5, <2>6 DEF CPeer
<1>6. "A" \in Peers
  BY OtherFacts
<1>7. QED
  BY <1>1, <1>2, <1>3, <1>5, <1>6 DEF CNext, Next, PythonPeer

(* What a step does to an orderly session: it stays so, and no more than one *)
(* message is handed out, the next one.                                      *)
LEMMA OrderlyStep ==
    ASSUME IInv, IInv', Orderly, CNext, ~interrupts
    PROVE  Orderly' /\ \A p \in Peers : UNCHANGED got[p] \/ GivesOne(p)
<1>1. Settled' /\ SentWithin'
  BY SettledStep, StepEffects, SentWithinStep DEF Orderly
<1>2. CASE Plain
  BY <1>1, <1>2, PlainStep DEF Orderly
<1>3. ASSUME NEW q \in Peers, Listening(Other(q), q)
      PROVE  Orderly' /\ \A p \in Peers : UNCHANGED got[p] \/ GivesOne(p)
  <2>1. PICK p \in Peers : p = Other(q) /\ \A z \in Peers : z = p \/ z = q
    BY OtherFacts
  <2>2. /\ Listening(p, q)' /\ Prefix(p)' /\ Prefix(q)' /\ UNCHANGED got[q]
        /\ UNCHANGED got[p] \/ GivesOne(p)
    BY <1>3, <2>1, ListeningStep DEF Orderly
  <2>3. \A z \in Peers : Prefix(z)' /\ (UNCHANGED got[z] \/ GivesOne(z))
    BY <2>1, <2>2
  <2>4. Listening(Other(q), q)'
    BY <2>1, <2>2
  <2>5. QED
    BY <1>1, <2>3, <2>4 DEF Orderly
<1>4. QED
  BY <1>2, <1>3 DEF Orderly

LEMMA StutterLinked ==
    ASSUME UNCHANGED StateVars, NEW p \in Peers, NEW q \in Peers, Linked(p, q)
    PROVE  Linked(p, q)'
<1>0. UNCHANGED <<script, gen, tx_seq, rx_seq, rx_window_bitmap, last_rx_seq, read_buffer, job,
                  rcv, up, net, acks, salts, timely, interrupts, sent, got, confirmed, call,
                  slot, port>>
  BY DEF StateVars
<1>1. Around(q)' = Around(q) /\ Buffered(q)' = Buffered(q) /\ UNCHANGED Assembled(q)
      /\ UNCHANGED Expected(q)
  BY <1>0 DEF Around, Buffered, PutBy, Pending, Assembled, Expected
<1>2. Alive(q)' = Alive(q) /\ Stream(p)' = Stream(p) /\ (\A f : Dead(q, f)' <=> Dead(q, f))
  BY <1>0, <1>1 DEF Alive, Dead, Stream, Assembled
<1>3. (Going(p)' <=> Going(p)) /\ (Answered(p)' <=> Answered(p))
      /\ \A g : Turned(q, g)' <=> Turned(q, g)
  BY <1>0, <1>1, <1>2 DEF Going, Answered, AckMatches, Turned
<1>4. \A d : (Secured(p, q, d)' <=> Secured(p, q, d)) /\ (Emitted(p, d)' <=> Emitted(p, d))
  BY <1>0, <1>1, <1>2 DEF Secured, Waits, Holds, Emitted
<1>5. \A m : AllSecured(p, q, m)' <=> AllSecured(p, q, m)
  BY <1>0, <1>4 DEF AllSecured
<1>6. Numbered(p, q)'
  BY <1>0, <1>1, <1>3 DEF Linked, Numbered, Genuine, Ranked, Latest
<1>7. Rotating(p, q)'
  BY <1>0, <1>1, <1>2, <1>3 DEF Linked, Rotating, KeyLine, Keys, InTune, Ahead, Lags
<1>8. Waiting(p, q)'
  BY <1>0, <1>1, <1>2, <1>3 DEF Linked, Waiting, Placed, Queued
<1>9. Complete(p, q)'
  BY <1>0, <1>1, <1>2, <1>3, <1>4, <1>5
     DEF Linked, Complete, Sooner, NoneMissing, NoneCut, OneWhole, ConfirmedKept, EmittedKept,
         Holds
<1>10. Followed(p, q)'
  BY <1>0, <1>1, <1>2 DEF Linked, Followed, Consecutive, Partial, Windowed
<1>11. InReach(p, q)'
  BY <1>0, <1>2, <1>3 DEF Linked, InReach
<1>12. QED
  BY <1>6, <1>7, <1>8, <1>9, <1>10, <1>11 DEF Linked

LEMMA StutterListening ==
    ASSUME UNCHANGED StateVars, NEW p \in Peers, NEW q \in Peers, Listening(p, q)
    PROVE  Listening(p, q)'
<1>0. UNCHANGED <<script, gen, tx_seq, rx_seq, rx_window_bitmap, last_rx_seq, read_buffer, job,
                  rcv, up, net, acks, salts, timely, interrupts, sent, got, confirmed, call,
                  slot, port>>
  BY DEF StateVars
<1>1. \A z \in Peers : Around(z)' = Around(z) /\ Buffered(z)' = Buffered(z)
                       /\ (Owes(z)' <=> Owes(z)) /\ (InC(z)' <=> InC(z))
                       /\ \A o : Without(z, o)' <=> Without(z, o)
  BY <1>0 DEF Around, Buffered, PutBy, Pending, Owes, Pongs, InC, Without
<1>2. Pings(p)' = Pings(p)
  BY <1>0, <1>1 DEF Pings, Alive, Dead
<1>3. Potential(p, q)' = Potential(p, q)
  BY <1>0, <1>1, <1>2 DEF Potential
<1>4. Budget(p, q)'
  <2>1. Base(p)' = Base(p) /\ Rest(p)' = Rest(p)
    BY <1>0 DEF Base, Rest
  <2>2. QED
    BY <1>0, <1>3, <2>1 DEF Listening, Budget
<1>5. Delivered(p, q)'
  BY <1>0 DEF Listening, Delivered, Going, Pends
<1>6. InC(q)' => Unasked(p, q)'
  BY <1>0, <1>1 DEF Listening, Unasked
<1>7. up'[q] => Linked(p, q)'
  BY <1>0, StutterLinked DEF Listening
<1>8. QED
  BY <1>0, <1>1, <1>2, <1>4, <1>5, <1>6, <1>7 DEF Listening

LEMMA LInvStep == IInv /\ IInv' /\ LInv /\ [CNext]_<<vars, cvars, port>> => LInv'
<1> SUFFICES ASSUME IInv, IInv', LInv, [CNext]_<<vars, cvars, port>> PROVE LInv'
  OBVIOUS
<1>1. CASE CNext
  BY <1>1, InterruptsStay, OrderlyStep DEF LInv
<1>2. CASE UNCHANGED <<vars, cvars, port>>
  <2>0. UNCHANGED StateVars
    BY <1>2 DEF vars, keyvars, history, cvars, StateVars
  <2>1. UNCHANGED <<script, gen, tx_seq, rx_seq, rx_window_bitmap, last_rx_seq, read_buffer, job,
                    rcv, up, net, acks, salts, timely, interrupts, sent, got, confirmed, call,
                    slot, port>>
    BY <2>0 DEF StateVars
  <2>2. CASE interrupts
    BY <2>1, <2>2 DEF LInv
  <2>3. CASE Orderly
    <3>1. Settled' /\ SentWithin'
      BY <2>1, <2>3 DEF Orderly, Settled, Whole, InC, SentWithin
    <3>2. \A q \in Peers : Prefix(q)'
      BY <2>1, <2>3 DEF Orderly, Prefix
    <3>5. ASSUME NEW q \in Peers, Listening(Other(q), q) PROVE Listening(Other(q), q)'
      <4>1. PICK p \in Peers : p = Other(q)
        BY OtherFacts
      <4>2. Listening(p, q)
        BY <3>5, <4>1
      <4>3. Listening(p, q)'
        BY <2>0, <4>2, StutterListening
      <4>4. QED
        BY <4>1, <4>3
    <3>3. Plain => Plain'
      <4>1. SUFFICES ASSUME Plain PROVE Plain'
        OBVIOUS
      <4>2. \A q \in Peers : up'[q] => Linked(Other(q), q)'
        BY <2>0, <2>1, <4>1, OtherFacts, StutterLinked DEF Plain
      <4>3. \A q \in Peers : Around(q)' = Around(q)
        BY <2>1 DEF Around, Buffered, PutBy, Pending
      <4>4. \A q \in Peers : gen'[q] = <<>> /\ Without(q, "rekey")'
        BY <2>1, <4>1 DEF Plain, Without
      <4>5. \A q \in Peers : \A f \in Around(q)' : f.gen = <<>> /\ f.type # "REKEY"
        BY <4>1, <4>3 DEF Plain
      <4>6. QED
        BY <4>2, <4>4, <4>5 DEF Plain
    <3>4. QED
      BY <2>3, <3>1, <3>2, <3>3, <3>5 DEF Orderly, LInv
  <2>4. QED
    BY <2>2, <2>3 DEF LInv
<1>3. QED
  BY <1>1, <1>2

LEMMA SafeOrder == ASSUME RekeysAreSafe PROVE CSpec => []LInv
<1>1. CInit => LInv
  BY InitOrderly
<1>2. QED
  BY <1>1, Invariant, LInvStep, PTL DEF CSpec

-----------------------------------------------------------------------------
(* What is confirmed is not lost                                             *)

LEMMA SecuredArrives ==
    ASSUME Typed, NEW q \in Peers, NEW p \in Peers, p = Other(q), NEW d, Secured(p, q, d)
    PROVE  Arrived(p, d) \/ (p = "A" /\ \E k \in DOMAIN call.asm : call.asm[k] = d)
<1>0. /\ q = Other(p) /\ got[p] \in Seq(Seq(Fragments)) /\ Assembled(q) \in Seq(Fragments)
      /\ (q = "B" => p = "A")
  BY OtherFacts, StreamTyped DEF Typed, Told
<1>1. CASE Waits(q, d)
  <2>1. PICK i \in DOMAIN read_buffer[q] : read_buffer[q][i].data = d
    BY <1>1 DEF Waits, Carries, Buffered
  <2>2. QED
    BY <1>0, <2>1 DEF Arrived
<1>2. CASE Holds(Stream(p), d)
  <2>0. PICK k \in DOMAIN Stream(p) : \E i \in DOMAIN Stream(p)[k] : Stream(p)[k][i] = d
    BY <1>2 DEF Holds
  <2>1. PICK i \in DOMAIN Stream(p)[k] : Stream(p)[k][i] = d
    BY <2>0
  <2>2. Stream(p) = Append(got[p], Assembled(q))
    BY <1>0 DEF Stream
  <2>3. \/ k \in DOMAIN got[p] /\ Stream(p)[k] = got[p][k]
        \/ Stream(p)[k] = Assembled(q)
    BY <1>0, <2>1, <2>2
  <2>4. CASE k \in DOMAIN got[p] /\ Stream(p)[k] = got[p][k]
    BY <1>0, <2>1, <2>4 DEF Arrived
  <2>5. CASE Stream(p)[k] = Assembled(q)
    <3>1. i \in DOMAIN Assembled(q) /\ Assembled(q)[i] = d
      BY <2>1, <2>5
    <3>2. Assembled(q) = rcv[q].asm \/ (q = "B" /\ Assembled(q) = call.asm)
      BY DEF Assembled
    <3>3. QED
      BY <1>0, <3>1, <3>2 DEF Arrived
  <2>6. QED
    BY <2>3, <2>4, <2>5
<1>3. QED
  BY <1>1, <1>2 DEF Secured

LEMMA ConfirmedArrives ==
    ASSUME IInv, Orderly, NEW q \in Peers, NEW p \in Peers, p = Other(q), up[q],
           NEW m \in confirmed[p], NEW i \in DOMAIN sent[p][m]
    PROVE  \/ Arrived(p, sent[p][m][i])
           \/ p = "A" /\ \E k \in DOMAIN call.asm : call.asm[k] = sent[p][m][i]
<1>0. Typed /\ Whole(p) /\ m \in DOMAIN sent[p] /\ sent[p] # <<>>
  <2>1. m \in DOMAIN sent[p]
    BY DEF IInv, Typed, Told
  <2>2. QED
    BY <2>1 DEF IInv, Orderly, Settled
<1>1. Linked(p, q)
  <2>1. CASE Plain
    BY <2>1 DEF Plain
  <2>2. ASSUME NEW z \in Peers, Listening(Other(z), z) PROVE Linked(p, q)
    <3>1. z # p
      BY <1>0, <2>2 DEF Listening
    <3>2. z = q
      BY <3>1, OtherFacts
    <3>3. QED
      BY <2>2, <3>2 DEF Listening
  <2>3. QED
    BY <2>1, <2>2 DEF Orderly
<1>2. Secured(p, q, <<p, m, i>>)
  BY <1>1 DEF Linked, Complete, ConfirmedKept, AllSecured
<1>3. sent[p][m][i] = <<p, m, i>>
  <2>1. PICK n \in 1 .. MaxFrags : sent[p][m] = Message(p, m, n)
    BY <1>0 DEF Whole
  <2>2. QED
    BY <2>1 DEF Message
<1>4. QED
  BY <1>0, <1>2, <1>3, SecuredArrives

LEMMA AckedFacts == IInv /\ LInv => PythonAckedNotLost /\ CAckedNotLost
<1> SUFFICES ASSUME IInv, LInv, ~interrupts PROVE PythonAckedNotLost /\ CAckedNotLost
  BY DEF PythonAckedNotLost, CAckedNotLost
<1>0. Orderly /\ "A" \in Peers /\ "B" \in Peers /\ Other("A") = "B" /\ Other("B") = "A"
  BY OtherFacts DEF LInv
<1>1. ASSUME up["B"], NEW m \in confirmed["A"], NEW i \in DOMAIN sent["A"][m]
      PROVE  CArrived("A", sent["A"][m][i])
  <2>1. PICK p \in Peers, q \in Peers : p = "A" /\ q = "B" /\ p = Other(q)
    BY <1>0
  <2>2. QED
    BY <1>0, <1>1, <2>1, ConfirmedArrives DEF CArrived
<1>2. ASSUME up["A"], NEW m \in confirmed["B"], NEW i \in DOMAIN sent["B"][m]
      PROVE  Arrived("B", sent["B"][m][i])
  <2>1. PICK p \in Peers, q \in Peers : p = "B" /\ q = "A" /\ p = Other(q)
    BY <1>0
  <2>2. QED
    BY <1>0, <1>2, <2>1, ConfirmedArrives
<1>3. QED
  BY <1>1, <1>2 DEF PythonAckedNotLost, CAckedNotLost

(* If nothing is interrupted, and keys are rotated only while the other side *)
(* listens and within a window of frames, no part of a message the server's  *)
(* send() returned for is lost: what feed_packet of the device, or its       *)
(* transport in C, acknowledged is in its buffer or in its application.      *)
THEOREM PythonNotLost == ASSUME RekeysAreSafe PROVE CSpec => []PythonAckedNotLost
  BY Invariant, SafeOrder, AckedFacts, PTL

(* The same for what the device's send() or usmp_send returned for, and what *)
(* feed_packet of the server acknowledged.                                   *)
THEOREM CNotLost == ASSUME RekeysAreSafe PROVE CSpec => []CAckedNotLost
  BY Invariant, SafeOrder, AckedFacts, PTL

-----------------------------------------------------------------------------
(* The session is a channel                                                  *)

LEMMA SentIsMessage ==
    ASSUME IInv, IInv', SentWithin', ~interrupts, ~interrupts', NEW p \in Peers, SendsOne(p),
           (\A z \in Peers : z # p => sent'[z] = sent[z]), got' = got
    PROVE  Chan!Send(p)
<1>0. /\ sent \in [Peers -> Seq(Seq(Fragments))] /\ sent' \in [Peers -> Seq(Seq(Fragments))]
      /\ script'[p] \in Seq(Operations) /\ MaxMsgs \in Nat
  BY ScriptsAssumption DEF IInv, Typed, Told, Running
<1>1. PICK k \in Nat, t \in Seq(Seq(Fragments)) : k = Len(sent[p]) + 1 /\ t = sent[p]
  BY <1>0
<1>9. PICK n \in 1 .. MaxFrags : sent'[p] = Append(t, Message(p, k, n))
  BY <1>1 DEF SendsOne
<1>2. PICK m : m = Message(p, k, n) /\ sent'[p] = Append(t, m)
  BY <1>9
<1>3. Len(sent'[p]) = k
  BY <1>1, <1>2
<1>4. k \in 1 .. MaxMsgs
  <2>1. Sends(script'[p]) \in Nat /\ Len(sent'[p]) + Sends(script'[p]) <= MaxMsgs
    BY <1>0, SendsFacts DEF SentWithin
  <2>2. k >= 1
    BY <1>1
  <2>3. QED
    BY <1>0, <1>3, <2>1, <2>2
<1>5. m \in {Message(t1[1], t1[2], t1[3]) : t1 \in Peers \X (1 .. MaxMsgs) \X (1 .. MaxFrags)}
  <2>1. PICK u : u = <<p, k, n>>
    OBVIOUS
  <2>2. u \in Peers \X (1 .. MaxMsgs) \X (1 .. MaxFrags) /\ m = Message(u[1], u[2], u[3])
    BY <1>2, <1>4, <2>1
  <2>3. QED
    BY <2>2
<1>6. sent' = [sent EXCEPT ![p] = Append(sent[p], m)]
  <2>1. sent'[p] = Append(sent[p], m)
    BY <1>1, <1>2
  <2>2. QED
    BY <1>0, <2>1
<1>7. Uninterrupted(got)' = Uninterrupted(got)
  BY DEF Uninterrupted
<1>8. Uninterrupted(sent)' = [Uninterrupted(sent) EXCEPT ![p] = Append(Uninterrupted(sent)[p], m)]
  BY <1>6 DEF Uninterrupted
<1>10. QED
  BY <1>5, <1>7, <1>8, Zenon DEF Chan!Send

LEMMA GivenIsSent ==
    ASSUME IInv, IInv', ~interrupts, ~interrupts', NEW p \in Peers, GivesOne(p),
           (\A z \in Peers : z # p => got'[z] = got[z]), sent' = sent
    PROVE  Chan!Receive(p)
<1>0. /\ sent \in [Peers -> Seq(Seq(Fragments))] /\ got \in [Peers -> Seq(Seq(Fragments))]
      /\ got' \in [Peers -> Seq(Seq(Fragments))]
  BY DEF IInv, Typed, Told
<1>1. got' = [got EXCEPT ![p] = Append(got[p], sent[p][Len(got[p]) + 1])]
  BY <1>0 DEF GivesOne
<1>2. Len(got[p]) < Len(sent[p])
  <2>1. PICK g \in Seq(Seq(Fragments)), s \in Seq(Seq(Fragments)) : g = got[p] /\ s = sent[p]
    BY <1>0
  <2>2. Len(g) + 1 \in DOMAIN s
    BY <2>1 DEF GivesOne
  <2>3. QED
    BY <2>1, <2>2
<1>3. /\ Uninterrupted(sent) = sent /\ Uninterrupted(sent)' = Uninterrupted(sent)
      /\ Uninterrupted(got) = got /\ Uninterrupted(got)' = got'
  BY DEF Uninterrupted
<1>4. QED
  BY <1>1, <1>2, <1>3 DEF Chan!Receive

LEMMA StepOfChannel ==
    ASSUME IInv, IInv', LInv, LInv', CNext
    PROVE  [Chan!Next]_<<Uninterrupted(sent), Uninterrupted(got)>>
<1>1. interrupts' = interrupts
  BY InterruptsStay
<1>2. CASE interrupts
  <2>1. /\ Uninterrupted(sent) = [p \in Peers |-> <<>>]
        /\ Uninterrupted(got) = [p \in Peers |-> <<>>]
        /\ Uninterrupted(sent)' = [p \in Peers |-> <<>>]
        /\ Uninterrupted(got)' = [p \in Peers |-> <<>>]
    BY <1>1, <1>2 DEF Uninterrupted
  <2>2. QED
    BY <2>1
<1>3. CASE ~interrupts
  <2>0. Orderly /\ SentWithin' /\ \A p \in Peers : UNCHANGED got[p] \/ GivesOne(p)
    BY <1>1, <1>3, OrderlyStep DEF LInv, Orderly
  <2>1. PICK x \in Peers : Effects(x)
    BY <1>3, <2>0, StepEffects DEF Orderly
  <2>2. PICK y \in Peers : y = Other(x) /\ x # y /\ \A z \in Peers : z = x \/ z = y
    BY OtherFacts
  <2>3. /\ sent \in [Peers -> Seq(Seq(Fragments))] /\ sent' \in [Peers -> Seq(Seq(Fragments))]
        /\ got \in [Peers -> Seq(Seq(Fragments))] /\ got' \in [Peers -> Seq(Seq(Fragments))]
    BY DEF IInv, Typed, Told
  <2>4. /\ sent'[y] = sent[y] /\ got'[x] = got[x]
        /\ sent'[x] = sent[x] \/ (SendsOne(x) /\ UNCHANGED got)
    BY <2>1, <2>2, SentChanges, OtherFacts DEF Effects, Untouched
  <2>5. CASE SendsOne(x) /\ UNCHANGED got
    <3>0. /\ \A z \in Peers : z # x => sent'[z] = sent[z]
          /\ ~interrupts' /\ got' = got
      BY <1>1, <1>3, <2>2, <2>4, <2>5
    <3>1. Chan!Send(x)
      BY <1>3, <2>0, <2>5, <3>0, SentIsMessage
    <3>2. QED
      BY <3>1 DEF Chan!Next
  <2>6. CASE sent'[x] = sent[x]
    <3>0. \A z \in Peers : sent'[z] = sent[z]
      BY <2>2, <2>4, <2>6
    <3>1. sent' = sent
      BY <2>3, <3>0
    <3>2. CASE GivesOne(y)
      <4>0. /\ \A z \in Peers : z # y => got'[z] = got[z]
            /\ ~interrupts'
        BY <1>1, <1>3, <2>2, <2>4
      <4>1. Chan!Receive(y)
        BY <1>3, <3>1, <3>2, <4>0, GivenIsSent
      <4>2. QED
        BY <4>1 DEF Chan!Next
    <3>3. CASE got'[y] = got[y]
      <4>0. \A z \in Peers : got'[z] = got[z]
        BY <2>2, <2>4, <3>3
      <4>1. got' = got
        BY <2>3, <4>0
      <4>2. UNCHANGED <<Uninterrupted(sent), Uninterrupted(got)>>
        BY <1>1, <3>1, <4>1 DEF Uninterrupted
      <4>3. QED
        BY <4>2
    <3>4. QED
      BY <2>0, <3>2, <3>3
  <2>7. QED
    BY <2>4, <2>5, <2>6
<1>4. QED
  BY <1>2, <1>3

(* Under the same conditions the session implements the channel: what an     *)
(* application receives are the messages its peer sent, whole, once and in   *)
(* order, although frames are lost, repeated and overtaken on the way.       *)
THEOREM Refinement == ASSUME RekeysAreSafe PROVE CSpec => ImplementsChannel
<1>1. CInit => Chan!Init
  <2>1. SUFFICES ASSUME CInit PROVE Chan!Init
    OBVIOUS
  <2>2. sent = [p \in Peers |-> <<>>] /\ got = [p \in Peers |-> <<>>]
    BY <2>1 DEF CInit, Init, InitWith
  <2>3. QED
    BY <2>2 DEF Chan!Init, Uninterrupted
<1>2. IInv /\ IInv' /\ LInv /\ LInv' /\ [CNext]_<<vars, cvars, port>>
        => [Chan!Next]_<<Uninterrupted(sent), Uninterrupted(got)>>
  <2>1. ASSUME UNCHANGED <<vars, cvars, port>>
        PROVE  UNCHANGED <<Uninterrupted(sent), Uninterrupted(got)>>
    BY <2>1 DEF vars, history, Uninterrupted
  <2>2. QED
    BY <2>1, StepOfChannel
<1>3. QED
  BY <1>1, <1>2, Invariant, SafeOrder, PTL DEF CSpec, ImplementsChannel, Chan!Spec
==============================================================================
