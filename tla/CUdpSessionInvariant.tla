------------------------ MODULE CUdpSessionInvariant ------------------------
(* What is true of a UDP session all the time, and the kinds of steps that   *)
(* keep it true: first for any session, then for one direction of a session  *)
(* that nothing interrupts (Linked), then for the whole of it (LInv).        *)
EXTENDS CUdpSession

(* A message stays within its peer, its number and its fragments. *)
Fragments == Peers \X Nat \X Nat
Salts == Nat \ {0}
DataTypes == {"DATA", "DATA_FRAG"}

Frames ==
    [gen : Seq(Salts), type : DataTypes, seq : Nat, data : Fragments]
        \union [gen : Seq(Salts), type : {"REKEY"}, seq : Nat,
                data : {t \in Seq(Salts) : Len(t) = 1}]
        \union [gen : Seq(Salts), type : {"PING", "PONG", "BYE"}, seq : Nat, data : {<<>>}]

Jobs == {Idle} \union [op : {"send", "rekey", "ping", "pong", "bye"}, frame : Frames,
                       acked : BOOLEAN]

Assemblies == {m \in Seq(Fragments) : Len(m) < MaxFrags}
RcvStates == [asm : Assemblies, expected : Nat, ctrl : Nat, pong : BOOLEAN]
Calls == [called : {TRUE}, asm : Assemblies, expected : Nat, ctrl : 0 .. CtrlLimit,
          attempts : 0 .. MaxAttempts, pong : BOOLEAN]

Keyed ==
    /\ salts \in Nat /\ gen \in [Peers -> Seq(Salts)]
    /\ \A p \in Peers : \A i \in DOMAIN gen[p] : gen[p][i] <= salts
    /\ tx_seq \in [Peers -> Nat] /\ rx_seq \in [Peers -> Nat]
    /\ rx_window_bitmap \in [Peers -> SUBSET Bits]
    /\ last_rx_seq \in [Peers -> Nat \union {-1}]

Carried ==
    /\ net \in [Peers -> SUBSET Frames]
    /\ read_buffer \in [Peers -> Seq(Frames)]
    /\ \A p \in Peers : Len(read_buffer[p]) <= BufferCap
    /\ slot \in Frames \union {Empty}

Running ==
    /\ script \in [Peers -> Seq(Operations)]
    /\ job \in [Peers -> Jobs] /\ rcv \in [Peers -> RcvStates] /\ up \in [Peers -> BOOLEAN]
    /\ call \in Calls \union {NotCalled}

Told ==
    /\ sent \in [Peers -> Seq(Seq(Fragments))] /\ got \in [Peers -> Seq(Seq(Fragments))]
    /\ \A p \in Peers : confirmed[p] \subseteq DOMAIN sent[p]
    /\ DOMAIN confirmed = Peers /\ interrupts \in BOOLEAN

(* The device in C assembles in usmp_recv and not in a coroutine, and sends  *)
(* a PONG only from there.                                                   *)
OnePort ==
    /\ port \in {"python", "c"}
    /\ port = "python" => call = NotCalled
    /\ port = "c" => /\ rcv["B"].asm = <<>>
                     /\ job["B"].op = "pong" => call.called /\ call.pong
    /\ call.called /\ call.pong => call.attempts < MaxAttempts

Typed == Keyed /\ Carried /\ Running /\ Told /\ OnePort

(* What the operation under way has sent last: a fragment of the last        *)
(* message, or a control frame.                                              *)
Fragment(f) == f.type \in DataTypes

JobFits(p) ==
    LET f == job[p].frame
        m == Len(sent[p])
    IN  /\ job[p].op = "send" =>
             \E n \in 1 .. MaxFrags : \E i \in 1 .. n :
                 /\ m # 0 /\ sent[p][m] = Message(p, m, n)
                 /\ f.data = <<p, m, i>> /\ f.type = FragType(i, n)
        /\ job[p].op = "rekey" => f.type = "REKEY"
        /\ job[p].op \in {"ping", "pong", "bye"} => f.type \in {"PING", "PONG", "BYE"}

(* The frames that peer q may still meet. *)
Pending(q) == IF job[q].op = "none" THEN {} ELSE {job[q].frame}
Buffered(q) == {read_buffer[q][i] : i \in DOMAIN read_buffer[q]}
PutBy(q) == IF q = "B" THEN {slot} \ {Empty} ELSE {}
Around(q) == net[q] \union Buffered(q) \union PutBy(q) \union Pending(Other(q))

(* Peer p has put fragment d on the wire. *)
Emitted(p, d) ==
    /\ d[2] <= Len(sent[p])
    /\ job[p].op = "send" /\ d[2] = Len(sent[p]) => d[3] <= job[p].frame.data[3]

(* Every fragment is sealed once. *)
SealedOnce ==
    \A q \in Peers :
        /\ \A f \in Around(q) : /\ f.type = "REKEY" => f.data[1] <= salts
                                /\ Fragment(f) => Emitted(Other(q), f.data)
        /\ \A f, g \in Around(q) : Fragment(f) /\ Fragment(g) /\ f.data = g.data => f = g

(* Frame f will never be accepted by q again. *)
Dead(q, f) ==
    /\ Len(f.gen) <= Len(gen[q])
    /\ f.gen = gen[q] => ~Fresh(rx_seq[q], rx_window_bitmap[q], f.seq)

(* All the application of p's peer has been given, and the message it waits  *)
(* for.                                                                      *)
Assembled(q) == IF q = "B" /\ port = "c" THEN call.asm ELSE rcv[q].asm
Stream(p) == Append(got[p], Assembled(Other(p)))

Distinct(ss) ==
    \A k, l \in DOMAIN ss : \A i \in DOMAIN ss[k], j \in DOMAIN ss[l] :
        ss[k][i] = ss[l][j] => k = l /\ i = j

Holds(ss, d) == \E k \in DOMAIN ss : \E i \in DOMAIN ss[k] : ss[k][i] = d

(* A fragment is taken once, and its frame is dead from then on. *)
TakenOnce ==
    \A p \in Peers :
        /\ Distinct(Stream(p))
        /\ \A k \in DOMAIN Stream(p) : \A i \in DOMAIN Stream(p)[k] :
             /\ Stream(p)[k][i] \in Fragments /\ Emitted(p, Stream(p)[k][i])
             /\ \A f \in Around(Other(p)) :
                  Fragment(f) /\ f.data = Stream(p)[k][i] => Dead(Other(p), f)

Once == SealedOnce /\ TakenOnce

IInv == Typed /\ (\A p \in Peers : JobFits(p)) /\ Once

-----------------------------------------------------------------------------
(* What a step leaves to show                                                *)

CallTyped(c) ==
    /\ c.called \in BOOLEAN /\ c.asm \in Assemblies
    /\ ~c.called => c = NotCalled /\ c.asm = <<>>
    /\ c.called => /\ c \in Calls /\ c.attempts \in 0 .. MaxAttempts /\ c.ctrl \in 0 .. CtrlLimit
                   /\ c.pong \in BOOLEAN /\ c.expected \in Nat

(* A frame that the step has sealed, with a fragment nobody had sent. *)
Sealed(q, f) ==
    /\ f = job'[Other(q)].frame
    /\ f.type = "REKEY" => f.data[1] <= salts'
    /\ Fragment(f) => ~Emitted(Other(q), f.data) /\ Emitted(Other(q), f.data)'

EmittedStays == \A p \in Peers : \A d \in Fragments : Emitted(p, d) => Emitted(p, d)'
DeadStays == \A q \in Peers : \A f \in Frames : Dead(q, f) => Dead(q, f)'
AroundFits == \A q \in Peers : \A f \in Around(q)' : f \in Around(q) \/ Sealed(q, f)

(* What is given to q now was given before, or comes from a frame that is    *)
(* dead now.                                                                 *)
Given(q, d) == \E f \in Around(q) : Fragment(f) /\ f.data = d /\ Dead(q, f)'
StreamFits ==
    \A p \in Peers :
        /\ Distinct(Stream(p))'
        /\ \A d : Holds(Stream(p), d)' => Holds(Stream(p), d) \/ Given(Other(p), d)

(* An operation that goes on, or ends, without sending. *)
JobKept(p) ==
    \/ job'[p].op = "none"
    \/ job'[p].op = job[p].op /\ job'[p].frame = job[p].frame

KeysKept == UNCHANGED <<gen, rx_seq, rx_window_bitmap>>
StreamsKept ==
    /\ UNCHANGED got
    /\ \A q \in Peers : Assembled(q)' = Assembled(q) \/ Assembled(q)' = <<>>

(* A fragment is taken: it extends the message, or completes it. *)
Takes(q, f) ==
    \/ UNCHANGED got /\ Assembled(q)' = Append(Assembled(q), f.data)
    \/ /\ got' = [got EXCEPT ![Other(q)] = Append(@, Append(Assembled(q), f.data))]
       /\ Assembled(q)' = <<>>

-----------------------------------------------------------------------------
(* Where the frames are                                                      *)

NetFits == net' \in [Peers -> SUBSET Frames] /\ \A q \in Peers : net'[q] \subseteq Around(q)
BufferFits ==
    /\ read_buffer' \in [Peers -> Seq(Frames)]
    /\ \A q \in Peers : /\ Len(read_buffer'[q]) <= BufferCap
                        /\ \A i \in DOMAIN read_buffer'[q] : read_buffer'[q][i] \in Around(q)
SlotFits == slot' = Empty \/ slot' \in Around("B")

RcvKept ==
    /\ rcv' \in [Peers -> RcvStates]
    /\ \A q \in Peers : rcv'[q].asm = rcv[q].asm \/ rcv'[q].asm = <<>>
JobsAlike == job' \in [Peers -> Jobs] /\ \A p \in Peers : JobKept(p)

-----------------------------------------------------------------------------
(* The steps that seal and take nothing                                      *)

NotC == UNCHANGED <<cvars, port>>

(* A control frame. *)
ControlOf == [rekey |-> "REKEY", ping |-> "PING", pong |-> "PONG", bye |-> "BYE"]

-----------------------------------------------------------------------------
(* The device in C                                                           *)

CallFits ==
    /\ call' \in Calls \union {NotCalled} /\ up' \in [Peers -> BOOLEAN]
    /\ job'["B"].op = "pong" => call'.called /\ call'.pong
    /\ call'.called /\ call'.pong => call'.attempts < MaxAttempts

-----------------------------------------------------------------------------
(* One direction of an uninterrupted session: p = Other(q) sends, q reads.   *)
(* A frame that q can still accept is alive; the alive frames are what is    *)
(* left of the stream of p, in order, and q accepts the least of them.       *)

Before(f, g) == Len(f.gen) < Len(g.gen) \/ (f.gen = g.gen /\ f.seq < g.seq)
PartBefore(d, e) == d[2] < e[2] \/ (d[2] = e[2] /\ d[3] < e[3])

Alive(q) == {f \in Around(q) : ~Dead(q, f)}
Expected(q) == IF q = "B" /\ port = "c" THEN call.expected ELSE rcv[q].expected

(* The session of p is in use, or its last operation still under way.        *)
Going(p) == up[p] \/ job[p].op # "none"
Answered(p) == job[p].op = "none" \/ job[p].acked \/ \E a \in acks[p] : AckMatches(p, a)

(* Fragment d has been taken by q or waits in its buffer. *)
Carries(f, d) == Fragment(f) /\ f.data = d
Waits(q, d) == \E f \in Alive(q) : f \in Buffered(q) /\ Carries(f, d)
Secured(p, q, d) == Holds(Stream(p), d) \/ Waits(q, d)
AllSecured(p, q, m) == \A i \in DOMAIN sent[p][m] : Secured(p, q, <<p, m, i>>)

Whole(p) == \A m \in DOMAIN sent[p] : \E n \in 1 .. MaxFrags : sent[p][m] = Message(p, m, n)

(* The fragments are of messages of p, and marked as the last one or not.    *)
Genuine(p, q) ==
    \A f \in Around(q) : Fragment(f) =>
        /\ f.data[1] = p /\ f.data[2] \in DOMAIN sent[p]
        /\ f.data[3] \in DOMAIN sent[p][f.data[2]]
        /\ f.type = FragType(f.data[3], Len(sent[p][f.data[2]]))

(* A sequence is used once with the same keys, and last for the REKEY.       *)
Ranked(q) ==
    /\ \A f, g \in Around(q) : f.gen = g.gen /\ f.seq = g.seq => f = g
    /\ \A f, r \in Around(q) : r.type = "REKEY" /\ f.gen = r.gen => f = r \/ f.seq < r.seq

(* What p seals next comes after all that is around.                         *)
Latest(p, q) ==
    /\ \A f \in Around(q) :
         \/ Len(f.gen) < Len(gen[p])
         \/ /\ f.gen = gen[p] /\ f.seq < tx_seq[p]
            /\ f.type = "REKEY" => job[p].op = "rekey" /\ f = job[p].frame
    /\ job[p].op # "none" => job[p].frame.gen = gen[p] /\ job[p].frame.seq + 1 = tx_seq[p]
    /\ \A a \in acks[p] : a.seq \in Nat /\ (a.gen = gen[p] => a.seq < tx_seq[p])

(* Keys g follow from those of a REKEY that waits in the buffer of q.        *)
Turns(r, g) == r.type = "REKEY" /\ Append(r.gen, r.data[1]) = g
Turned(q, g) == \E r \in Alive(q) : r \in Buffered(q) /\ Turns(r, g)
KeyLine(q) == \A f \in Around(q) : Len(f.gen) > Len(gen[q]) => Turned(q, f.gen)

(* The keys of p are those of q, or p has still to rotate, or q has.         *)
InTune(p, q) ==
    /\ gen[p] = gen[q]
    /\ rx_window_bitmap[q] # {} => rx_seq[q] < tx_seq[p]
    /\ Assembled(q) # <<>> => Expected(q) <= tx_seq[p]
    /\ job[p].op = "rekey" => ~Dead(q, job[p].frame)
Ahead(p, q) ==
    /\ job[p].op = "rekey" /\ gen[q] = Append(gen[p], job[p].frame.data[1])
    /\ rx_window_bitmap[q] = {} /\ Assembled(q) = <<>>
Lags(p, q) == Len(gen[p]) > Len(gen[q]) /\ Turned(q, gen[p])
Keys(p, q) == InTune(p, q) \/ Ahead(p, q) \/ Lags(p, q)

(* An alive frame waits in the buffer, or is the last one, not answered yet. *)
Placed(p, q) ==
    \A f \in Alive(q) : f \notin Buffered(q) =>
        /\ \A g \in Around(q) : ~Before(f, g)
        /\ Going(p) => ~Answered(p) /\ f = job[p].frame
Queued(q) ==
    \A g \in Alive(q) : \A i \in DOMAIN read_buffer[q] :
        ~Dead(q, read_buffer[q][i]) /\ Before(g, read_buffer[q][i]) =>
            \E k \in 1 .. i - 1 : read_buffer[q][k] = g

(* Fragments are in the order of the messages, nothing before an alive frame *)
(* is missing, and a control frame never cuts a message in two.              *)
Sooner(q) ==
    \A f, g \in Alive(q) :
        Fragment(f) /\ Fragment(g) /\ PartBefore(f.data, g.data) => Before(f, g)
NoneMissing(p, q) ==
    \A g \in Alive(q) : Fragment(g) =>
        \A m \in DOMAIN sent[p] : \A i \in DOMAIN sent[p][m] :
            PartBefore(<<p, m, i>>, g.data) => Secured(p, q, <<p, m, i>>)
NoneCut(p, q) ==
    \A f, g \in Alive(q) : Fragment(f) /\ ~Fragment(g) /\ Before(f, g) =>
        AllSecured(p, q, f.data[2])
OneWhole(p, q) ==
    Assembled(q) # <<>> =>
        \A g \in Alive(q) : ~Fragment(g) => AllSecured(p, q, Len(got[p]) + 1)
ConfirmedKept(p, q) == \A m \in confirmed[p] : AllSecured(p, q, m)
EmittedKept(p, q) ==
    Going(p) => \A m \in DOMAIN sent[p] : \A i \in DOMAIN sent[p][m] :
        Emitted(p, <<p, m, i>>) =>
            Holds(Stream(p), <<p, m, i>>) \/ \E f \in Alive(q) : Carries(f, <<p, m, i>>)

(* The frames of a message follow each other.                                *)
Consecutive(q) ==
    \A f, g \in Around(q) : Fragment(f) /\ Fragment(g) /\ f.data[2] = g.data[2] =>
        f.gen = g.gen /\ f.seq + g.data[3] = g.seq + f.data[3]
Partial(p, q) ==
    Assembled(q) # <<>> =>
        /\ Len(got[p]) + 1 \in DOMAIN sent[p]
        /\ Len(Assembled(q)) < Len(sent[p][Len(got[p]) + 1])
        /\ \A i \in DOMAIN Assembled(q) : Assembled(q)[i] = <<p, Len(got[p]) + 1, i>>
        /\ \A f \in Around(q) : Fragment(f) /\ f.data[2] = Len(got[p]) + 1 =>
             f.gen = gen[q] /\ f.seq + Len(Assembled(q)) + 1 = Expected(q) + f.data[3]
        /\ \A g \in Alive(q) : g.gen = gen[q] => g.seq >= Expected(q)
Windowed(q) == rx_window_bitmap[q] = {} => rx_seq[q] = 0

(* No alive frame is so far behind that the stream would drop it.            *)
Young(n, b) == n < W \/ n < b
InReach(p, q) ==
    /\ \A f \in Alive(q) : last_rx_seq[q] < f.seq + W
    /\ \A f, g \in Alive(q) : Before(f, g) => f.seq < g.seq + W
    /\ Going(p) => /\ Young(last_rx_seq[q], tx_seq[p])
                   /\ \A f \in Alive(q) : Young(f.seq, tx_seq[p])
    /\ Going(p) /\ job[p].op = "rekey" =>
         /\ last_rx_seq[q] < W /\ \A f \in Alive(q) : f.seq < W

Numbered(p, q) == Genuine(p, q) /\ Ranked(q) /\ (Going(p) => Latest(p, q))
Rotating(p, q) == KeyLine(q) /\ (Going(p) => Keys(p, q))
Waiting(p, q) == Placed(p, q) /\ Queued(q)
Complete(p, q) ==
    /\ Sooner(q) /\ NoneMissing(p, q) /\ NoneCut(p, q) /\ OneWhole(p, q)
    /\ ConfirmedKept(p, q) /\ EmittedKept(p, q)
Followed(p, q) == Consecutive(q) /\ Partial(p, q) /\ Windowed(q)

Linked(p, q) ==
    /\ Numbered(p, q) /\ Rotating(p, q) /\ Waiting(p, q) /\ Complete(p, q)
    /\ Followed(p, q) /\ InReach(p, q)

Prefix(p) == \A k \in DOMAIN got[p] : k \in DOMAIN sent[p] /\ got[p][k] = sent[p][k]

-----------------------------------------------------------------------------
(* A step that seals nothing, takes nothing and rotates no keys              *)

JobGoes(p) ==
    \/ job'[p].op = job[p].op /\ job'[p].frame = job[p].frame
    \/ /\ job'[p].op = "none"
       /\ \/ ~up'[p]
          \/ job[p].acked /\ job[p].op # "rekey" /\ job[p].frame.type # "DATA_FRAG"

BufferGoes(q) ==
    \/ read_buffer'[q] = read_buffer[q]
    \/ /\ read_buffer[q] # <<>> /\ Dead(q, Head(read_buffer[q]))
       /\ read_buffer'[q] = Tail(read_buffer[q])
    \/ \E f \in Around(q) : read_buffer'[q] = Append(read_buffer[q], f)

AcksGo(p, q) ==
    /\ Going(p)' /\ Answered(p)' /\ ~Answered(p) =>
         job[p].frame \in Buffered(q)' \/ Dead(q, job[p].frame)
    /\ \A a \in acks'[p] :
         a \in acks[p] \/ (a.seq \in Nat /\ (Going(p) /\ a.gen = gen[p] => a.seq < tx_seq[p]))

ConfirmedGoes(p) ==
    \/ confirmed'[p] = confirmed[p]
    \/ /\ job[p].op = "send" /\ job[p].acked /\ job[p].frame.type = "DATA"
       /\ confirmed'[p] = confirmed[p] \union {job[p].frame.data[2]}

Calm(p, q) ==
    /\ UNCHANGED <<gen, tx_seq[p], rx_seq[q], rx_window_bitmap[q], last_rx_seq[q], sent[p],
                   got[p], Assembled(q)>>
    /\ Assembled(q) # <<>> => UNCHANGED Expected(q)
    /\ Around(q)' \subseteq Around(q)
    /\ up'[p] => up[p]
    /\ JobGoes(p) /\ BufferGoes(q) /\ AcksGo(p, q) /\ ConfirmedGoes(p)

-----------------------------------------------------------------------------
(* p seals frame f                                                           *)

NewPart(p, f) ==
    /\ f.data[1] = p /\ f.data[2] \in DOMAIN sent'[p]
    /\ f.data[3] \in DOMAIN sent'[p][f.data[2]]
    /\ f.type = FragType(f.data[3], Len(sent'[p][f.data[2]]))
    /\ \A d \in Fragments : Emitted(p, d) => PartBefore(d, f.data)
    /\ \A m \in DOMAIN sent'[p] : \A i \in DOMAIN sent'[p][m] :
         PartBefore(<<p, m, i>>, f.data) => m \in DOMAIN sent[p] /\ Emitted(p, <<p, m, i>>)
    /\ \/ f.data[2] = Len(sent[p]) + 1
       \/ /\ job[p].op = "send" /\ Fragment(job[p].frame)
          /\ f.data[2] = job[p].frame.data[2] /\ f.data[3] = job[p].frame.data[3] + 1

Seals(p, q, f) ==
    /\ up[p] /\ job[p].op # "rekey" /\ (job[p].op = "none" \/ job[p].acked)
    /\ f \in Frames /\ f.gen = gen[p] /\ f.seq = tx_seq[p] /\ tx_seq'[p] = tx_seq[p] + 1
    /\ job'[p].op # "none" /\ job'[p].frame = f /\ job'[p].acked = FALSE
    /\ job'[p].op = "rekey" <=> f.type = "REKEY"
    /\ net'[q] = net[q] \union {f}
    /\ UNCHANGED <<gen, rx_seq[q], rx_window_bitmap[q], last_rx_seq[q], got[p], Assembled(q),
                   Expected(q), read_buffer[q], PutBy(q), acks[p], confirmed[p]>>
    /\ \A m \in DOMAIN sent[p] : m \in DOMAIN sent'[p] /\ sent'[p][m] = sent[p][m]
    /\ \A m \in DOMAIN sent'[p] : \A i \in DOMAIN sent'[p][m] :
         Emitted(p, <<p, m, i>>)' => \/ m \in DOMAIN sent[p] /\ Emitted(p, <<p, m, i>>)
                                     \/ Carries(f, <<p, m, i>>)
    /\ Fragment(f) => NewPart(p, f)
    /\ ~Fragment(f) => \A m \in DOMAIN sent[p] : \A i \in DOMAIN sent[p][m] :
                           Emitted(p, <<p, m, i>>)
    /\ f.type = "REKEY" => tx_seq[p] < W

-----------------------------------------------------------------------------
(* q takes frame h, the least of the alive ones                              *)

Least(q, h) ==
    /\ h \in Alive(q) /\ h.gen = gen[q]
    /\ \A g \in Alive(q) : g = h \/ Before(h, g)

Consumes(p, q, h) ==
    /\ Least(q, h)
    /\ UNCHANGED <<gen[p], tx_seq[p], sent[p], confirmed[p], job[p], up[p]>>
    /\ Around(q)' \subseteq Around(q)
    /\ last_rx_seq'[q] \in {last_rx_seq[q], Advance(last_rx_seq[q], h.seq)}
    /\ \/ /\ read_buffer[q] # <<>> /\ h = Head(read_buffer[q])
          /\ read_buffer'[q] = Tail(read_buffer[q]) /\ UNCHANGED acks[p]
       \/ /\ read_buffer[q] = <<>> /\ read_buffer'[q] = <<>>
          /\ acks'[p] \subseteq acks[p] \union {Utack(q, h)}

Marked(q, h) ==
    /\ gen'[q] = gen[q] /\ rx_seq'[q] = Advance(rx_seq[q], h.seq)
    /\ rx_window_bitmap'[q] = Slide(rx_seq[q], rx_window_bitmap[q], h.seq)

TakesControl(p, q, h) ==
    /\ ~Fragment(h) /\ h.type # "REKEY" /\ Marked(q, h)
    /\ UNCHANGED got[p] /\ Assembled(q) = <<>> /\ Assembled(q)' = <<>>

TakesRekey(p, q, h) ==
    /\ h.type = "REKEY" /\ gen'[q] = Append(gen[q], h.data[1])
    /\ rx_seq'[q] = 0 /\ rx_window_bitmap'[q] = {}
    /\ UNCHANGED got[p] /\ Assembled(q) = <<>> /\ Assembled(q)' = <<>>

TakesPart(p, q, h) ==
    /\ Fragment(h) /\ Marked(q, h)
    /\ \/ /\ h.type = "DATA" /\ Assembled(q)' = <<>>
          /\ got'[p] = Append(got[p], Append(Assembled(q), h.data))
       \/ /\ h.type = "DATA_FRAG" /\ Assembled(q)' = Append(Assembled(q), h.data)
          /\ UNCHANGED got[p] /\ Expected(q)' = h.seq + 1

Took(p, q, h) ==
    /\ Consumes(p, q, h)
    /\ TakesControl(p, q, h) \/ TakesRekey(p, q, h) \/ TakesPart(p, q, h)

-----------------------------------------------------------------------------
(* p rotates its keys, when its REKEY has been acknowledged                  *)

Rotates(p, q) ==
    /\ job[p].op = "rekey" /\ job[p].acked /\ job'[p].op = "none" /\ acks[p] = {}
    /\ gen'[p] = Append(gen[p], job[p].frame.data[1]) /\ tx_seq'[p] = 0
    /\ UNCHANGED <<gen[q], rx_seq[q], rx_window_bitmap[q], last_rx_seq[q], read_buffer[q],
                   net[q], PutBy(q), acks[p], up[p], sent[p], got[p], confirmed[p],
                   Assembled(q), Expected(q)>>

(* The device in C, and not a Python peer. *)
InC(x) == x = "B" /\ port = "c"

(* The operations of the two peers, and of usmp_recv, as they exclude each   *)
(* other. *)
Settled ==
    /\ acks \in [Peers -> SUBSET [gen : Seq(Salts), type : FrameTypes, seq : Nat]]
    /\ \A p \in Peers : Whole(p)
    /\ port = "c" => read_buffer["B"] = <<>>
    /\ call.called /\ call.pong => call.asm = <<>> /\ job["B"].op \in {"none", "pong"}
    /\ call.called /\ ~call.pong => job["B"].op = "none"
    /\ port = "c" /\ call.called => up["B"]
    /\ \A x \in Peers : job[x].op = "pong" /\ ~InC(x) => up[x] /\ rcv[x].pong

(* An acknowledgement of f by q is one for what p has sent last, or for      *)
(* something it sent before. *)
FedFits(p, q, f) ==
    /\ Going(p) /\ gen[q] = gen[p] => f.seq < tx_seq[p]
    /\ job[p].op # "none" /\ ~job[p].acked /\ gen[q] = gen[p]
       /\ f.seq = job[p].frame.seq /\ f.type = job[p].frame.type => f = job[p].frame

(* Only p rotates, early enough, and acknowledgements are of this use of the *)
(* keys. *)
Favoured(p, q) ==
    /\ job[q].op # "rekey" /\ \A f \in Around(p) : f.type # "REKEY"
    /\ \A f \in net[q] : FedFits(p, q, f)
    /\ InC(q) /\ slot # Empty => FedFits(p, q, slot)
    /\ Ready(p, "rekey") => tx_seq[p] < W
    /\ job[p].op = "rekey" /\ job[p].acked => acks[p] = {}

Handled(p, q) ==
    \/ ~up'[q] /\ UNCHANGED <<got[p], sent[p]>>
    \/ Calm(p, q) \/ (\E f : Seals(p, q, f)) \/ (\E h : Took(p, q, h)) \/ Rotates(p, q)

(* Nothing but operations that end, and acknowledgements. *)
QuietJob(p) ==
    \/ job'[p] = job[p]
    \/ /\ job'[p].op = "none"
       /\ ~up'[p] \/ (job[p].acked /\ job[p].op # "rekey" /\ job[p].frame.type # "DATA_FRAG")
    \/ /\ job'[p].op = job[p].op /\ job'[p].frame = job[p].frame
       /\ \E a \in acks[p] : AckMatches(p, a)

Quiet(p, q) ==
    /\ UNCHANGED <<gen, tx_seq[p], rx_seq[q], rx_window_bitmap[q], last_rx_seq[q],
                   read_buffer[q], sent[p], got[p], Assembled(q)>>
    /\ Assembled(q) # <<>> => UNCHANGED Expected(q)
    /\ net'[q] \subseteq Around(q) /\ PutBy(q)' \subseteq Around(q)
    /\ up'[p] => up[p]
    /\ acks'[p] \subseteq acks[p]
    /\ QuietJob(p) /\ ConfirmedGoes(p)

(* What is common to all of them. *)
Puts(p, q, o, f) ==
    /\ f \in Frames /\ tx_seq'[p] = tx_seq[p] + 1
    /\ job'[p].op = o /\ job'[p].frame = f /\ job'[p].acked = FALSE
    /\ net'[q] = net[q] \union {f}
    /\ UNCHANGED <<gen, rx_seq[q], rx_window_bitmap[q], last_rx_seq[q], got[p],
                   Assembled(q), Expected(q), read_buffer[q], PutBy(q), acks[p], confirmed[p]>>

Ends(x) ==
    \/ Retransmit(x) \/ FinishSend(x) \/ FinishPing(x) \/ FinishBye(x)
    \/ GiveUp(x) \/ (\E a \in acks[x] : FeedAck(x, a)) \/ Lose(x)

Receives(x) == RecvBye(x) \/ RecvPing(x) \/ RecvPong(x) \/ RecvRekey(x) \/ Assemble(x)

-----------------------------------------------------------------------------
(* The steps of the device in C                                              *)

CIdles ==
    \/ CGiveUp \/ (\E f \in net["B"] : CFeedFrame(f)) \/ CRecv \/ CAttemptsSpent
    \/ CPollNothing \/ CFinishPong

CReads(f) ==
    CDrop(f) \/ CRecvPong(f) \/ CRecvBye(f) \/ CRecvPing(f) \/ CRecvData(f) \/ CRecvRekey(f)

-----------------------------------------------------------------------------
(* Every step                                                                *)

Works(x) == Application(x) \/ NextFragment(x) \/ FinishRekey(x) \/ Ends(x)
Listens(x) == FinishPong(x) \/ (\E f \in net[x] : FeedFrame(x, f)) \/ Receiving(x)

(* The ways of a step, for those who prove something of every step. *)
Way(x) ==
    /\ (Works(x) \/ (Listens(x) /\ ~InC(x))) /\ NotC
    /\ InC(x) => CStart \/ CSending \/ Lose("B")
CWay == port = "c" /\ UNCHANGED port /\ (CIdles \/ CStartPong \/ \E f : CReads(f))

(* A PING has been read and not answered. *)
Pongs(x) == IF InC(x) THEN call.called /\ call.pong ELSE rcv[x].pong
Owes(x) == Pongs(x) /\ job[x].op # "pong"

Untouched(y) ==
    /\ UNCHANGED <<script[y], job[y], gen[y], tx_seq[y], sent[y], up[y], rx_seq[y],
                   rx_window_bitmap[y], Pongs(y)>>
    /\ got'[Other(y)] = got[Other(y)]

ByScript(x, o) == Ready(x, o) /\ script'[x] = Tail(script[x])

(* What was asked for. *)
AskedControl(x, o, f) ==
    /\ sent'[x] = sent[x] /\ job[x].op = "none" /\ f.type = ControlOf[o]
    /\ \/ o \in {"rekey", "ping", "bye"} /\ ByScript(x, o)
       \/ o = "pong" /\ script'[x] = script[x] /\ Pongs(x)
AskedMessage(x, o, f) ==
    /\ o = "send" /\ ByScript(x, "send") /\ Fragment(f)
    /\ sent'[x] = Append(sent[x], Message(x, Len(sent[x]) + 1, Head(script[x]).frags))
    /\ f.data = <<x, Len(sent[x]) + 1, 1>>
AskedNext(x, o, f) ==
    /\ o = "send" /\ job[x].op = "send" /\ script'[x] = script[x] /\ sent'[x] = sent[x]
    /\ Fragment(f) /\ f.data[3] = job[x].frame.data[3] + 1
Asked(x, o, f) == AskedControl(x, o, f) \/ AskedMessage(x, o, f) \/ AskedNext(x, o, f)

Sealing(x) ==
    \E o, f : /\ Asked(x, o, f) /\ f.gen = gen[x] /\ up[x]
              /\ tx_seq'[x] = tx_seq[x] + 1 /\ job'[x].op = o /\ job'[x].frame = f
              /\ UNCHANGED <<gen, up, rx_seq, rx_window_bitmap, got, Pongs(x)>>
              /\ Around(x)' \subseteq Around(x)
              /\ Around(Other(x))' \subseteq Around(Other(x)) \union {f}

Lessens(x) ==
    /\ Around(x)' \subseteq Around(x) /\ Around(Other(x))' \subseteq Around(Other(x))
    /\ UNCHANGED <<script[x], sent[x]>> /\ (up'[x] => up[x])
    /\ \A f \in Around(x) : Dead(x, f) => Dead(x, f)'

(* An operation ends, or goes on. *)
EndsWell(x) ==
    /\ job[x].op = "send" /\ up'[x] => job[x].frame.type = "DATA"
    /\ job[x].op = "rekey" /\ up'[x] => gen'[x] # gen[x]

Resting(x) ==
    /\ Lessens(x) /\ UNCHANGED got
    /\ \/ gen'[x] = gen[x] /\ tx_seq'[x] = tx_seq[x]
       \/ /\ job[x].op = "rekey" /\ job'[x].op = "none" /\ tx_seq'[x] = 0
    /\ \/ /\ job'[x].op = job[x].op /\ job'[x].frame = job[x].frame
          /\ job[x].op = "pong" /\ ~InC(x) => UNCHANGED <<up[x], Pongs(x)>>
       \/ job'[x].op = "none" /\ EndsWell(x)
    /\ Owes(x)' => Owes(x)

(* A frame is read. *)
Taking(x) ==
    /\ Lessens(x) /\ up[x] /\ ~Pongs(x) /\ job'[x] = job[x]
    /\ \E h \in Around(x) :
         /\ (gen'[x] = gen[x] /\ tx_seq'[x] = tx_seq[x]) \/ h.type = "REKEY"
         /\ got' = got \/ Fragment(h)
         /\ Owes(x)' => Owes(x) \/ (h.type = "PING" /\ ~Dead(x, h) /\ Dead(x, h)')

Effects(x) ==
    /\ Untouched(Other(x)) /\ UNCHANGED <<timely, interrupts, port>>
    /\ slot' = slot \/ slot' = Empty \/ job["B"].op # "none"
    /\ Sealing(x) \/ Resting(x) \/ Taking(x)

(* What the end of an operation, or an acknowledgement, has in common.       *)
Ending(x, y) ==
    /\ UNCHANGED <<script, sent, got, timely, interrupts, gen, tx_seq, rx_seq, rx_window_bitmap>>
    /\ job'[y] = job[y] /\ up'[y] = up[y] /\ rcv'[y] = rcv[y] /\ (up'[x] => up[x])
    /\ net'[y] \subseteq net[y] \union Pending(x) /\ net'[x] \subseteq net[x]
    /\ Buffered(y)' = Buffered(y) /\ Buffered(x)' \subseteq Around(x)
    /\ \/ /\ job'[x].op = job[x].op /\ job'[x].frame = job[x].frame
          /\ rcv'[x].pong = rcv[x].pong /\ up'[x] = up[x]
       \/ /\ job'[x].op = "none" /\ (rcv'[x].pong => rcv[x].pong /\ job[x].op # "pong")
          /\ (InC(x) => job[x].op # "pong") /\ EndsWell(x)

(* The ends that x has, a device in C without GiveUp and FinishPong. *)
Closes(x) ==
    \/ Retransmit(x) \/ FinishSend(x) \/ FinishPing(x) \/ FinishBye(x)
    \/ (\E a \in acks[x] : FeedAck(x, a)) \/ Lose(x)
    \/ (GiveUp(x) \/ FinishPong(x)) /\ ~InC(x)

(* What is sent, and what is given, with every step. *)
SendsOne(p) ==
    \E n \in 1 .. MaxFrags :
        /\ Ready(p, "send") /\ Head(script[p]).frags = n
        /\ script'[p] = Tail(script[p])
        /\ sent'[p] = Append(sent[p], Message(p, Len(sent[p]) + 1, n))
GivesOne(p) ==
    /\ Len(got[p]) + 1 \in DOMAIN sent[p]
    /\ got'[p] = Append(got[p], sent[p][Len(got[p]) + 1])

-----------------------------------------------------------------------------
(* The operations exclude each other for ever                                *)

AckRecords == [gen : Seq(Salts), type : FrameTypes, seq : Nat]
AcksFit ==
    \/ UNCHANGED acks
    \/ \E z \in Peers : \E s \in SUBSET acks[z] : acks' = [acks EXCEPT ![z] = s]
    \/ \E z \in Peers : \E f \in Frames : SendUtack(z, f)

(* usmp_recv, and the sends that exclude it or are its own. *)
CallOrder ==
    /\ call.called /\ call.pong => call.asm = <<>> /\ job["B"].op \in {"none", "pong"}
    /\ call.called /\ ~call.pong => job["B"].op = "none"
    /\ port = "c" /\ call.called => up["B"]

(* When p has nothing to wait for, nothing is on the way; otherwise its      *)
(* frame is, or one UTACK for it, or nothing. *)
Pends(p) == job[p].op # "none" /\ ~job[p].acked
Delivered(p, q) ==
    Going(p) =>
        /\ ~Pends(p) => net[q] = {} /\ acks[p] = {}
        /\ Pends(p) => /\ net[q] \subseteq {job[p].frame} /\ (net[q] = {} \/ acks[p] = {})
                       /\ \A a, b \in acks[p] : a = b
                       /\ \A a \in acks[p] : /\ a.type = job[p].frame.type
                                             /\ a.seq = job[p].frame.seq

Lightens(p, q) ==
    /\ net'[q] \subseteq net[q] /\ acks'[p] \subseteq acks[p]
    /\ job'[p] = job[p] \/ (job'[p].op = "none" /\ (~Pends(p) \/ ~up'[p]))
Launches(p, q) ==
    /\ up[p] /\ ~Pends(p) /\ Pends(p)'
    /\ net'[q] \subseteq net[q] \union {job'[p].frame} /\ acks'[p] = acks[p]
Repeats(p, q) ==
    /\ Pends(p) /\ job'[p] = job[p] /\ acks'[p] = acks[p]
    /\ \A a \in acks[p] : <<a.type, a.seq>> # <<job[p].frame.type, job[p].frame.seq>>
    /\ net'[q] \subseteq net[q] \union {job[p].frame}
Answers(p, q) ==
    /\ net'[q] = net[q] /\ job'[p].op = job[p].op /\ job'[p].frame = job[p].frame
    /\ \E a \in acks[p] : acks'[p] = acks[p] \ {a}
    /\ job'[p].op # "none" /\ job'[p].acked
Reaches(p, q) ==
    /\ job'[p] = job[p]
    /\ \E f \in net[q] : /\ net'[q] = net[q] \ {f}
                         /\ acks'[p] \subseteq acks[p] \union {Utack(q, f)}

Carrying(p, q) ==
    Lightens(p, q) \/ Launches(p, q) \/ Repeats(p, q) \/ Answers(p, q) \/ Reaches(p, q)

-----------------------------------------------------------------------------
(* A session that keeps its first keys                                       *)

Without(p, o) == \A i \in DOMAIN script[p] : script[p][i].op # o

Plain ==
    /\ \A p \in Peers : gen[p] = <<>> /\ Without(p, "rekey")
    /\ \A q \in Peers : \A f \in Around(q) : f.gen = <<>> /\ f.type # "REKEY"
    /\ \A q \in Peers : up[q] => Linked(Other(q), q)

-----------------------------------------------------------------------------
(* An application that only listens, and a peer that rotates the keys while  *)
(* less than a whole window of frames has been sealed with them.             *)

Early(s, b, k) == \E at \in [1 .. Len(s) + 1 -> Nat] : EarlyAt(s, b, k, at)

(* The PINGs that p may still answer, and the PONGs it can come to send      *)
(* before q has nothing left to ask.                                         *)
Pings(p) == {f \in Alive(p) : f.type = "PING"}
Potential(p, q) == Len(script[q]) + Cardinality(Pings(p)) + (IF Owes(p) THEN 1 ELSE 0)

(* The least sequence the next operation of p can start with.                *)
Base(p) == IF job[p].op = "rekey" THEN 0 ELSE tx_seq[p]
Rest(p) ==
    IF job[p].op = "send" THEN Len(sent[p][Len(sent[p])]) - job[p].frame.data[3] ELSE 0

Budget(p, q) == up[p] => Early(script[p], Base(p) + Rest(p), Potential(p, q))

(* A device in C that listens never sends: nobody asks it to answer.         *)
Unasked(p, q) ==
    /\ slot = Empty /\ job[q].op = "none" /\ script[q] = <<>> /\ ~Owes(q)
    /\ Without(p, "ping") /\ \A f \in Around(q) : f.type # "PING"

(* Peer q only listens, on a timely network, and p rotates its keys early.   *)
Listening(p, q) ==
    /\ timely /\ Without(q, "send") /\ Without(q, "rekey")
    /\ job[q].op \in {"none", "ping", "pong", "bye"}
    /\ \A f \in Around(p) : f.type \in {"PING", "PONG", "BYE"}
    /\ sent[q] = <<>> /\ got[q] = <<>>
    /\ IsFiniteSet(Pings(p)) /\ Budget(p, q) /\ Delivered(p, q)
    /\ InC(q) => Unasked(p, q)
    /\ up[q] => Linked(p, q)

(* What p may have to answer only becomes less.                              *)
Falls(p, q) == IsFiniteSet(Pings(p))' /\ Potential(p, q)' <= Potential(p, q)

(* The messages an application has sent and those it has still to send.      *)
SentWithin == \A p \in Peers : Len(sent[p]) + Sends(script[p]) <= MaxMsgs

(* The invariant of a session that nothing interrupts.                       *)
Orderly ==
    /\ Settled /\ SentWithin /\ \A p \in Peers : Prefix(p)
    /\ Plain \/ \E q \in Peers : Listening(Other(q), q)
LInv == interrupts \/ Orderly

(* Nothing has happened yet.                                                 *)
Unstarted ==
    /\ \A p \in Peers :
         /\ gen[p] = <<>> /\ tx_seq[p] = 0 /\ rx_seq[p] = 0 /\ rx_window_bitmap[p] = {}
         /\ last_rx_seq[p] = -1 /\ read_buffer[p] = <<>> /\ job[p] = Idle /\ rcv[p] = Reading
         /\ up[p] /\ net[p] = {} /\ acks[p] = {} /\ sent[p] = <<>> /\ got[p] = <<>>
         /\ confirmed[p] = {}
    /\ acks = [p \in Peers |-> {}] /\ call = NotCalled /\ slot = Empty

StateVars == <<script, gen, tx_seq, rx_seq, rx_window_bitmap, last_rx_seq, read_buffer, job,
               rcv, up, net, acks, salts, timely, interrupts, sent, got, confirmed, call,
               slot, port>>
=============================================================================
