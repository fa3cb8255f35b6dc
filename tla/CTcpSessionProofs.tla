-------------------------- MODULE CTcpSessionProofs --------------------------
(* For any scripts, fragments, limits and stream, with a Python peer or a    *)
(* device in C: the state keeps its type, the fragments arrive in the order  *)
(* they were sent, and, as long as nothing is interrupted, the session is    *)
(* the channel of Channel.tla.  If besides the keys are rotated only while   *)
(* the other side listens, no frame ever breaks the session.                 *)
(*                                                                           *)
(* The invariant follows the fragments of a peer from its peer's application *)
(* over the stream to the operation that sends them (Lined), and, while      *)
(* nothing is interrupted, requires that the frames on the way lead without  *)
(* a gap from what was read to what was written, both in the messages        *)
(* (Flows) and in keys and sequences (Agrees).                               *)
(*                                                                           *)
(* A step of either peer, whatever the action, writes one frame, takes one,  *)
(* breaks, turns to the next keys, rests or is interrupted (Step).  What     *)
(* such a step preserves comes first, that every action is one of them last. *)
EXTENDS CTcpSession, FiniteSetTheorems, TLAPS

(* A message stays within its peer, its number and its fragments. *)
Fragments == Peers \X Nat \X Nat
Salts == Nat \ {0}
DataTypes == {"DATA", "DATA_FRAG"}
ControlTypes == {"PING", "PONG", "BYE"}

Frames ==
    [gen : Seq(Salts), type : DataTypes, seq : Nat, data : Fragments]
        \union [gen : Seq(Salts), type : {"REKEY"}, seq : Nat, data : Salts]
        \union [gen : Seq(Salts), type : ControlTypes, seq : Nat, data : {0}]
        \union {Torn}

Jobs ==
    {Idle}
        \union [op : {"send"}, type : DataTypes, data : Fragments, paused : BOOLEAN]
        \union [op : {"rekey"}, type : {"REKEY"}, data : Salts, paused : BOOLEAN]
        \union [op : {"ping", "pong", "bye"}, type : ControlTypes, data : {0},
                paused : BOOLEAN]

Assemblies == {m \in Seq(Fragments) : Len(m) < MaxFrags}
RcvStates == [asm : Assemblies, ctrl : Nat, pong : BOOLEAN]

Keyed ==
    /\ salts \in Nat /\ gen \in [Peers -> Seq(Salts)]
    /\ \A p \in Peers : \A i \in DOMAIN gen[p] : gen[p][i] <= salts
    /\ tx_seq \in [Peers -> Nat] /\ rx_seq \in [Peers -> Nat]

Carried ==
    /\ wire \in [Peers -> Seq(Frames)]
    /\ \A q \in Peers : \A j \in DOMAIN wire[q] :
         wire[q][j].type = "REKEY" => wire[q][j].data <= salts

Working ==
    /\ script \in [Peers -> Seq(Operations)] /\ interrupts \in BOOLEAN
    /\ job \in [Peers -> Jobs] /\ rcv \in [Peers -> RcvStates]
    /\ ended \in [Peers -> Reasons]
    /\ \A p \in Peers : /\ job[p].op = "rekey" => job[p].data <= salts
                        /\ rcv[p].pong => rcv[p].asm = <<>>

(* A sender that is not suspended finds room for its next frame. *)
Paced ==
    interrupts \/ \A p \in Peers :
        /\ Len(wire[Other(p)]) <= Cap + 1
        /\ job[p].op = "none" \/ ~job[p].paused => Len(wire[Other(p)]) <= Cap

Told == sent \in [Peers -> Seq(Seq(Fragments))] /\ got \in [Peers -> Seq(Seq(Fragments))]

(* The device in C answers a PING within usmp_recv, before its last read. *)
OnePort ==
    /\ port \in {"python", "c"}
    /\ attempts \in {NotCalled} \union 0 .. MaxAttempts
    /\ port = "python" => attempts = NotCalled
    /\ port = "c" => /\ rcv["B"].pong => attempts \in 0 .. MaxAttempts - 1
                     /\ job["B"].op = "pong" => rcv["B"].pong
                     /\ ended["B"] = "no" => rcv["B"].ctrl <= CtrlLimit

Typed == Keyed /\ Carried /\ Working /\ Paced /\ Told /\ OnePort

-----------------------------------------------------------------------------
(* The order of the fragments                                                *)

(* The messages have their form, and the operation under way has sent last a *)
(* fragment of the last of them, or a control frame.                         *)
Composed(p) ==
    /\ \A m \in DOMAIN sent[p] : \E n \in 1 .. MaxFrags : sent[p][m] = Message(p, m, n)
    /\ job[p].op = "send" =>
         \E i \in 1 .. MaxFrags :
             /\ Len(sent[p]) # 0 /\ i <= Len(sent[p][Len(sent[p])])
             /\ job[p].data = <<p, Len(sent[p]), i>>
             /\ job[p].type = FragType(i, Len(sent[p][Len(sent[p])]))

(* Peer p has written fragment d to the stream. *)
Emitted(p, d) ==
    /\ d[1] = p /\ d[2] \in DOMAIN sent[p] /\ d[3] \in DOMAIN sent[p][d[2]]
    /\ job[p].op = "send" /\ d[2] = Len(sent[p]) => d[3] <= job[p].data[3]

Fragment(f) == f.type \in DataTypes
Last(p, d) == d[3] = Len(sent[p][d[2]])

Genuine(p, f) ==
    Fragment(f) => Emitted(p, f.data) /\ (f.type = "DATA" <=> Last(p, f.data))

(* What the application of p's peer was given, and the message it waits for. *)
Stream(p) == Append(got[p], rcv[Other(p)].asm)
Holds(ss, d) == \E k \in DOMAIN ss : \E i \in DOMAIN ss[k] : ss[k][i] = d

(* Each message given ends with the last fragment of one sent. *)
Ends(p) ==
    \A k \in DOMAIN got[p] :
        /\ got[p][k] # <<>>
        /\ LET d == got[p][k][Len(got[p][k])]
           IN  d[2] >= k /\ Last(p, d)

(* The fragments of p are in order from its peer's application to the end of *)
(* the stream.                                                               *)
Ordered(p) ==
    LET w == wire[Other(p)]
    IN  /\ InOrder(Stream(p))
        /\ \A d : Holds(Stream(p), d) => d \in Fragments /\ Emitted(p, d)
        /\ \A d : Holds(Stream(p), d) =>
             \A j \in DOMAIN w : Fragment(w[j]) => Precedes(d, w[j].data)
        /\ \A i, j \in DOMAIN w :
             i < j /\ Fragment(w[i]) /\ Fragment(w[j]) => Precedes(w[i].data, w[j].data)
        /\ \A j \in DOMAIN w : Genuine(p, w[j])

Lined == \A p \in Peers : Composed(p) /\ Ordered(p) /\ Ends(p)

-----------------------------------------------------------------------------
(* A path through the frames on the way                                      *)

(* Each frame takes its receiver from one place to the next. *)
Path(moves, a, w, b) ==
    \E at : /\ at[0] = a /\ at[Len(w)] = b
            /\ \A j \in 1 .. Len(w) : <<at[j - 1], w[j], at[j]>> \in moves

(* The place in the messages: the number of the current one, and how many of *)
(* its fragments have been passed.                                           *)
MessageMoves ==
    {t \in (Nat \X Nat) \X Frames \X (Nat \X Nat) :
        LET a == t[1]
            f == t[2]
            b == t[3]
        IN  /\ f.type # "torn"
            /\ Fragment(f) => /\ f.data[2] = a[1] /\ f.data[3] = a[2] + 1
                              /\ b = IF f.type = "DATA" THEN <<a[1] + 1, 0>>
                                     ELSE <<a[1], a[2] + 1>>
            /\ ~Fragment(f) => a[2] = 0 /\ b = a}

ReadUpTo(q) == <<Len(got[Other(q)]) + 1, Len(rcv[q].asm)>>
WrittenUpTo(p) ==
    IF job[p].op = "send" /\ job[p].type = "DATA_FRAG"
    THEN <<job[p].data[2], job[p].data[3]>> ELSE <<Len(sent[p]) + 1, 0>>

(* What q has been given is what its peer sent, so far, and what is on the   *)
(* way is the rest.                                                          *)
Flowing(q) ==
    LET p == Other(q)
    IN  /\ \A k \in DOMAIN got[p] : k \in DOMAIN sent[p] /\ got[p][k] = sent[p][k]
        /\ ended[q] = "no" =>
             /\ \A i \in DOMAIN rcv[q].asm : rcv[q].asm[i] = <<p, Len(got[p]) + 1, i>>
             /\ Path(MessageMoves, ReadUpTo(q), wire[q], WrittenUpTo(p))

Flows == interrupts \/ \A q \in Peers : Flowing(q)

(* The keys and the sequence under which a frame is expected. *)
KeyMoves ==
    {t \in (Seq(Salts) \X Nat) \X Frames \X (Seq(Salts) \X Nat) :
        LET a == t[1]
            f == t[2]
            b == t[3]
        IN  /\ f.type # "torn" /\ f.gen = a[1] /\ f.seq = a[2]
            /\ b = IF f.type = "REKEY" THEN <<Append(a[1], f.data), 0>>
                   ELSE <<a[1], a[2] + 1>>}

Reads(q) == <<gen[q], rx_seq[q]>>
Writes(p) ==
    IF job[p].op = "rekey" THEN <<Append(gen[p], job[p].data), 0>> ELSE <<gen[p], tx_seq[p]>>

Agreeing(q) == ended[q] = "no" => Path(KeyMoves, Reads(q), wire[q], Writes(Other(q)))

Calls(p, o) == \E i \in DOMAIN script[p] : script[p][i].op = o
Carries(q, type) == \E j \in DOMAIN wire[q] : wire[q][j].type = type

(* Nobody rotates the keys. *)
NoRekey ==
    \A p \in Peers : /\ ~Calls(p, "rekey") /\ job[p].op # "rekey" /\ ~Carries(p, "REKEY")
                     /\ Agreeing(p)

(* Peer q only listens, and is not asked to answer. *)
Listens(q) ==
    /\ script[q] = <<>> /\ job[q].op = "none" /\ ~rcv[q].pong
    /\ ~Calls(Other(q), "ping") /\ job[Other(q)].op # "ping" /\ ~Carries(q, "PING")
    /\ wire[Other(q)] = <<>>
    /\ Agreeing(q)

(* Keys are rotated, if at all, while the other side only listens. *)
QuietScript(s) ==
    \/ \A p \in Peers : \A i \in DOMAIN s[p] : s[p][i].op # "rekey"
    \/ \E q \in Peers : /\ s[q] = <<>>
                        /\ \A i \in DOMAIN s[Other(q)] : s[Other(q)][i].op # "ping"

RekeysAreQuiet == \A s \in Scripts \union CScripts : QuietScript(s)

Agrees ==
    RekeysAreQuiet /\ ~interrupts =>
        /\ NoRekey \/ \E q \in Peers : Listens(q)
        /\ \A p \in Peers : ended[p] # "broken"

Counted == \A p \in Peers : Len(sent[p]) + Sends(script[p]) <= MaxMsgs

IInv == Typed /\ Lined /\ Flows /\ Agrees /\ Counted

-----------------------------------------------------------------------------
(* What a step does                                                          *)

ScriptsLess ==
    \A p \in Peers : \/ script'[p] = script[p]
                     \/ script[p] # <<>> /\ script'[p] = Tail(script[p])

(* The operation goes on, or ends, without writing. *)
JobKept(p) ==
    \/ job'[p].op = "none"
    \/ job'[p].op = job[p].op /\ job'[p].type = job[p].type /\ job'[p].data = job[p].data

(* Peer p writes frame f: the answer to a PING, the first frame of what its  *)
(* application asks for, or the next fragment.                               *)
Wrote(p, f) ==
    /\ f \in Frames /\ f.type # "torn" /\ f.gen = gen[p] /\ f.seq = tx_seq[p]
    /\ wire' = [wire EXCEPT ![Other(p)] = Append(wire[Other(p)], f)]
    /\ tx_seq' = [tx_seq EXCEPT ![p] = tx_seq[p] + 1]
    /\ job'[Other(p)] = job[Other(p)]
    /\ job'[p].op # "none" /\ job'[p].type = f.type /\ job'[p].data = f.data
    /\ job'[p].op = "send" <=> Fragment(f)
    /\ job'[p].op = "rekey" <=> f.type = "REKEY"
    /\ job'[p].op = "ping" <=> f.type = "PING"
    /\ f.type = "REKEY" => Calls(p, "rekey")
    /\ f.type = "PING" => Calls(p, "ping")
    /\ job[p].op # "none" \/ rcv[p].pong \/ script[p] # <<>>
    /\ ScriptsLess
    /\ UNCHANGED <<gen, rx_seq, rcv, ended, interrupts, got>>

WroteControl(p, f) ==
    Wrote(p, f) /\ ~Fragment(f) /\ job[p].op = "none" /\ UNCHANGED sent

WroteFirst(p, f) ==
    /\ Wrote(p, f) /\ job[p].op = "none"
    /\ \E n \in 1 .. MaxFrags :
         /\ sent' = [sent EXCEPT ![p] = Append(sent[p], Message(p, Len(sent[p]) + 1, n))]
         /\ f.data = <<p, Len(sent[p]) + 1, 1>> /\ f.type = FragType(1, n)

WroteNext(p, f) ==
    /\ Wrote(p, f) /\ job[p].op = "send" /\ job[p].type = "DATA_FRAG" /\ UNCHANGED sent
    /\ f.data = <<p, Len(sent[p]), job[p].data[3] + 1>>
    /\ f.type = FragType(job[p].data[3] + 1, Len(sent[p][Len(sent[p])]))

(* Peer q takes the next frame. *)
Took(q) ==
    /\ ended[q] = "no" /\ wire[q] # <<>> /\ Opens(q, Head(wire[q]))
    /\ wire' = [wire EXCEPT ![q] = Tail(wire[q])]
    /\ IF Head(wire[q]).type = "REKEY" THEN Rotate(q, Head(wire[q]).data)
       ELSE Count(q) /\ UNCHANGED <<gen, tx_seq>>
    /\ rcv'[Other(q)] = rcv[Other(q)] /\ ended'[Other(q)] = ended[Other(q)]
    /\ rcv'[q].pong => rcv[q].pong \/ Head(wire[q]).type = "PING"
    /\ ended'[q] # "broken"
    /\ UNCHANGED <<script, job, interrupts, sent>>

TookControl(q) ==
    Took(q) /\ ~Fragment(Head(wire[q])) /\ rcv'[q].asm = rcv[q].asm /\ UNCHANGED got

TookFragment(q) ==
    /\ Took(q) /\ Head(wire[q]).type = "DATA_FRAG" /\ UNCHANGED got
    /\ rcv'[q].asm = Append(rcv[q].asm, Head(wire[q]).data)

TookMessage(q) ==
    /\ Took(q) /\ Head(wire[q]).type = "DATA" /\ rcv'[q].asm = <<>>
    /\ got' = [got EXCEPT ![Other(q)] =
                 Append(got[Other(q)], Append(rcv[q].asm, Head(wire[q]).data))]

(* Peer q cannot go on. *)
Unfit(q, f) ==
    \/ ~Opens(q, f)
    \/ f.type \in Controls /\ rcv[q].asm # <<>>
    \/ f.type = "DATA_FRAG" /\ Len(rcv[q].asm) + 1 >= MaxFrags

Stuck(q) == wire[q] = <<>> /\ rcv[q].asm # <<>> /\ job[Other(q)].op # "send"

Broke(q) ==
    /\ ended[q] = "no" /\ End(q, "broken")
    /\ \/ wire[q] # <<>> /\ Unfit(q, Head(wire[q])) /\ wire' = [wire EXCEPT ![q] = Tail(wire[q])]
       \/ Stuck(q) /\ UNCHANGED wire
    /\ UNCHANGED <<script, gen, tx_seq, rx_seq, job, rcv, interrupts, sent, got>>

(* Nothing is written or taken. *)
Rested ==
    /\ \A p \in Peers :
         /\ JobKept(p)
         /\ job'[p].op = "none" /\ job[p].op # "none" =>
              job[p].type # "DATA_FRAG" /\ job[p].op # "rekey"
         /\ rcv'[p].asm = rcv[p].asm /\ (rcv'[p].pong => rcv[p].pong)
         /\ ended'[p] = ended[p] \/ (ended[p] = "no" /\ ended'[p] # "broken")
    /\ UNCHANGED <<script, gen, tx_seq, rx_seq, wire, interrupts, sent, got>>

(* What is left of the frames on their way to q. *)
WireLess(q) ==
    \E s \in {0, 1} : \A j \in DOMAIN wire'[q] :
        /\ j + s \in DOMAIN wire[q]
        /\ Fragment(wire'[q][j]) => wire'[q][j] = wire[q][j + s]

Interrupted ==
    /\ interrupts /\ UNCHANGED <<interrupts, sent, got>>
    /\ \A p \in Peers : JobKept(p) /\ rcv'[p].asm \in {rcv[p].asm, <<>>} /\ WireLess(p)

(* Peer p has written its REKEY and changes to the next keys. *)
Turned(p) ==
    /\ ended[p] = "no" /\ job[p].op = "rekey" /\ Rotate(p, job[p].data)
    /\ job' = [job EXCEPT ![p] = Idle]
    /\ UNCHANGED <<script, wire, rcv, ended, interrupts, sent, got>>

Step ==
    \/ \E p \in Peers : \E f : WroteControl(p, f) \/ WroteFirst(p, f) \/ WroteNext(p, f)
    \/ \E q \in Peers : TookControl(q) \/ TookFragment(q) \/ TookMessage(q) \/ Broke(q)
    \/ \E p \in Peers : Turned(p)
    \/ Rested
    \/ Interrupted

-----------------------------------------------------------------------------
(* Peers, frames and operations                                              *)

LEMMA OtherFacts ==
    /\ Other("A") = "B" /\ Other("B") = "A" /\ "A" \in Peers /\ "B" \in Peers
    /\ \A p \in Peers : Other(p) \in Peers /\ Other(Other(p)) = p /\ Other(p) # p
    /\ \A p, q \in Peers : q = p \/ q = Other(p)
<1>1. \A p \in Peers : Other(p) \in Peers /\ Other(p) # p
  <2>1. TAKE p \in Peers
  <2>2. \E q \in Peers : q # p
    BY DEF Peers
  <2>3. QED
    BY <2>2 DEF Other
<1>2. QED
  BY <1>1 DEF Peers

LEMMA FrameFacts ==
    ASSUME NEW f \in Frames
    PROVE  /\ f = Torn <=> f.type = "torn"
           /\ f.type \in DataTypes \union {"REKEY", "torn"} \union ControlTypes
           /\ f.type # "torn" => f.gen \in Seq(Salts) /\ f.seq \in Nat
           /\ f.type \in DataTypes => f.data \in Fragments
           /\ f.type = "REKEY" => f.data \in Salts
<1>1. Torn.type = "torn"
  BY DEF Torn
<1>2. f.type # "torn" <=> f # Torn
  BY <1>1 DEF Frames, DataTypes, ControlTypes
<1>3. f.type \in DataTypes \union {"REKEY", "torn"} \union ControlTypes
  BY <1>1 DEF Frames, DataTypes, ControlTypes
<1>4. f.type # "torn" => f.gen \in Seq(Salts) /\ f.seq \in Nat
  BY <1>1 DEF Frames
<1>5. f.type \in DataTypes => f.data \in Fragments
  BY <1>1 DEF Frames, DataTypes, ControlTypes
<1>6. f.type = "REKEY" => f.data \in Salts
  BY <1>1 DEF Frames, DataTypes, ControlTypes
<1>7. QED
  BY <1>2, <1>3, <1>4, <1>5, <1>6

LEMMA FragmentFacts ==
    /\ \A d \in Fragments : d[1] \in Peers /\ d[2] \in Nat /\ d[3] \in Nat
    /\ \A p \in Peers, m, i \in Nat :
         /\ <<p, m, i>> \in Fragments
         /\ <<p, m, i>>[1] = p /\ <<p, m, i>>[2] = m /\ <<p, m, i>>[3] = i
    /\ \A d \in Fragments : d = <<d[1], d[2], d[3]>>
  BY DEF Fragments

LEMMA JobFacts ==
    ASSUME Typed, NEW p \in Peers
    PROVE  /\ job[p] \in Jobs /\ (job[p] = Idle <=> job[p].op = "none")
           /\ job[p].op \in {"none", "send", "rekey", "ping", "pong", "bye"}
           /\ job[p].op # "none" => job[p].paused \in BOOLEAN
           /\ job[p].op = "send" <=> job[p].op # "none" /\ job[p].type \in DataTypes
           /\ job[p].op = "send" => job[p].data \in Fragments
           /\ job[p].op = "rekey" => job[p].data \in Salts /\ job[p].data <= salts
<1>1. job[p] \in Jobs /\ (job[p].op = "rekey" => job[p].data <= salts)
  BY DEF Typed, Working
<1>2. Idle.op = "none"
  BY DEF Idle
<1>3. /\ (job[p] = Idle <=> job[p].op = "none")
      /\ job[p].op \in {"none", "send", "rekey", "ping", "pong", "bye"}
      /\ job[p].op # "none" => job[p].paused \in BOOLEAN
  BY <1>1, <1>2 DEF Jobs
<1>4. /\ job[p].op = "send" <=> job[p].op # "none" /\ job[p].type \in DataTypes
      /\ job[p].op = "send" => job[p].data \in Fragments
      /\ job[p].op = "rekey" => job[p].data \in Salts
  BY <1>1, <1>2 DEF Jobs, DataTypes, ControlTypes
<1>5. QED
  BY <1>1, <1>3, <1>4

LEMMA RcvFacts ==
    ASSUME Typed, NEW p \in Peers
    PROVE  /\ rcv[p] \in RcvStates /\ rcv[p].asm \in Assemblies /\ rcv[p].asm \in Seq(Fragments)
           /\ Len(rcv[p].asm) < MaxFrags /\ rcv[p].ctrl \in Nat /\ rcv[p].pong \in BOOLEAN
           /\ rcv[p].pong => rcv[p].asm = <<>>
<1>1. rcv[p] \in RcvStates /\ (rcv[p].pong => rcv[p].asm = <<>>)
  BY DEF Typed, Working
<1>2. QED
  BY <1>1 DEF RcvStates, Assemblies

LEMMA ReadingTyped ==
    /\ Reading \in RcvStates /\ Reading.asm = <<>> /\ Reading.pong = FALSE /\ Reading.ctrl = 0
    /\ <<>> \in Assemblies
  BY TcpSessionAssumption DEF Reading, RcvStates, Assemblies

LEMMA MessageFacts ==
    ASSUME NEW p \in Peers, NEW m \in Nat, NEW n \in 1 .. MaxFrags
    PROVE  /\ Message(p, m, n) \in Seq(Fragments) /\ Len(Message(p, m, n)) = n
           /\ DOMAIN Message(p, m, n) = 1 .. n
           /\ \A i \in 1 .. n : Message(p, m, n)[i] = <<p, m, i>>
<1>1. n \in Nat
  BY TcpSessionAssumption
<1>2. \A i \in 1 .. n : <<p, m, i>> \in Fragments
  BY <1>1 DEF Fragments
<1>3. QED
  BY <1>1, <1>2 DEF Message

(* Message m of p and its fragments. *)
LEMMA SentFacts ==
    ASSUME Typed, NEW p \in Peers, Composed(p), NEW m \in DOMAIN sent[p]
    PROVE  /\ m \in Nat \ {0} /\ sent[p][m] \in Seq(Fragments)
           /\ Len(sent[p][m]) \in 1 .. MaxFrags /\ Len(sent[p][m]) \in Nat
           /\ sent[p][m] = Message(p, m, Len(sent[p][m]))
           /\ DOMAIN sent[p][m] = 1 .. Len(sent[p][m])
           /\ \A i \in DOMAIN sent[p][m] : sent[p][m][i] = <<p, m, i>>
<1>1. PICK n \in 1 .. MaxFrags : sent[p][m] = Message(p, m, n)
  BY DEF Composed
<1>2. m \in Nat \ {0} /\ sent[p] \in Seq(Seq(Fragments))
  BY DEF Typed, Told
<1>3. n \in Nat
  BY TcpSessionAssumption
<1>4. /\ Message(p, m, n) \in Seq(Fragments) /\ Len(Message(p, m, n)) = n
      /\ DOMAIN Message(p, m, n) = 1 .. n
      /\ \A i \in 1 .. n : Message(p, m, n)[i] = <<p, m, i>>
  BY <1>1, <1>2, MessageFacts
<1>5. QED
  BY <1>1, <1>2, <1>3, <1>4

LEMMA WireFacts ==
    ASSUME Typed, NEW q \in Peers
    PROVE  /\ wire[q] \in Seq(Frames)
           /\ \A j \in DOMAIN wire[q] :
                /\ j \in Nat /\ wire[q][j] \in Frames
                /\ wire[q][j].type = "REKEY" => wire[q][j].data \in Salts /\ wire[q][j].data <= salts
           /\ wire[q] # <<>> =>
                /\ 1 \in DOMAIN wire[q] /\ Head(wire[q]) = wire[q][1] /\ Head(wire[q]) \in Frames
                /\ Tail(wire[q]) \in Seq(Frames) /\ Len(Tail(wire[q])) = Len(wire[q]) - 1
                /\ \A j \in DOMAIN Tail(wire[q]) :
                     j + 1 \in DOMAIN wire[q] /\ Tail(wire[q])[j] = wire[q][j + 1]
<1>1. wire[q] \in Seq(Frames)
      /\ \A j \in DOMAIN wire[q] : wire[q][j].type = "REKEY" => wire[q][j].data <= salts
  BY DEF Typed, Carried
<1>2. \A j \in DOMAIN wire[q] : j \in Nat /\ wire[q][j] \in Frames
  BY <1>1
<1>3. \A j \in DOMAIN wire[q] : wire[q][j].type = "REKEY" => wire[q][j].data \in Salts
  BY <1>2, FrameFacts
<1>4. QED
  BY <1>1, <1>2, <1>3

-----------------------------------------------------------------------------
(* The order of a stream of messages                                         *)

LEMMA PrecedesFacts ==
    ASSUME NEW d \in Fragments, NEW e \in Fragments, NEW g \in Fragments
    PROVE  Precedes(d, e) /\ Precedes(e, g) => Precedes(d, g)
  BY FragmentFacts DEF Precedes

(* A message that is forgotten leaves less. *)
LEMMA ForgottenLess ==
    ASSUME NEW g \in Seq(Seq(Fragments)), NEW a \in Seq(Fragments)
    PROVE  /\ InOrder(Append(g, a)) => InOrder(Append(g, <<>>))
           /\ \A d : Holds(Append(g, <<>>), d) => Holds(Append(g, a), d)
<1>1. /\ DOMAIN Append(g, <<>>) = DOMAIN Append(g, a)
      /\ \A k \in DOMAIN Append(g, a) :
           \/ Append(g, <<>>)[k] = Append(g, a)[k]
           \/ Append(g, <<>>)[k] = <<>>
  OBVIOUS
<1>2. DOMAIN <<>> = {}
  OBVIOUS
<1>3. QED
  BY <1>1, <1>2 DEF InOrder, Holds

(* A whole message handed out is what was assembled. *)
LEMMA FlushedSame ==
    ASSUME NEW g \in Seq(Seq(Fragments)), NEW a \in Seq(Fragments)
    PROVE  /\ InOrder(Append(g, a)) => InOrder(Append(Append(g, a), <<>>))
           /\ \A d : Holds(Append(Append(g, a), <<>>), d) => Holds(Append(g, a), d)
<1> DEFINE old == Append(g, a)
           new == Append(Append(g, a), <<>>)
<1>1. /\ DOMAIN new = 1 .. Len(g) + 2 /\ DOMAIN old = 1 .. Len(g) + 1 /\ Len(g) \in Nat
      /\ new[Len(g) + 2] = <<>> /\ \A k \in DOMAIN old : new[k] = old[k]
  OBVIOUS
<1>2. \A k \in DOMAIN new : DOMAIN new[k] # {} => k \in DOMAIN old
  <2>1. DOMAIN <<>> = {}
    OBVIOUS
  <2>2. QED
    BY <1>1, <2>1
<1> HIDE DEF old, new
<1>3. \A k \in DOMAIN old : new[k] = old[k]
  BY <1>1
<1>4. QED
  <2>1. InOrder(old) => InOrder(new)
    BY <1>2, <1>3 DEF InOrder
  <2>2. \A d : Holds(new, d) => Holds(old, d)
    BY <1>2, <1>3 DEF Holds
  <2>3. QED
    BY <2>1, <2>2 DEF old, new

(* One fragment more, which follows those that were taken. *)
LEMMA ExtendedByOne ==
    ASSUME NEW g \in Seq(Seq(Fragments)), NEW a \in Seq(Fragments), NEW e \in Fragments,
           \A d : Holds(Append(g, a), d) => Precedes(d, e)
    PROVE  /\ InOrder(Append(g, a)) => InOrder(Append(g, Append(a, e)))
           /\ \A d : Holds(Append(g, Append(a, e)), d) => Holds(Append(g, a), d) \/ d = e
<1> DEFINE old == Append(g, a)
           new == Append(g, Append(a, e))
           last == Len(g) + 1
<1>1. DOMAIN new = DOMAIN old /\ DOMAIN old = 1 .. last /\ last \in DOMAIN old /\ old[last] = a
      /\ last \in Nat /\ \A k \in DOMAIN old : k # last => new[k] = old[k]
  OBVIOUS
<1>2. /\ new[last] = Append(a, e) /\ DOMAIN Append(a, e) = 1 .. Len(a) + 1
      /\ DOMAIN a = 1 .. Len(a) /\ Len(a) \in Nat
      /\ Append(a, e)[Len(a) + 1] = e
      /\ \A i \in 1 .. Len(a) : Append(a, e)[i] = a[i]
  OBVIOUS
<1> HIDE DEF old, new, last
<1>3. \A k \in DOMAIN new : \A i \in DOMAIN new[k] :
         \/ k = last /\ i = Len(a) + 1 /\ new[k][i] = e
         \/ k \in DOMAIN old /\ i \in DOMAIN old[k] /\ new[k][i] = old[k][i]
  <2>1. TAKE k \in DOMAIN new
  <2>2. TAKE i \in DOMAIN new[k]
  <2>3. CASE k = last
    <3>1. i \in 1 .. Len(a) + 1 /\ new[k][i] = Append(a, e)[i]
      BY <1>2, <2>3
    <3>2. i = Len(a) + 1 \/ i \in 1 .. Len(a)
      BY <1>2, <3>1
    <3>3. QED
      BY <1>1, <1>2, <2>3, <3>1, <3>2
  <2>4. CASE k # last
    BY <1>1, <2>4
  <2>5. QED
    BY <2>3, <2>4
<1>4. \A k \in DOMAIN old : \A i \in DOMAIN old[k] : Precedes(old[k][i], e)
  BY DEF Holds, old
<1>5. ASSUME InOrder(old), NEW k \in DOMAIN new, NEW l \in DOMAIN new,
             NEW i \in DOMAIN new[k], NEW j \in DOMAIN new[l], k < l \/ (k = l /\ i < j)
      PROVE  Precedes(new[k][i], new[l][j])
  <2>1. CASE k = last /\ i = Len(a) + 1
    <3>1. l = last /\ i < j /\ j \in 1 .. Len(a) + 1
      BY <1>1, <1>2, <1>5, <2>1
    <3>2. QED
      BY <1>2, <2>1, <3>1
  <2>2. CASE k \in DOMAIN old /\ i \in DOMAIN old[k] /\ new[k][i] = old[k][i]
    <3>1. CASE l = last /\ j = Len(a) + 1 /\ new[l][j] = e
      BY <1>4, <2>2, <3>1
    <3>2. CASE l \in DOMAIN old /\ j \in DOMAIN old[l] /\ new[l][j] = old[l][j]
      BY <1>5, <2>2, <3>2 DEF InOrder
    <3>3. QED
      BY <1>3, <3>1, <3>2
  <2>3. QED
    BY <1>3, <2>1, <2>2
<1>6. InOrder(old) => InOrder(new)
  BY <1>5 DEF InOrder
<1>7. \A d : Holds(new, d) => Holds(old, d) \/ d = e
  BY <1>3 DEF Holds
<1>8. QED
  BY <1>6, <1>7 DEF old, new

-----------------------------------------------------------------------------
(* Paths                                                                     *)

LEMMA PathEnds ==
    ASSUME NEW moves, NEW a, NEW b
    PROVE  Path(moves, a, <<>>, b) <=> a = b
<1>1. ASSUME a = b PROVE Path(moves, a, <<>>, b)
  <2>1. PICK at : at = [j \in {0} |-> a]
    OBVIOUS
  <2>2. at[0] = a /\ Len(<<>>) = 0 /\ 1 .. 0 = {}
    BY <2>1
  <2>3. QED
    BY <1>1, <2>2 DEF Path
<1>2. QED
  BY <1>1 DEF Path

LEMMA PathGrows ==
    ASSUME NEW moves, NEW w \in Seq(Frames), NEW a, NEW b, NEW c, NEW f \in Frames,
           Path(moves, a, w, b), <<b, f, c>> \in moves
    PROVE  Path(moves, a, Append(w, f), c)
<1>1. PICK at : /\ at[0] = a /\ at[Len(w)] = b
                /\ \A j \in 1 .. Len(w) : <<at[j - 1], w[j], at[j]>> \in moves
  BY DEF Path
<1>2. PICK to : to = [j \in 0 .. Len(w) + 1 |-> IF j <= Len(w) THEN at[j] ELSE c]
  OBVIOUS
<1>3. /\ Len(w) \in Nat /\ Len(Append(w, f)) = Len(w) + 1 /\ Append(w, f)[Len(w) + 1] = f
      /\ \A j \in 1 .. Len(w) : Append(w, f)[j] = w[j]
  OBVIOUS
<1>4. to[0] = a /\ to[Len(w) + 1] = c /\ \A j \in 0 .. Len(w) : to[j] = at[j]
  BY <1>1, <1>2, <1>3
<1>5. ASSUME NEW j \in 1 .. Len(w) + 1
      PROVE  <<to[j - 1], Append(w, f)[j], to[j]>> \in moves
  <2>1. CASE j = Len(w) + 1
    BY <1>1, <1>3, <1>4, <2>1
  <2>2. CASE j # Len(w) + 1
    <3>1. j \in 1 .. Len(w) /\ j - 1 \in 0 .. Len(w) /\ j \in 0 .. Len(w)
      BY <1>3, <2>2
    <3>2. QED
      BY <1>1, <1>3, <1>4, <3>1
  <2>3. QED
    BY <2>1, <2>2
<1>6. QED
  BY <1>3, <1>4, <1>5 DEF Path

LEMMA PathStarts ==
    ASSUME NEW moves, NEW w \in Seq(Frames), w # <<>>, NEW a, NEW b, Path(moves, a, w, b)
    PROVE  \E c : <<a, Head(w), c>> \in moves /\ Path(moves, c, Tail(w), b)
<1>1. PICK at : /\ at[0] = a /\ at[Len(w)] = b
                /\ \A j \in 1 .. Len(w) : <<at[j - 1], w[j], at[j]>> \in moves
  BY DEF Path
<1>2. PICK to : to = [j \in 0 .. Len(w) - 1 |-> at[j + 1]]
  OBVIOUS
<1>3. /\ Len(w) \in Nat /\ Len(w) >= 1 /\ Head(w) = w[1] /\ Len(Tail(w)) = Len(w) - 1
      /\ \A j \in 1 .. Len(w) - 1 : Tail(w)[j] = w[j + 1]
  OBVIOUS
<1>4. /\ to[0] = at[1] /\ to[Len(w) - 1] = b /\ <<a, Head(w), at[1]>> \in moves
  <2>1. 0 \in 0 .. Len(w) - 1 /\ Len(w) - 1 \in 0 .. Len(w) - 1 /\ 1 \in 1 .. Len(w)
        /\ 0 + 1 = 1 /\ (Len(w) - 1) + 1 = Len(w) /\ 1 - 1 = 0
    BY <1>3
  <2>2. to[0] = at[0 + 1] /\ to[Len(w) - 1] = at[(Len(w) - 1) + 1]
    BY <1>2, <2>1
  <2>3. QED
    BY <1>1, <1>3, <2>1, <2>2
<1>5. ASSUME NEW j \in 1 .. Len(w) - 1 PROVE <<to[j - 1], Tail(w)[j], to[j]>> \in moves
  <2>1. j - 1 \in 0 .. Len(w) - 1 /\ j \in 0 .. Len(w) - 1 /\ (j - 1) + 1 = j
        /\ j + 1 \in 1 .. Len(w) /\ (j + 1) - 1 = j
    BY <1>3
  <2>2. to[j - 1] = at[j] /\ to[j] = at[j + 1] /\ Tail(w)[j] = w[j + 1]
    BY <1>2, <1>3, <2>1
  <2>3. QED
    BY <1>1, <2>1, <2>2
<1>6. QED
  BY <1>3, <1>4, <1>5 DEF Path

-----------------------------------------------------------------------------
(* The fragments of p stay in order                                          *)

InLine(p) == Composed(p) /\ Ordered(p) /\ Ends(p)

(* What a step leaves of the fragments of p, if it adds none. *)
Passes(p) ==
    /\ sent'[p] = sent[p] /\ got'[p] = got[p] /\ JobKept(p)
    /\ rcv'[Other(p)].asm \in {rcv[Other(p)].asm, <<>>} /\ WireLess(Other(p))

LEMMA StreamIs ==
    ASSUME NEW p, NEW ss, (Stream(p))' = ss
    PROVE  /\ InOrder(Stream(p))' <=> InOrder(ss)
           /\ \A d : Holds(Stream(p), d)' <=> Holds(ss, d)
  BY DEF InOrder, Holds

LEMMA StreamTyped ==
    ASSUME Typed, NEW p \in Peers
    PROVE  /\ sent[p] \in Seq(Seq(Fragments)) /\ got[p] \in Seq(Seq(Fragments))
           /\ rcv[Other(p)].asm \in Seq(Fragments) /\ Stream(p) \in Seq(Seq(Fragments))
           /\ Len(Stream(p)) = Len(got[p]) + 1 /\ Len(got[p]) \in Nat /\ Len(sent[p]) \in Nat
           /\ \A k \in DOMAIN got[p] : k \in DOMAIN Stream(p) /\ Stream(p)[k] = got[p][k]
                                       /\ got[p][k] \in Seq(Fragments)
<1>1. sent[p] \in Seq(Seq(Fragments)) /\ got[p] \in Seq(Seq(Fragments))
  BY DEF Typed, Told
<1>2. rcv[Other(p)].asm \in Seq(Fragments)
  BY OtherFacts, RcvFacts
<1>3. QED
  BY <1>1, <1>2 DEF Stream

LEMMA PassingKeeps ==
    ASSUME Typed, Typed', NEW p \in Peers, InLine(p), Passes(p)
    PROVE  InLine(p)'
<1>1. Composed(p) /\ Ordered(p) /\ Ends(p)
  BY DEF InLine
<1>2. Composed(p)'
  BY <1>1 DEF Composed, Passes, JobKept
<1>3. \A d : Emitted(p, d) => Emitted(p, d)'
  BY DEF Emitted, Passes, JobKept
<1>4. InOrder(Stream(p))' /\ \A d : Holds(Stream(p), d)' => Holds(Stream(p), d)
  <2>1. got[p] \in Seq(Seq(Fragments)) /\ rcv[Other(p)].asm \in Seq(Fragments)
        /\ InOrder(Stream(p))
    BY <1>1, StreamTyped DEF Ordered
  <2>2. Stream(p)' = Stream(p) \/ Stream(p)' = Append(got[p], <<>>)
    BY OtherFacts DEF Stream, Passes
  <2>3. CASE Stream(p)' = Stream(p)
    BY <2>1, <2>3, StreamIs
  <2>4. CASE Stream(p)' = Append(got[p], <<>>)
    <3>1. InOrder(Append(got[p], <<>>))
          /\ \A d : Holds(Append(got[p], <<>>), d) => Holds(Stream(p), d)
      BY <2>1, ForgottenLess DEF Stream
    <3>2. QED
      BY <2>4, <3>1, StreamIs
  <2>5. QED
    BY <2>2, <2>3, <2>4
<1>5. PICK s \in {0, 1} : \A j \in DOMAIN wire'[Other(p)] :
        /\ j + s \in DOMAIN wire[Other(p)]
        /\ Fragment(wire'[Other(p)][j]) => wire'[Other(p)][j] = wire[Other(p)][j + s]
  BY DEF Passes, WireLess
<1> DEFINE w == wire[Other(p)]
           v == wire'[Other(p)]
<1>6. /\ InOrder(Stream(p))
      /\ \A d : Holds(Stream(p), d) => d \in Fragments /\ Emitted(p, d)
      /\ \A d : Holds(Stream(p), d) => \A j \in DOMAIN w : Fragment(w[j]) => Precedes(d, w[j].data)
      /\ \A i, j \in DOMAIN w :
           i < j /\ Fragment(w[i]) /\ Fragment(w[j]) => Precedes(w[i].data, w[j].data)
      /\ \A j \in DOMAIN w : Genuine(p, w[j])
  BY <1>1 DEF Ordered
<1>7. wire[Other(p)] \in Seq(Frames) /\ wire'[Other(p)] \in Seq(Frames)
  BY OtherFacts DEF Typed, Carried
<1>8. \A i, j \in DOMAIN v :
        i < j /\ Fragment(v[i]) /\ Fragment(v[j]) => Precedes(v[i].data, v[j].data)
  <2>1. TAKE i, j \in DOMAIN v
  <2>2. HAVE i < j /\ Fragment(v[i]) /\ Fragment(v[j])
  <2>3. i + s \in DOMAIN w /\ j + s \in DOMAIN w /\ v[i] = w[i + s] /\ v[j] = w[j + s]
    BY <1>5, <2>2
  <2>4. i + s < j + s
    BY <1>7, <2>2
  <2>5. QED
    BY <1>6, <2>2, <2>3, <2>4
<1>9. \A d : Holds(Stream(p), d)' => \A j \in DOMAIN v : Fragment(v[j]) => Precedes(d, v[j].data)
  BY <1>4, <1>5, <1>6
<1>10. (\A j \in DOMAIN wire[Other(p)] : Genuine(p, wire[Other(p)][j]))'
  BY <1>3, <1>5, <1>6 DEF Genuine, Fragment, Last, Passes
<1>11. \A d : Holds(Stream(p), d)' => d \in Fragments /\ Emitted(p, d)'
  BY <1>3, <1>4, <1>6
<1>12. Ordered(p)'
  BY <1>4, <1>8, <1>9, <1>10, <1>11 DEF Ordered, Fragment
<1>13. Ends(p)'
  BY <1>1 DEF Ends, Passes, Last
<1>14. QED
  BY <1>2, <1>12, <1>13 DEF InLine

LEMMA WroteFacts ==
    ASSUME Typed, NEW p \in Peers, NEW f, Wrote(p, f)
    PROVE  /\ f \in Frames /\ f.type # "torn"
           /\ wire'[Other(p)] = Append(wire[Other(p)], f) /\ wire'[p] = wire[p]
           /\ wire[Other(p)] \in Seq(Frames) /\ Len(wire[Other(p)]) \in Nat
           /\ DOMAIN wire'[Other(p)] = 1 .. Len(wire[Other(p)]) + 1
           /\ DOMAIN wire[Other(p)] = 1 .. Len(wire[Other(p)])
           /\ wire'[Other(p)][Len(wire[Other(p)]) + 1] = f
           /\ \A j \in DOMAIN wire[Other(p)] : wire'[Other(p)][j] = wire[Other(p)][j]
           /\ tx_seq'[p] = tx_seq[p] + 1 /\ tx_seq'[Other(p)] = tx_seq[Other(p)]
           /\ job'[Other(p)] = job[Other(p)]
<1>1. wire \in [Peers -> Seq(Frames)] /\ tx_seq \in [Peers -> Nat]
  BY DEF Typed, Carried, Keyed
<1>2. /\ wire'[Other(p)] = Append(wire[Other(p)], f) /\ wire'[p] = wire[p]
      /\ wire[Other(p)] \in Seq(Frames) /\ f \in Frames /\ f.type # "torn"
  BY <1>1, OtherFacts DEF Wrote
<1>3. tx_seq'[p] = tx_seq[p] + 1 /\ tx_seq'[Other(p)] = tx_seq[Other(p)]
  BY <1>1, OtherFacts DEF Wrote
<1>4. QED
  BY <1>2, <1>3 DEF Wrote

LEMMA NotWrittenPasses ==
    ASSUME Typed, NEW p \in Peers, NEW f, Wrote(p, f), sent'[Other(p)] = sent[Other(p)]
    PROVE  Passes(Other(p))
<1>1. Other(Other(p)) = p /\ wire'[p] = wire[p] /\ job'[Other(p)] = job[Other(p)]
  BY OtherFacts, WroteFacts
<1>2. got' = got /\ rcv' = rcv
  BY DEF Wrote
<1>3. \A j \in DOMAIN wire'[p] : j + 0 = j
  BY <1>1, WireFacts
<1>4. WireLess(p)
  BY <1>1, <1>3 DEF WireLess
<1>5. QED
  BY <1>1, <1>2, <1>4 DEF Passes, JobKept

(* A frame goes to the end of the line. *)
LEMMA WritingKeeps ==
    ASSUME Typed, Typed', NEW p \in Peers, InLine(p), NEW f, Wrote(p, f), Composed(p)',
           \A d \in Fragments : Emitted(p, d) =>
             /\ Emitted(p, d)' /\ (Last(p, d) <=> Last(p, d)')
             /\ Fragment(f) => Precedes(d, f.data),
           Genuine(p, f)'
    PROVE  InLine(p)'
<1> DEFINE w == wire[Other(p)]
           v == wire'[Other(p)]
<1>1. /\ Composed(p) /\ Ordered(p) /\ Ends(p)
      /\ got' = got /\ rcv' = rcv
  BY DEF InLine, Wrote
<1>2. Stream(p)' = Stream(p)
  BY <1>1 DEF Stream
<1>3. /\ InOrder(Stream(p))
      /\ \A d : Holds(Stream(p), d) => d \in Fragments /\ Emitted(p, d)
      /\ \A d : Holds(Stream(p), d) => \A j \in DOMAIN w : Fragment(w[j]) => Precedes(d, w[j].data)
      /\ \A i, j \in DOMAIN w :
           i < j /\ Fragment(w[i]) /\ Fragment(w[j]) => Precedes(w[i].data, w[j].data)
      /\ \A j \in DOMAIN w : Genuine(p, w[j])
  BY <1>1 DEF Ordered
<1>4. /\ DOMAIN v = 1 .. Len(w) + 1 /\ DOMAIN w = 1 .. Len(w) /\ Len(w) \in Nat
      /\ v[Len(w) + 1] = f /\ \A j \in DOMAIN w : v[j] = w[j] /\ w[j] \in Frames
  BY WroteFacts
<1>5. \A j \in DOMAIN v : j \in DOMAIN w \/ j = Len(w) + 1
  BY <1>4
<1>6. \A j \in DOMAIN w : Fragment(w[j]) => w[j].data \in Fragments /\ Emitted(p, w[j].data)
  BY <1>3, <1>4, FrameFacts DEF Genuine, Fragment
<1>7. InOrder(Stream(p))' /\ \A d : Holds(Stream(p), d)' <=> Holds(Stream(p), d)
  BY <1>2, <1>3, StreamIs
<1>8. \A d : Holds(Stream(p), d)' => d \in Fragments /\ Emitted(p, d)'
  BY <1>3, <1>7
<1>9. \A d : Holds(Stream(p), d)' => \A j \in DOMAIN v : Fragment(v[j]) => Precedes(d, v[j].data)
  BY <1>3, <1>4, <1>5, <1>7
<1>10. \A i, j \in DOMAIN v :
        i < j /\ Fragment(v[i]) /\ Fragment(v[j]) => Precedes(v[i].data, v[j].data)
  <2>1. TAKE i, j \in DOMAIN v
  <2>2. HAVE i < j /\ Fragment(v[i]) /\ Fragment(v[j])
  <2>3. i \in DOMAIN w
    BY <1>4, <2>2
  <2>4. CASE j \in DOMAIN w
    BY <1>3, <1>4, <2>2, <2>3, <2>4
  <2>5. CASE j = Len(w) + 1
    BY <1>4, <1>6, <2>2, <2>3, <2>5
  <2>6. QED
    BY <1>5, <2>4, <2>5
<1>11. (\A j \in DOMAIN wire[Other(p)] : Genuine(p, wire[Other(p)][j]))'
  <2>1. ASSUME NEW j \in DOMAIN v, NEW g, g = v[j] PROVE Genuine(p, g)'
    <3>1. CASE j \in DOMAIN w
      <4>1. Genuine(p, g) /\ (Fragment(g) => g.data \in Fragments /\ Emitted(p, g.data))
        BY <1>3, <1>4, <1>6, <2>1, <3>1
      <4>2. Fragment(g) => Emitted(p, g.data)' /\ (Last(p, g.data) <=> Last(p, g.data)')
        BY <4>1
      <4>3. QED
        BY <4>1, <4>2 DEF Genuine, Fragment
    <3>2. CASE j = Len(w) + 1
      <4>1. g = f
        BY <1>4, <2>1, <3>2
      <4>2. QED
        BY <4>1
    <3>3. QED
      BY <1>5, <2>1, <3>1, <3>2
  <2>2. QED
    BY <2>1
<1>12. Ordered(p)'
  BY <1>7, <1>8, <1>9, <1>10, <1>11 DEF Ordered, Fragment
<1>13. Ends(p)'
  <2>1. ASSUME NEW k \in DOMAIN got[p], NEW d, d = got[p][k][Len(got[p][k])]
        PROVE  got[p][k] # <<>> /\ d[2] >= k /\ Last(p, d)'
    <3>1. got[p][k] # <<>> /\ d[2] >= k /\ Last(p, d)
      BY <1>1, <2>1 DEF Ends
    <3>2. Holds(Stream(p), d)
      BY <2>1, <3>1, StreamTyped DEF Holds
    <3>3. QED
      BY <1>3, <3>1, <3>2
  <2>2. QED
    BY <1>1, <2>1 DEF Ends
<1>14. QED
  BY <1>12, <1>13 DEF InLine

LEMMA ControlInLine ==
    ASSUME Typed, Typed', NEW p \in Peers, InLine(p), NEW f, WroteControl(p, f)
    PROVE  InLine(p)'
<1>1. Wrote(p, f) /\ ~Fragment(f) /\ job[p].op = "none" /\ sent' = sent /\ job'[p].op # "send"
  BY DEF WroteControl, Wrote
<1>2. Composed(p)'
  BY <1>1 DEF InLine, Composed
<1>3. \A d : Emitted(p, d) => Emitted(p, d)' /\ (Last(p, d) <=> Last(p, d)')
  BY <1>1 DEF Emitted, Last
<1>4. Genuine(p, f)'
  BY <1>1 DEF Genuine, Fragment
<1>5. QED
  BY <1>1, <1>2, <1>3, <1>4, WritingKeeps

LEMMA FirstInLine ==
    ASSUME Typed, Typed', NEW p \in Peers, InLine(p), NEW f, WroteFirst(p, f)
    PROVE  InLine(p)'
<1> DEFINE s == sent[p]
           t == sent'[p]
           m == Len(sent[p]) + 1
<1>1. PICK n \in 1 .. MaxFrags :
         /\ sent' = [sent EXCEPT ![p] = Append(sent[p], Message(p, Len(sent[p]) + 1, n))]
         /\ f.data = <<p, Len(sent[p]) + 1, 1>> /\ f.type = FragType(1, n)
  BY DEF WroteFirst
<1>2. Wrote(p, f) /\ job[p].op = "none"
  BY DEF WroteFirst
<1>3. f.type \in DataTypes /\ Fragment(f)
  BY <1>1 DEF FragType, DataTypes, Fragment
<1>4. /\ s \in Seq(Seq(Fragments)) /\ m \in Nat /\ t = Append(s, Message(p, m, n))
      /\ n \in Nat /\ n >= 1 /\ Len(s) \in Nat
  BY <1>1, TcpSessionAssumption DEF Typed, Told
<1>5. /\ Message(p, m, n) \in Seq(Fragments) /\ Len(Message(p, m, n)) = n
      /\ DOMAIN Message(p, m, n) = 1 .. n
  BY <1>4, MessageFacts
<1>6. /\ DOMAIN t = 1 .. m /\ DOMAIN s = 1 .. Len(s) /\ Len(t) = m /\ t[m] = Message(p, m, n)
      /\ \A k \in DOMAIN s : t[k] = s[k]
  BY <1>4, <1>5
<1>7. job'[p].op = "send" /\ job'[p].data = <<p, m, 1>> /\ job'[p].type = FragType(1, n)
  BY <1>1, <1>2, <1>3 DEF Wrote
<1> HIDE DEF s, t, m
<1>8. Composed(p)'
  <2>1. \A k \in DOMAIN t : \E i \in 1 .. MaxFrags : t[k] = Message(p, k, i)
    BY <1>4, <1>6 DEF InLine, Composed, s
  <2>2. 1 \in 1 .. MaxFrags /\ Len(t) # 0 /\ 1 <= Len(t[Len(t)])
        /\ job'[p].data = <<p, Len(t), 1>> /\ job'[p].type = FragType(1, Len(t[Len(t)]))
    BY <1>4, <1>5, <1>6, <1>7, TcpSessionAssumption DEF s, m
  <2>3. QED
    BY <2>1, <2>2 DEF Composed, t
<1>9. \A d \in Fragments : Emitted(p, d) =>
         /\ Emitted(p, d)' /\ (Last(p, d) <=> Last(p, d)')
         /\ Precedes(d, f.data)
  <2>1. TAKE d \in Fragments
  <2>2. HAVE Emitted(p, d)
  <2>3. d[1] = p /\ d[2] \in DOMAIN s /\ d[3] \in DOMAIN s[d[2]]
    BY <2>2 DEF Emitted, s
  <2>4. d[2] < m /\ d[2] \in DOMAIN t /\ t[d[2]] = s[d[2]]
    BY <1>4, <1>6, <2>3 DEF m, s
  <2>5. Emitted(p, d)'
    BY <1>4, <1>6, <2>3, <2>4 DEF Emitted, t
  <2>6. Precedes(d, f.data)
    BY <1>1, <2>4 DEF Precedes, m
  <2>7. QED
    BY <2>4, <2>5, <2>6 DEF Last, s, t
<1>10. Genuine(p, f)'
  <2>1. f.data = <<p, m, 1>>
    BY <1>1 DEF m
  <2>2. Emitted(p, f.data)'
    BY <1>4, <1>5, <1>6, <1>7, <2>1 DEF Emitted, t
  <2>3. f.type = "DATA" <=> Last(p, f.data)'
    <3>1. f.data[2] = m /\ f.data[3] = 1 /\ Len(t[m]) = n
      BY <1>5, <1>6, <2>1
    <3>2. f.type = "DATA" <=> n = 1
      BY <1>1, <1>4 DEF FragType
    <3>3. QED
      BY <3>1, <3>2 DEF Last, t
  <2>4. QED
    BY <2>2, <2>3 DEF Genuine
<1>11. QED
  BY <1>2, <1>8, <1>9, <1>10, WritingKeeps

LEMMA NextInLine ==
    ASSUME Typed, Typed', NEW p \in Peers, InLine(p), NEW f, WroteNext(p, f)
    PROVE  InLine(p)'
<1> DEFINE s == sent[p]
           m == Len(sent[p])
           n == Len(sent[p][Len(sent[p])])
<1>1. /\ Wrote(p, f) /\ sent' = sent /\ job[p].op = "send" /\ job[p].type = "DATA_FRAG"
      /\ f.data = <<p, m, job[p].data[3] + 1>> /\ f.type = FragType(job[p].data[3] + 1, n)
      /\ Composed(p)
  BY DEF WroteNext, InLine
<1>2. PICK i \in 1 .. MaxFrags :
         /\ m # 0 /\ i <= n /\ job[p].data = <<p, m, i>> /\ job[p].type = FragType(i, n)
  BY <1>1 DEF Composed
<1>3. Fragment(f)
  BY <1>1 DEF FragType, DataTypes, Fragment
<1>4. m \in DOMAIN s /\ m \in Nat
  BY <1>2 DEF Typed, Told
<1>5. n \in Nat /\ n <= MaxFrags /\ DOMAIN s[m] = 1 .. n /\ i \in Nat /\ i >= 1
  BY <1>1, <1>4, SentFacts, TcpSessionAssumption
<1>6. i < n /\ i + 1 \in 1 .. n /\ i + 1 \in 1 .. MaxFrags /\ job[p].data[3] = i
  BY <1>1, <1>2, <1>5, TcpSessionAssumption DEF FragType
<1>7. job'[p].op = "send" /\ job'[p].data = <<p, m, i + 1>> /\ job'[p].type = FragType(i + 1, n)
      /\ f.data = <<p, m, i + 1>> /\ f.type = FragType(i + 1, n)
  BY <1>1, <1>3, <1>6 DEF Wrote
<1>8. Composed(p)'
  <2>1. \A k \in DOMAIN sent'[p] : \E l \in 1 .. MaxFrags : sent'[p][k] = Message(p, k, l)
    BY <1>1 DEF Composed
  <2>2. m # 0 /\ i + 1 <= n
    BY <1>2, <1>6
  <2>3. QED
    BY <1>1, <1>6, <1>7, <2>1, <2>2 DEF Composed
<1>9. \A d \in Fragments : Emitted(p, d) =>
         /\ Emitted(p, d)' /\ (Last(p, d) <=> Last(p, d)')
         /\ Precedes(d, f.data)
  <2>1. TAKE d \in Fragments
  <2>2. HAVE Emitted(p, d)
  <2>3. /\ d[1] = p /\ d[2] \in DOMAIN s /\ d[3] \in DOMAIN s[d[2]] /\ d[3] \in Nat
        /\ d[2] \in Nat /\ d[2] <= m /\ (d[2] = m => d[3] <= i)
    BY <1>1, <1>2, <1>4, <2>2, FragmentFacts DEF Emitted, Typed, Told
  <2>4. Emitted(p, d)'
    BY <1>1, <1>5, <1>7, <2>3 DEF Emitted
  <2>5. Precedes(d, f.data)
    BY <1>4, <1>5, <1>7, <2>3 DEF Precedes
  <2>6. QED
    BY <1>1, <2>4, <2>5 DEF Last
<1>10. Genuine(p, f)'
  <2>1. Emitted(p, f.data)'
    BY <1>1, <1>4, <1>5, <1>6, <1>7 DEF Emitted
  <2>2. f.type = "DATA" <=> Last(p, f.data)'
    BY <1>1, <1>5, <1>6, <1>7 DEF Last, FragType
  <2>3. QED
    BY <2>1, <2>2 DEF Genuine
<1>11. QED
  BY <1>1, <1>8, <1>9, <1>10, WritingKeeps

LEMMA TookFacts ==
    ASSUME Typed, NEW q \in Peers, Took(q)
    PROVE  /\ wire[q] \in Seq(Frames) /\ wire[q] # <<>> /\ Head(wire[q]) \in Frames
           /\ 1 \in DOMAIN wire[q] /\ Head(wire[q]) = wire[q][1]
           /\ wire'[q] = Tail(wire[q]) /\ wire'[Other(q)] = wire[Other(q)]
           /\ Len(wire'[q]) = Len(wire[q]) - 1
           /\ \A j \in DOMAIN wire'[q] :
                j \in Nat \ {0} /\ j + 1 \in DOMAIN wire[q] /\ wire'[q][j] = wire[q][j + 1]
<1>1. wire'[q] = Tail(wire[q]) /\ wire'[Other(q)] = wire[Other(q)] /\ wire[q] # <<>>
  BY OtherFacts DEF Took, Typed, Carried
<1>2. wire[q] \in Seq(Frames)
  BY WireFacts
<1>3. QED
  BY <1>1, <1>2

LEMMA NotTakenPasses ==
    ASSUME Typed, NEW q \in Peers, Took(q), got'[q] = got[q]
    PROVE  Passes(q)
<1>1. wire'[Other(q)] = wire[Other(q)] /\ rcv'[Other(q)] = rcv[Other(q)]
      /\ job' = job /\ sent' = sent
  BY TookFacts DEF Took
<1>2. \A j \in DOMAIN wire[Other(q)] : j + 0 = j
  BY OtherFacts, WireFacts
<1>3. WireLess(Other(q))
  BY <1>1, <1>2 DEF WireLess
<1>4. QED
  BY <1>1, <1>3 DEF Passes, JobKept

LEMMA ControlTaken ==
    ASSUME Typed, NEW q \in Peers, TookControl(q)
    PROVE  Passes(Other(q))
<1>1. Took(q) /\ rcv'[q].asm = rcv[q].asm /\ got' = got /\ job' = job /\ sent' = sent
  BY DEF TookControl, Took
<1>2. Other(Other(q)) = q
  BY OtherFacts
<1>3. WireLess(q)
  BY <1>1, TookFacts DEF WireLess
<1>4. QED
  BY <1>1, <1>2, <1>3 DEF Passes, JobKept

(* A fragment leaves the line for the message that is put together. *)
LEMMA TakingKeeps ==
    ASSUME Typed, Typed', NEW p \in Peers, InLine(p), Took(Other(p)),
           Fragment(Head(wire[Other(p)])),
           InOrder(Stream(p))',
           \A d : Holds(Stream(p), d)' =>
             Holds(Stream(p), d) \/ d = Head(wire[Other(p)]).data,
           Ends(p)'
    PROVE  InLine(p)'
<1> DEFINE w == wire[Other(p)]
           v == wire'[Other(p)]
<1>1. /\ Composed(p) /\ Ordered(p) /\ sent' = sent /\ job' = job
  BY DEF InLine, Took
<1>2. Composed(p)' /\ \A d : Emitted(p, d) => Emitted(p, d)'
  BY <1>1 DEF Composed, Emitted
<1>3. /\ \A d : Holds(Stream(p), d) => d \in Fragments /\ Emitted(p, d)
      /\ \A d : Holds(Stream(p), d) => \A j \in DOMAIN w : Fragment(w[j]) => Precedes(d, w[j].data)
      /\ \A i, j \in DOMAIN w :
           i < j /\ Fragment(w[i]) /\ Fragment(w[j]) => Precedes(w[i].data, w[j].data)
      /\ \A j \in DOMAIN w : Genuine(p, w[j])
  BY <1>1 DEF Ordered
<1>4. /\ 1 \in DOMAIN w /\ Head(w) = w[1] /\ Head(w) \in Frames
      /\ \A j \in DOMAIN v : j \in Nat \ {0} /\ j + 1 \in DOMAIN w /\ v[j] = w[j + 1]
  BY OtherFacts, TookFacts
<1>5. Head(w).data \in Fragments /\ Emitted(p, Head(w).data)
  BY <1>3, <1>4, FrameFacts DEF Genuine, Fragment
<1>6. \A d : Holds(Stream(p), d)' => d \in Fragments /\ Emitted(p, d)'
  BY <1>2, <1>3, <1>5
<1>7. \A d : Holds(Stream(p), d)' => \A j \in DOMAIN v : Fragment(v[j]) => Precedes(d, v[j].data)
  <2>1. ASSUME NEW j \in DOMAIN v, Fragment(v[j]) PROVE Precedes(Head(w).data, v[j].data)
    <3>1. j + 1 \in DOMAIN w /\ 1 < j + 1 /\ v[j] = w[j + 1] /\ w[1] = Head(w)
      BY <1>4
    <3>2. QED
      BY <1>3, <1>4, <2>1, <3>1
  <2>2. QED
    BY <1>3, <1>4, <2>1
<1>8. \A i, j \in DOMAIN v :
        i < j /\ Fragment(v[i]) /\ Fragment(v[j]) => Precedes(v[i].data, v[j].data)
  <2>1. TAKE i, j \in DOMAIN v
  <2>2. HAVE i < j /\ Fragment(v[i]) /\ Fragment(v[j])
  <2>3. i + 1 < j + 1 /\ i + 1 \in DOMAIN w /\ j + 1 \in DOMAIN w
    BY <1>4, <2>2
  <2>4. QED
    BY <1>3, <1>4, <2>2, <2>3
<1>9. (\A j \in DOMAIN wire[Other(p)] : Genuine(p, wire[Other(p)][j]))'
  <2>1. ASSUME NEW j \in DOMAIN v, NEW g, g = v[j] PROVE Genuine(p, g)'
    <3>1. Genuine(p, g)
      BY <1>3, <1>4, <2>1
    <3>2. QED
      BY <1>1, <1>2, <3>1 DEF Genuine, Last
  <2>2. QED
    BY <2>1
<1>10. Ordered(p)'
  BY <1>6, <1>7, <1>8, <1>9 DEF Ordered, Fragment
<1>11. QED
  BY <1>2, <1>10 DEF InLine

(* The first frame on the way, if it is a fragment. *)
LEMMA HeadFacts ==
    ASSUME Typed, NEW p \in Peers, InLine(p), Took(Other(p)), Fragment(Head(wire[Other(p)])),
           NEW e, e = Head(wire[Other(p)]).data
    PROVE  /\ e \in Fragments /\ Emitted(p, e) /\ \A d : Holds(Stream(p), d) => Precedes(d, e)
           /\ Head(wire[Other(p)]).type = "DATA" <=> Last(p, e)
<1>1. Ordered(p) /\ 1 \in DOMAIN wire[Other(p)] /\ Head(wire[Other(p)]) = wire[Other(p)][1]
      /\ Head(wire[Other(p)]) \in Frames
  BY OtherFacts, TookFacts DEF InLine
<1>2. Genuine(p, Head(wire[Other(p)]))
  BY <1>1 DEF Ordered
<1>3. \A d : Holds(Stream(p), d) => Precedes(d, e)
  BY <1>1 DEF Ordered
<1>4. QED
  BY <1>1, <1>2, <1>3, FrameFacts DEF Genuine, Fragment

LEMMA FragmentInLine ==
    ASSUME Typed, Typed', NEW p \in Peers, InLine(p), TookFragment(Other(p))
    PROVE  InLine(p)'
<1>1. PICK e : e = Head(wire[Other(p)]).data
  OBVIOUS
<1>2. /\ Took(Other(p)) /\ Head(wire[Other(p)]).type = "DATA_FRAG" /\ got' = got /\ sent' = sent
      /\ rcv'[Other(p)].asm = Append(rcv[Other(p)].asm, e)
      /\ Fragment(Head(wire[Other(p)]))
  BY <1>1 DEF TookFragment, Took, Fragment, DataTypes
<1>3. e \in Fragments /\ Emitted(p, e) /\ \A d : Holds(Stream(p), d) => Precedes(d, e)
  BY <1>1, <1>2, HeadFacts
<1>4. /\ got[p] \in Seq(Seq(Fragments)) /\ rcv[Other(p)].asm \in Seq(Fragments)
      /\ InOrder(Stream(p)) /\ Ends(p)
  BY StreamTyped DEF InLine, Ordered
<1>5. Stream(p)' = Append(got[p], Append(rcv[Other(p)].asm, e))
  BY <1>2 DEF Stream
<1>6. /\ InOrder(Append(got[p], Append(rcv[Other(p)].asm, e)))
      /\ \A d : Holds(Append(got[p], Append(rcv[Other(p)].asm, e)), d) =>
           Holds(Stream(p), d) \/ d = e
  BY <1>3, <1>4, ExtendedByOne DEF Stream
<1>7. InOrder(Stream(p))' /\ \A d : Holds(Stream(p), d)' => Holds(Stream(p), d) \/ d = e
  BY <1>5, <1>6, StreamIs
<1>8. Ends(p)'
  BY <1>2, <1>4 DEF Ends, Last
<1>9. QED
  BY <1>1, <1>2, <1>7, <1>8, TakingKeeps

LEMMA MessageInLine ==
    ASSUME Typed, Typed', NEW p \in Peers, InLine(p), TookMessage(Other(p))
    PROVE  InLine(p)'
<1> DEFINE g == got[p]
           a == rcv[Other(p)].asm
<1>1. PICK e : e = Head(wire[Other(p)]).data
  OBVIOUS
<1>2. /\ Took(Other(p)) /\ Head(wire[Other(p)]).type = "DATA" /\ sent' = sent
      /\ rcv'[Other(p)].asm = <<>> /\ Fragment(Head(wire[Other(p)]))
  BY <1>1 DEF TookMessage, Took, Fragment, DataTypes
<1>3. got'[p] = Append(g, Append(a, e))
  BY <1>1, OtherFacts DEF TookMessage, Typed, Told
<1>4. /\ e \in Fragments /\ Emitted(p, e) /\ Last(p, e)
      /\ \A d : Holds(Stream(p), d) => Precedes(d, e)
  BY <1>1, <1>2, HeadFacts
<1>5. /\ g \in Seq(Seq(Fragments)) /\ a \in Seq(Fragments)
      /\ InOrder(Stream(p)) /\ Ends(p) /\ Stream(p) = Append(g, a) /\ Composed(p)
      /\ \A d : Holds(Stream(p), d) => d \in Fragments /\ Emitted(p, d)
  BY StreamTyped DEF InLine, Ordered, Stream
<1>6. PICK b : b = Append(a, e)
  OBVIOUS
<1>7. /\ b \in Seq(Fragments) /\ Len(b) = Len(a) + 1 /\ Len(a) \in Nat /\ b # <<>> /\ b[Len(b)] = e
  BY <1>4, <1>5, <1>6
<1>8. Stream(p)' = Append(Append(g, b), <<>>)
  BY <1>2, <1>3, <1>6 DEF Stream
<1>9. /\ InOrder(Append(g, b))
      /\ \A d : Holds(Append(g, b), d) => Holds(Stream(p), d) \/ d = e
  BY <1>4, <1>5, <1>6, ExtendedByOne
<1>10. /\ InOrder(Append(Append(g, b), <<>>))
       /\ \A d : Holds(Append(Append(g, b), <<>>), d) => Holds(Append(g, b), d)
  BY <1>5, <1>7, <1>9, FlushedSame
<1>11. InOrder(Stream(p))' /\ \A d : Holds(Stream(p), d)' => Holds(Stream(p), d) \/ d = e
  BY <1>8, <1>9, <1>10, StreamIs
<1>12. Ends(p)'
  <2>1. Len(g) \in Nat /\ DOMAIN Append(g, b) = 1 .. Len(g) + 1 /\ DOMAIN g = 1 .. Len(g)
        /\ Append(g, b)[Len(g) + 1] = b /\ \A k \in DOMAIN g : Append(g, b)[k] = g[k]
    BY <1>5, <1>7
  <2>2. e[2] >= Len(g) + 1
    <3>1. e[2] \in Nat /\ e[2] >= 1 /\ e[3] \in Nat
      BY <1>4, FragmentFacts DEF Emitted, Typed, Told
    <3>2. CASE Len(g) = 0
      BY <3>1, <3>2
    <3>3. CASE Len(g) # 0
      <4>1. PICK d : d = g[Len(g)][Len(g[Len(g)])]
        OBVIOUS
      <4>2. Len(g) \in DOMAIN g /\ g[Len(g)] # <<>> /\ d[2] >= Len(g) /\ Last(p, d)
        <5>1. Len(g) \in DOMAIN g
          BY <2>1, <3>3
        <5>2. QED
          BY <1>5, <4>1, <5>1 DEF Ends
      <4>3. Holds(Stream(p), d)
        BY <4>1, <4>2, StreamTyped DEF Holds
      <4>4. d \in Fragments /\ Precedes(d, e) /\ d[2] \in Nat /\ d[3] \in Nat
        BY <1>4, <1>5, <4>3, FragmentFacts
      <4>5. d[2] # e[2]
        <5>1. SUFFICES ASSUME d[2] = e[2] PROVE FALSE
          OBVIOUS
        <5>2. d[3] < e[3]
          BY <3>1, <4>4, <5>1 DEF Precedes
        <5>3. d[3] = e[3]
          BY <1>4, <4>2, <5>1 DEF Last
        <5>4. QED
          BY <3>1, <5>2, <5>3
      <4>6. QED
        BY <2>1, <3>1, <4>2, <4>4, <4>5 DEF Precedes
    <3>4. QED
      BY <3>2, <3>3
  <2>3. ASSUME NEW k \in 1 .. Len(g) + 1, NEW m, m = Append(g, b)[k]
        PROVE  m # <<>> /\ m[Len(m)][2] >= k /\ m[Len(m)][3] = Len(sent[p][m[Len(m)][2]])
    <3>1. CASE k = Len(g) + 1
      BY <1>4, <1>7, <2>1, <2>2, <2>3, <3>1 DEF Last
    <3>2. CASE k # Len(g) + 1
      <4>1. k \in DOMAIN g /\ m = g[k]
        BY <2>1, <2>3, <3>2
      <4>2. QED
        BY <1>5, <4>1 DEF Ends, Last
    <3>3. QED
      BY <3>1, <3>2
  <2>4. QED
    BY <1>2, <1>3, <1>6, <2>1, <2>3 DEF Ends, Last
<1>13. QED
  BY <1>1, <1>2, <1>11, <1>12, TakingKeeps

LEMMA BrokePasses ==
    ASSUME Typed, NEW q \in Peers, Broke(q), NEW p \in Peers
    PROVE  Passes(p)
<1>1. /\ sent' = sent /\ got' = got /\ job' = job /\ rcv' = rcv
  BY DEF Broke
<1>2. PICK r : r = Other(p)
  OBVIOUS
<1>3. r \in Peers /\ wire[r] \in Seq(Frames)
  BY <1>2, OtherFacts, WireFacts
<1>4. CASE wire'[r] = wire[r]
  <2>1. \A j \in DOMAIN wire[r] : j + 0 = j
    BY <1>3
  <2>2. QED
    BY <1>1, <1>2, <1>4, <2>1 DEF Passes, JobKept, WireLess
<1>5. CASE wire[r] # <<>> /\ wire'[r] = Tail(wire[r])
  <2>1. \A j \in DOMAIN wire'[r] : j + 1 \in DOMAIN wire[r] /\ wire'[r][j] = wire[r][j + 1]
    BY <1>3, <1>5
  <2>2. WireLess(r)
    BY <2>1 DEF WireLess
  <2>3. QED
    BY <1>1, <1>2, <2>2 DEF Passes, JobKept
<1>6. wire'[r] = wire[r] \/ (wire[r] # <<>> /\ wire'[r] = Tail(wire[r]))
  BY <1>3 DEF Broke, Typed, Carried
<1>7. QED
  BY <1>4, <1>5, <1>6

LEMMA SameWirePasses ==
    ASSUME Typed, UNCHANGED <<wire, sent, got>>,
           \A p \in Peers : JobKept(p) /\ rcv'[p].asm \in {rcv[p].asm, <<>>}, NEW p \in Peers
    PROVE  Passes(p)
<1>1. \A j \in DOMAIN wire[Other(p)] : j + 0 = j
  BY OtherFacts, WireFacts
<1>2. QED
  BY <1>1, OtherFacts DEF Passes, WireLess

LEMMA LinedKept ==
    ASSUME Typed, Typed', Lined, Step
    PROVE  Lined'
<1>1. \A p \in Peers : InLine(p)
  BY DEF Lined, InLine
<1>2. SUFFICES ASSUME NEW p \in Peers PROVE InLine(p)'
  BY DEF Lined, InLine
<1>3. CASE \E r \in Peers : \E f : WroteControl(r, f) \/ WroteFirst(r, f) \/ WroteNext(r, f)
  <2>1. PICK r \in Peers : \E f : WroteControl(r, f) \/ WroteFirst(r, f) \/ WroteNext(r, f)
    BY <1>3
  <2>2. PICK f : WroteControl(r, f) \/ WroteFirst(r, f) \/ WroteNext(r, f)
    BY <2>1
  <2>3. CASE r = p
    BY <1>1, <2>2, <2>3, ControlInLine, FirstInLine, NextInLine
  <2>4. CASE r # p
    <3>1. Wrote(r, f) /\ p = Other(r) /\ sent'[p] = sent[p]
      BY <2>2, <2>4, OtherFacts DEF WroteControl, WroteFirst, WroteNext, Typed, Told
    <3>2. QED
      BY <1>1, <3>1, NotWrittenPasses, PassingKeeps
  <2>5. QED
    BY <2>3, <2>4
<1>4. CASE \E q \in Peers : TookControl(q) \/ TookFragment(q) \/ TookMessage(q)
  <2>1. PICK q \in Peers : TookControl(q) \/ TookFragment(q) \/ TookMessage(q)
    BY <1>4
  <2>2. CASE q = p
    <3>1. Took(q) /\ got'[q] = got[q]
      BY <2>1, OtherFacts DEF TookControl, TookFragment, TookMessage, Typed, Told
    <3>2. QED
      BY <1>1, <2>2, <3>1, NotTakenPasses, PassingKeeps
  <2>3. CASE q = Other(p)
    <3>1. CASE TookControl(q)
      <4>1. Other(q) = p
        BY <2>3, OtherFacts
      <4>2. QED
        BY <1>1, <3>1, <4>1, ControlTaken, PassingKeeps
    <3>2. QED
      BY <1>1, <2>1, <2>3, <3>1, FragmentInLine, MessageInLine
  <2>4. QED
    BY <2>2, <2>3, OtherFacts
<1>5. CASE \E q \in Peers : Broke(q)
  BY <1>1, <1>5, BrokePasses, PassingKeeps
<1>6. CASE \E r \in Peers : Turned(r)
  <2>1. PICK r \in Peers : Turned(r)
    BY <1>6
  <2>2. /\ UNCHANGED <<wire, sent, got, rcv>>
        /\ \A s \in Peers : job'[s] = job[s] \/ job'[s] = Idle
    BY <2>1 DEF Turned, Typed, Working
  <2>3. \A s \in Peers : JobKept(s) /\ rcv'[s].asm \in {rcv[s].asm, <<>>}
    BY <2>2 DEF JobKept, Idle
  <2>4. QED
    BY <1>1, <2>2, <2>3, SameWirePasses, PassingKeeps
<1>7. CASE Rested
  <2>1. /\ UNCHANGED <<wire, sent, got>>
        /\ \A s \in Peers : JobKept(s) /\ rcv'[s].asm \in {rcv[s].asm, <<>>}
    BY <1>7 DEF Rested
  <2>2. QED
    BY <1>1, <2>1, SameWirePasses, PassingKeeps
<1>8. CASE Interrupted
  <2>1. Passes(p)
    BY <1>8, OtherFacts DEF Interrupted, Passes
  <2>2. QED
    BY <1>1, <2>1, PassingKeeps
<1>9. QED
  BY <1>3, <1>4, <1>5, <1>6, <1>7, <1>8 DEF Step

-----------------------------------------------------------------------------
(* Uninterrupted, what is on the way is what its receiver waits for          *)

LEMMA MessageMove ==
    ASSUME NEW f \in Frames, NEW a \in Nat \X Nat, NEW b \in Nat \X Nat
    PROVE  <<a, f, b>> \in MessageMoves <=>
             /\ f.type # "torn"
             /\ Fragment(f) => /\ f.data[2] = a[1] /\ f.data[3] = a[2] + 1
                               /\ f.type = "DATA" => b = <<a[1] + 1, 0>>
                               /\ f.type # "DATA" => b = <<a[1], a[2] + 1>>
             /\ ~Fragment(f) => a[2] = 0 /\ b = a
<1>1. <<a, f, b>> \in (Nat \X Nat) \X Frames \X (Nat \X Nat)
  OBVIOUS
<1>2. PICK t : t = <<a, f, b>>
  OBVIOUS
<1>3. t[1] = a /\ t[2] = f /\ t[3] = b
  BY <1>2
<1>4. QED
  BY <1>1, <1>2, <1>3 DEF MessageMoves

LEMMA NumberedMove ==
    ASSUME NEW f \in Frames, NEW m \in Nat, NEW i \in Nat, NEW k \in Nat, NEW j \in Nat
    PROVE  <<<<m, i>>, f, <<k, j>>>> \in MessageMoves <=>
             /\ f.type # "torn"
             /\ Fragment(f) => /\ f.data[2] = m /\ f.data[3] = i + 1
                               /\ f.type = "DATA" => k = m + 1 /\ j = 0
                               /\ f.type # "DATA" => k = m /\ j = i + 1
             /\ ~Fragment(f) => i = 0 /\ k = m /\ j = i
<1>1. PICK a, b : a = <<m, i>> /\ b = <<k, j>>
  OBVIOUS
<1>2. a \in Nat \X Nat /\ b \in Nat \X Nat /\ a[1] = m /\ a[2] = i
      /\ \A x, y : b = <<x, y>> <=> k = x /\ j = y
  BY <1>1
<1>3. b = a <=> k = m /\ j = i
  BY <1>1
<1>4. QED
  BY <1>1, <1>2, <1>3, MessageMove

LEMMA WroteFlows ==
    ASSUME Typed, Typed', NEW p \in Peers, InLine(p), Flowing(Other(p)),
           NEW f, WroteControl(p, f) \/ WroteFirst(p, f) \/ WroteNext(p, f)
    PROVE  Flowing(Other(p))'
<1>1. /\ Wrote(p, f) /\ got' = got /\ rcv' = rcv /\ ended' = ended
      /\ Other(Other(p)) = p /\ f \in Frames /\ f.type # "torn"
      /\ wire'[Other(p)] = Append(wire[Other(p)], f) /\ wire[Other(p)] \in Seq(Frames)
  BY OtherFacts, WroteFacts DEF WroteControl, WroteFirst, WroteNext, Wrote
<1>2. /\ sent'[p] \in Seq(Seq(Fragments)) /\ sent[p] \in Seq(Seq(Fragments))
      /\ got[p] \in Seq(Seq(Fragments))
  BY DEF Typed, Told
<1>3. \A k \in DOMAIN sent[p] : k \in DOMAIN sent'[p] /\ sent'[p][k] = sent[p][k]
  <2>1. CASE sent' = sent
    BY <2>1
  <2>2. CASE \E n \in 1 .. MaxFrags :
               sent' = [sent EXCEPT ![p] = Append(sent[p], Message(p, Len(sent[p]) + 1, n))]
    <3>1. PICK m : sent' = [sent EXCEPT ![p] = Append(sent[p], m)]
      BY <2>2
    <3>2. sent'[p] = Append(sent[p], m)
      BY <3>1 DEF Typed, Told
    <3>3. QED
      BY <1>2, <3>2
  <2>3. QED
    BY <2>1, <2>2 DEF WroteControl, WroteFirst, WroteNext
<1>4. /\ \A k \in DOMAIN got[p] : k \in DOMAIN sent[p] /\ got[p][k] = sent[p][k]
      /\ ended[Other(p)] = "no" =>
           /\ \A i \in DOMAIN rcv[Other(p)].asm : rcv[Other(p)].asm[i] = <<p, Len(got[p]) + 1, i>>
           /\ Path(MessageMoves, ReadUpTo(Other(p)), wire[Other(p)], WrittenUpTo(p))
  BY <1>1 DEF Flowing
<1>5. ReadUpTo(Other(p))' = ReadUpTo(Other(p))
  BY <1>1 DEF ReadUpTo
<1>6. <<WrittenUpTo(p), f, WrittenUpTo(p)'>> \in MessageMoves
  <2>1. Len(sent[p]) \in Nat /\ Len(sent'[p]) \in Nat
    BY <1>2
  <2>2. CASE WroteControl(p, f)
    <3>1. /\ WrittenUpTo(p) = <<Len(sent[p]) + 1, 0>> /\ WrittenUpTo(p)' = <<Len(sent[p]) + 1, 0>>
          /\ ~Fragment(f)
      BY <2>2 DEF WroteControl, Wrote, WrittenUpTo
    <3>2. Len(sent[p]) + 1 \in Nat /\ 0 \in Nat
      BY <2>1
    <3>3. QED
      BY <1>1, <3>1, <3>2, NumberedMove
  <2>3. CASE WroteFirst(p, f)
    <3>1. PICK n \in 1 .. MaxFrags :
             /\ sent' = [sent EXCEPT ![p] = Append(sent[p], Message(p, Len(sent[p]) + 1, n))]
             /\ f.data = <<p, Len(sent[p]) + 1, 1>> /\ f.type = FragType(1, n)
      BY <2>3 DEF WroteFirst
    <3>2. Fragment(f) /\ f.type \in DataTypes
      BY <3>1 DEF FragType, DataTypes, Fragment
    <3>3. Len(sent'[p]) = Len(sent[p]) + 1
      BY <1>2, <3>1 DEF Typed, Told
    <3>4. /\ WrittenUpTo(p) = <<Len(sent[p]) + 1, 0>>
          /\ job'[p].op = "send" /\ job'[p].data = f.data /\ job'[p].type = f.type
      BY <1>1, <2>3, <3>2 DEF WroteFirst, Wrote, WrittenUpTo
    <3>5. CASE f.type = "DATA"
      <4>1. WrittenUpTo(p)' = <<Len(sent[p]) + 1 + 1, 0>>
        BY <3>3, <3>4, <3>5 DEF WrittenUpTo
      <4>2. PICK k : k = Len(sent[p]) + 1
        OBVIOUS
      <4>3. k \in Nat /\ k + 1 \in Nat /\ 0 \in Nat /\ f.data[2] = k /\ f.data[3] = 0 + 1
        BY <2>1, <3>1, <4>2
      <4>4. <<<<k, 0>>, f, <<k + 1, 0>>>> \in MessageMoves
        BY <1>1, <3>2, <3>5, <4>3, NumberedMove
      <4>5. QED
        BY <3>4, <4>1, <4>2, <4>4
    <3>6. CASE f.type = "DATA_FRAG"
      <4>1. WrittenUpTo(p)' = <<Len(sent[p]) + 1, 1>>
        BY <3>1, <3>4, <3>6 DEF WrittenUpTo
      <4>2. PICK k : k = Len(sent[p]) + 1
        OBVIOUS
      <4>3. k \in Nat /\ 0 \in Nat /\ 1 \in Nat /\ 1 = 0 + 1 /\ f.data[2] = k /\ f.data[3] = 0 + 1
        BY <2>1, <3>1, <4>2
      <4>4. <<<<k, 0>>, f, <<k, 1>>>> \in MessageMoves
        BY <1>1, <3>2, <3>6, <4>3, NumberedMove
      <4>5. QED
        BY <3>4, <4>1, <4>2, <4>4
    <3>7. QED
      BY <3>2, <3>5, <3>6 DEF DataTypes
  <2>4. CASE WroteNext(p, f)
    <3>1. /\ job[p].op = "send" /\ job[p].type = "DATA_FRAG" /\ sent' = sent
          /\ f.data = <<p, Len(sent[p]), job[p].data[3] + 1>>
          /\ f.type \in DataTypes /\ Fragment(f)
      BY <2>4 DEF WroteNext, FragType, DataTypes, Fragment
    <3>2. PICK i \in 1 .. MaxFrags : job[p].data = <<p, Len(sent[p]), i>>
      BY <3>1 DEF InLine, Composed
    <3>3. WrittenUpTo(p) = <<Len(sent[p]), i>> /\ i \in Nat
          /\ f.data = <<p, Len(sent[p]), i + 1>>
      BY <3>1, <3>2, TcpSessionAssumption DEF WrittenUpTo
    <3>4. job'[p].op = "send" /\ job'[p].data = f.data /\ job'[p].type = f.type
      BY <1>1, <3>1 DEF Wrote
    <3>5. i + 1 \in Nat /\ Len(sent[p]) + 1 \in Nat /\ 0 \in Nat
          /\ f.data[2] = Len(sent[p]) /\ f.data[3] = i + 1
      BY <2>1, <3>3
    <3>6. CASE f.type = "DATA"
      <4>1. WrittenUpTo(p)' = <<Len(sent[p]) + 1, 0>>
        BY <3>1, <3>4, <3>6 DEF WrittenUpTo
      <4>2. PICK k : k = Len(sent[p])
        OBVIOUS
      <4>3. /\ k \in Nat /\ k + 1 \in Nat /\ 0 \in Nat /\ i \in Nat
            /\ f.data[2] = k /\ f.data[3] = i + 1
        BY <2>1, <3>3, <3>5, <4>2
      <4>4. <<<<k, i>>, f, <<k + 1, 0>>>> \in MessageMoves
        BY <1>1, <3>1, <3>6, <4>3, NumberedMove
      <4>5. QED
        BY <3>3, <4>1, <4>2, <4>4
    <3>7. CASE f.type = "DATA_FRAG"
      <4>1. WrittenUpTo(p)' = <<Len(sent[p]), i + 1>>
        BY <3>4, <3>5, <3>7 DEF WrittenUpTo
      <4>2. PICK k : k = Len(sent[p])
        OBVIOUS
      <4>3. k \in Nat /\ i \in Nat /\ i + 1 \in Nat /\ f.data[2] = k /\ f.data[3] = i + 1
        BY <2>1, <3>3, <3>5, <4>2
      <4>4. <<<<k, i>>, f, <<k, i + 1>>>> \in MessageMoves
        BY <1>1, <3>1, <3>7, <4>3, NumberedMove
      <4>5. QED
        BY <3>3, <4>1, <4>2, <4>4
    <3>8. QED
      BY <3>1, <3>6, <3>7 DEF DataTypes
  <2>5. QED
    BY <2>2, <2>3, <2>4
<1>7. (ended[Other(p)] = "no" =>
         Path(MessageMoves, ReadUpTo(Other(p)), wire[Other(p)], WrittenUpTo(p)))'
  BY <1>1, <1>4, <1>5, <1>6, PathGrows
<1>8. QED
  BY <1>1, <1>3, <1>4, <1>7 DEF Flowing

(* The move of the frame that is taken. *)
LEMMA HeadMove ==
    ASSUME Typed, NEW p \in Peers, InLine(p), Flowing(Other(p)), Took(Other(p))
    PROVE  \E c \in Nat \X Nat :
             /\ <<ReadUpTo(Other(p)), Head(wire[Other(p)]), c>> \in MessageMoves
             /\ Path(MessageMoves, c, Tail(wire[Other(p)]), WrittenUpTo(p))
<1>1. /\ wire[Other(p)] \in Seq(Frames) /\ wire[Other(p)] # <<>> /\ ended[Other(p)] = "no"
      /\ Other(Other(p)) = p
  BY OtherFacts, TookFacts DEF Took
<1>2. Path(MessageMoves, ReadUpTo(Other(p)), wire[Other(p)], WrittenUpTo(p))
  BY <1>1 DEF Flowing
<1>3. PICK c : /\ <<ReadUpTo(Other(p)), Head(wire[Other(p)]), c>> \in MessageMoves
               /\ Path(MessageMoves, c, Tail(wire[Other(p)]), WrittenUpTo(p))
  BY <1>1, <1>2, PathStarts
<1>4. c \in Nat \X Nat
  BY <1>3 DEF MessageMoves
<1>5. QED
  BY <1>3, <1>4

LEMMA TookFlows ==
    ASSUME Typed, Typed', NEW p \in Peers, InLine(p), Flowing(Other(p)),
           TookControl(Other(p)) \/ TookFragment(Other(p)) \/ TookMessage(Other(p))
    PROVE  Flowing(Other(p))'
<1> DEFINE q == Other(p)
           a == rcv[Other(p)].asm
           l == Len(got[p])
<1>1. /\ Took(q) /\ q \in Peers /\ Other(q) = p /\ sent' = sent /\ job' = job /\ ended[q] = "no"
      /\ wire'[q] = Tail(wire[q]) /\ Head(wire[q]) \in Frames
  BY OtherFacts, TookFacts DEF TookControl, TookFragment, TookMessage, Took
<1>2. PICK c \in Nat \X Nat : /\ <<ReadUpTo(q), Head(wire[q]), c>> \in MessageMoves
                              /\ Path(MessageMoves, c, Tail(wire[q]), WrittenUpTo(p))
  BY <1>1, HeadMove
<1>3. /\ a \in Seq(Fragments) /\ Len(a) \in Nat /\ got[p] \in Seq(Seq(Fragments)) /\ l \in Nat
      /\ ReadUpTo(q) = <<l + 1, Len(a)>> /\ ReadUpTo(q) \in Nat \X Nat
  <2>1. a \in Seq(Fragments) /\ got[p] \in Seq(Seq(Fragments)) /\ l \in Nat
    BY StreamTyped
  <2>2. Len(a) \in Nat /\ l + 1 \in Nat
    BY <2>1
  <2>3. ReadUpTo(q) = <<l + 1, Len(a)>>
    BY <1>1 DEF ReadUpTo
  <2>4. QED
    BY <2>1, <2>2, <2>3
<1>4. /\ \A k \in DOMAIN got[p] : k \in DOMAIN sent[p] /\ got[p][k] = sent[p][k]
      /\ \A i \in DOMAIN a : a[i] = <<p, l + 1, i>>
  BY <1>1 DEF Flowing
<1>5. WrittenUpTo(p)' = WrittenUpTo(p)
  BY <1>1 DEF WrittenUpTo
<1>6. Len(a) \in Nat /\ \A i \in 1 .. Len(a) + 1 : i # Len(a) + 1 => i \in 1 .. Len(a)
  <2>1. Len(a) \in Nat
    BY <1>3
  <2>2. \A n \in Nat : \A i \in 1 .. n + 1 : i # n + 1 => i \in 1 .. n
    OBVIOUS
  <2>3. QED
    BY <2>1, <2>2
<1> HIDE DEF q
<1>7. ASSUME ReadUpTo(q)' = c,
             \A k \in DOMAIN got'[p] : k \in DOMAIN sent[p] /\ got'[p][k] = sent[p][k],
             \A i \in DOMAIN rcv'[q].asm : rcv'[q].asm[i] = <<p, Len(got'[p]) + 1, i>>
      PROVE  Flowing(q)'
  <2>1. Path(MessageMoves, ReadUpTo(q), wire[q], WrittenUpTo(p))'
    BY <1>1, <1>2, <1>5, <1>7
  <2>2. QED
    BY <1>1, <1>7, <2>1 DEF Flowing
<1>8. CASE TookControl(q)
  <2>1. ~Fragment(Head(wire[q])) /\ rcv'[q].asm = a /\ got' = got
    BY <1>8 DEF TookControl, q
  <2>2. c = ReadUpTo(q)
    BY <1>1, <1>2, <1>3, <2>1, MessageMove
  <2>3. ReadUpTo(q)' = ReadUpTo(q)
    BY <1>1, <2>1 DEF ReadUpTo, q
  <2>4. QED
    BY <1>4, <1>7, <2>1, <2>2, <2>3 DEF q
<1>9. ASSUME Fragment(Head(wire[q]))
      PROVE  /\ Head(wire[q]).data = <<p, l + 1, Len(a) + 1>>
             /\ Head(wire[q]).data \in Fragments
             /\ Emitted(p, Head(wire[q]).data)
             /\ Head(wire[q]).type = "DATA" <=> Last(p, Head(wire[q]).data)
             /\ Head(wire[q]).type = "DATA" => c = <<l + 2, 0>>
             /\ Head(wire[q]).type # "DATA" => c = <<l + 1, Len(a) + 1>>
  <2>1. PICK e : e = Head(wire[q]).data
    OBVIOUS
  <2>2. e \in Fragments /\ Emitted(p, e) /\ (Head(wire[q]).type = "DATA" <=> Last(p, e))
    BY <1>1, <1>9, <2>1, HeadFacts DEF q
  <2>3. /\ e[2] = l + 1 /\ e[3] = Len(a) + 1
        /\ Head(wire[q]).type = "DATA" => c = <<(l + 1) + 1, 0>>
        /\ Head(wire[q]).type # "DATA" => c = <<l + 1, Len(a) + 1>>
    <3>1. PICK r, f : r = ReadUpTo(q) /\ f = Head(wire[q])
      OBVIOUS
    <3>2. r \in Nat \X Nat /\ r[1] = l + 1 /\ r[2] = Len(a)
      BY <1>3, <3>1
    <3>3. f \in Frames /\ Fragment(f) /\ <<r, f, c>> \in MessageMoves /\ e = f.data
      BY <1>1, <1>2, <1>9, <2>1, <3>1
    <3>4. /\ f.data[2] = r[1] /\ f.data[3] = r[2] + 1
          /\ f.type = "DATA" => c = <<r[1] + 1, 0>>
          /\ f.type # "DATA" => c = <<r[1], r[2] + 1>>
      BY <3>2, <3>3, MessageMove
    <3>5. QED
      BY <3>1, <3>2, <3>3, <3>4
  <2>4. e[1] = p
    BY <2>2 DEF Emitted
  <2>5. e = <<p, l + 1, Len(a) + 1>>
    BY <2>2, <2>3, <2>4, FragmentFacts
  <2>6. (l + 1) + 1 = l + 2
    BY <1>3
  <2>7. QED
    BY <2>1, <2>2, <2>3, <2>5, <2>6
<1>10. CASE TookFragment(q)
  <2>1. PICK e : e = Head(wire[q]).data
    OBVIOUS
  <2>2. /\ Fragment(Head(wire[q])) /\ Head(wire[q]).type # "DATA"
        /\ rcv'[q].asm = Append(a, e) /\ got' = got
    BY <1>10, <2>1 DEF TookFragment, Fragment, DataTypes, q
  <2>3. e = <<p, l + 1, Len(a) + 1>> /\ e \in Fragments /\ c = <<l + 1, Len(a) + 1>>
    BY <1>9, <2>1, <2>2
  <2>4. /\ Len(Append(a, e)) = Len(a) + 1 /\ DOMAIN Append(a, e) = 1 .. Len(a) + 1
        /\ Append(a, e)[Len(a) + 1] = e /\ DOMAIN a = 1 .. Len(a)
        /\ \A i \in 1 .. Len(a) : Append(a, e)[i] = a[i]
    BY <1>3, <2>3
  <2>5. ReadUpTo(q)' = c
    BY <1>1, <2>2, <2>3, <2>4 DEF ReadUpTo
  <2>6. \A i \in 1 .. Len(a) + 1 : Append(a, e)[i] = <<p, l + 1, i>>
    <3>1. TAKE i \in 1 .. Len(a) + 1
    <3>2. CASE i = Len(a) + 1
      BY <2>3, <2>4, <3>2
    <3>3. CASE i # Len(a) + 1
      <4>1. i \in 1 .. Len(a)
        BY <1>6, <3>3
      <4>2. QED
        BY <1>4, <2>4, <4>1
    <3>4. QED
      BY <3>2, <3>3
  <2>7. \A i \in DOMAIN rcv'[q].asm : rcv'[q].asm[i] = <<p, Len(got'[p]) + 1, i>>
    BY <2>2, <2>4, <2>6
  <2>8. \A k \in DOMAIN got'[p] : k \in DOMAIN sent[p] /\ got'[p][k] = sent[p][k]
    BY <1>4, <2>2
  <2>9. QED
    BY <1>7, <2>5, <2>7, <2>8 DEF q
<1>11. CASE TookMessage(q)
  <2>1. PICK e : e = Head(wire[q]).data
    OBVIOUS
  <2>2. PICK m : m = Append(a, e)
    OBVIOUS
  <2>3. /\ Fragment(Head(wire[q])) /\ Head(wire[q]).type = "DATA" /\ rcv'[q].asm = <<>>
        /\ got' = [got EXCEPT ![p] = Append(got[p], m)]
    BY <1>1, <1>11, <2>1, <2>2 DEF TookMessage, Fragment, DataTypes, q
  <2>4. /\ e = <<p, l + 1, Len(a) + 1>> /\ e \in Fragments /\ c = <<l + 2, 0>>
        /\ Emitted(p, e) /\ Last(p, e)
    BY <1>9, <2>1, <2>3
  <2>5. got'[p] = Append(got[p], m) /\ m \in Seq(Fragments)
    <3>1. got \in [Peers -> Seq(Seq(Fragments))]
      BY DEF Typed, Told
    <3>2. got'[p] = Append(got[p], m)
      BY <2>3, <3>1
    <3>3. a \in Seq(Fragments) /\ e \in Fragments
      BY <1>3, <2>4
    <3>4. m \in Seq(Fragments)
      BY <2>2, <3>3
    <3>5. QED
      BY <3>2, <3>4
  <2>6. /\ Len(got'[p]) = l + 1 /\ DOMAIN got'[p] = 1 .. l + 1 /\ got'[p][l + 1] = m
        /\ DOMAIN got[p] = 1 .. l /\ \A k \in 1 .. l : got'[p][k] = got[p][k]
    BY <1>3, <2>5
  <2>7. ReadUpTo(q)' = c
    <3>1. l + 1 + 1 = l + 2 /\ Len(<<>>) = 0
      BY <1>3
    <3>2. QED
      BY <1>1, <2>3, <2>4, <2>6, <3>1 DEF ReadUpTo
  <2>8. l + 1 \in DOMAIN sent[p] /\ sent[p][l + 1] = m
    <3>1. l + 1 \in DOMAIN sent[p] /\ Len(sent[p][l + 1]) = Len(a) + 1
      BY <2>4 DEF Emitted, Last
    <3>2. /\ sent[p][l + 1] \in Seq(Fragments)
          /\ \A i \in 1 .. Len(a) + 1 : sent[p][l + 1][i] = <<p, l + 1, i>>
      BY <3>1, SentFacts DEF InLine
    <3>3. Len(m) = Len(a) + 1 /\ \A i \in 1 .. Len(a) + 1 : m[i] = <<p, l + 1, i>>
      <4>1. /\ m[Len(a) + 1] = e /\ Len(m) = Len(a) + 1 /\ DOMAIN a = 1 .. Len(a)
            /\ \A i \in 1 .. Len(a) : m[i] = a[i]
        BY <1>3, <2>2, <2>4
      <4>2. ASSUME NEW i \in 1 .. Len(a) + 1 PROVE m[i] = <<p, l + 1, i>>
        <5>1. CASE i = Len(a) + 1
          BY <2>4, <4>1, <5>1
        <5>2. CASE i # Len(a) + 1
          <6>1. i \in 1 .. Len(a)
            BY <1>6, <5>2
          <6>2. QED
            BY <1>4, <4>1, <6>1
        <5>3. QED
          BY <5>1, <5>2
      <4>3. QED
        BY <4>1, <4>2
    <3>4. \A i \in 1 .. Len(m) : sent[p][l + 1][i] = m[i]
      BY <3>2, <3>3
    <3>5. sent[p][l + 1] = m
      <4>1. \A b, c1 \in Seq(Fragments) :
              Len(b) = Len(c1) /\ (\A i \in 1 .. Len(c1) : b[i] = c1[i]) => b = c1
        OBVIOUS
      <4>2. Len(sent[p][l + 1]) = Len(m)
        BY <3>1, <3>3
      <4>3. QED
        BY <2>5, <3>2, <3>4, <4>1, <4>2
    <3>6. QED
      BY <3>1, <3>5
  <2>9. \A k \in DOMAIN got'[p] : k \in DOMAIN sent[p] /\ got'[p][k] = sent[p][k]
    <3>1. TAKE k \in DOMAIN got'[p]
    <3>2. k \in 1 .. l \/ k = l + 1
      BY <1>3, <2>6
    <3>3. QED
      BY <1>4, <2>6, <2>8, <3>2
  <2>10. \A i \in DOMAIN rcv'[q].asm : rcv'[q].asm[i] = <<p, Len(got'[p]) + 1, i>>
    <3>1. DOMAIN <<>> = {}
      OBVIOUS
    <3>2. QED
      BY <2>3, <3>1
  <2>11. QED
    BY <1>7, <2>7, <2>9, <2>10 DEF q
<1>12. QED
  BY <1>8, <1>10, <1>11 DEF q

LEMMA SameFlows ==
    ASSUME NEW p \in Peers, Flowing(Other(p)), UNCHANGED <<sent, got>>,
           ended'[Other(p)] = "no" =>
             /\ ended[Other(p)] = "no"
             /\ wire'[Other(p)] = wire[Other(p)] /\ rcv'[Other(p)].asm = rcv[Other(p)].asm
             /\ WrittenUpTo(p)' = WrittenUpTo(p)
    PROVE  Flowing(Other(p))'
<1>1. Other(Other(p)) = p
  BY OtherFacts
<1>2. /\ \A k \in DOMAIN got[p] : k \in DOMAIN sent[p] /\ got[p][k] = sent[p][k]
      /\ ended[Other(p)] = "no" =>
           /\ \A i \in DOMAIN rcv[Other(p)].asm : rcv[Other(p)].asm[i] = <<p, Len(got[p]) + 1, i>>
           /\ Path(MessageMoves, ReadUpTo(Other(p)), wire[Other(p)], WrittenUpTo(p))
  BY <1>1 DEF Flowing
<1>3. (ended[Other(p)] = "no" =>
         Path(MessageMoves, ReadUpTo(Other(p)), wire[Other(p)], WrittenUpTo(p)))'
  <2>1. SUFFICES ASSUME ended'[Other(p)] = "no"
                 PROVE  Path(MessageMoves, ReadUpTo(Other(p)), wire[Other(p)], WrittenUpTo(p))'
    OBVIOUS
  <2>2. ReadUpTo(Other(p))' = ReadUpTo(Other(p)) /\ wire'[Other(p)] = wire[Other(p)]
        /\ WrittenUpTo(p)' = WrittenUpTo(p)
    BY <2>1 DEF ReadUpTo
  <2>3. QED
    BY <1>2, <2>1, <2>2
<1>4. QED
  BY <1>1, <1>2, <1>3 DEF Flowing

LEMMA InterruptsStay == Step => interrupts' = interrupts
<1>1. \A p, f : Wrote(p, f) => interrupts' = interrupts
  BY DEF Wrote
<1>2. \A q : Took(q) => interrupts' = interrupts
  BY DEF Took
<1>3. \A q : Broke(q) \/ Turned(q) \/ Rested \/ Interrupted => interrupts' = interrupts
  BY DEF Broke, Turned, Rested, Interrupted
<1>4. QED
  BY <1>1, <1>2, <1>3
  DEF Step, WroteControl, WroteFirst, WroteNext, TookControl, TookFragment, TookMessage

LEMMA FlowsKept ==
    ASSUME Typed, Typed', Lined, Flows, Step
    PROVE  Flows'
<1>1. \A p \in Peers : InLine(p)
  BY DEF Lined, InLine
<1>2. interrupts' = interrupts
  BY InterruptsStay
<1>3. SUFFICES ASSUME ~interrupts, NEW p \in Peers PROVE Flowing(Other(p))'
  <2>1. \A q \in Peers : q = Other(Other(q)) /\ Other(q) \in Peers
    BY OtherFacts
  <2>2. (\A p \in Peers : Flowing(Other(p))') => \A q \in Peers : Flowing(q)'
    BY <2>1
  <2>3. QED
    BY <1>2, <1>3, <2>2 DEF Flows
<1>4. Flowing(Other(p)) /\ Other(p) \in Peers /\ Other(Other(p)) = p
  BY <1>3, OtherFacts DEF Flows
<1>5. CASE \E r \in Peers : \E f : WroteControl(r, f) \/ WroteFirst(r, f) \/ WroteNext(r, f)
  <2>1. PICK r \in Peers : \E f : WroteControl(r, f) \/ WroteFirst(r, f) \/ WroteNext(r, f)
    BY <1>5
  <2>2. PICK f : WroteControl(r, f) \/ WroteFirst(r, f) \/ WroteNext(r, f)
    BY <2>1
  <2>3. CASE r = p
    BY <1>1, <1>4, <2>2, <2>3, WroteFlows
  <2>4. CASE r = Other(p)
    <3>1. Wrote(r, f) /\ sent'[p] = sent[p]
      <4>1. p # r /\ p \in Peers /\ sent \in [Peers -> Seq(Seq(Fragments))]
        BY <2>4, OtherFacts DEF Typed, Told
      <4>2. QED
        BY <2>2, <4>1 DEF WroteControl, WroteFirst, WroteNext
    <3>2. /\ sent'[p] = sent[p] /\ job'[p] = job[p] /\ wire'[r] = wire[r]
          /\ got' = got /\ rcv' = rcv /\ ended' = ended
      <4>1. r \in Peers /\ Other(r) = p
        BY <1>4, <2>4
      <4>2. wire'[r] = wire[r]
        BY <3>1, <4>1, WroteFacts
      <4>3. QED
        BY <3>1, <4>1, <4>2 DEF Wrote
    <3>3. ReadUpTo(r)' = ReadUpTo(r) /\ WrittenUpTo(p)' = WrittenUpTo(p)
      BY <3>2 DEF ReadUpTo, WrittenUpTo
    <3>4. (ended[r] = "no" => Path(MessageMoves, ReadUpTo(r), wire[r], WrittenUpTo(p)))'
      BY <1>4, <2>4, <3>2, <3>3 DEF Flowing
    <3>5. QED
      BY <1>4, <2>4, <3>2, <3>4 DEF Flowing
  <2>5. QED
    BY <2>3, <2>4, OtherFacts
<1>6. CASE \E q \in Peers : TookControl(q) \/ TookFragment(q) \/ TookMessage(q)
  <2>1. PICK q \in Peers : TookControl(q) \/ TookFragment(q) \/ TookMessage(q)
    BY <1>6
  <2>2. CASE q = Other(p)
    BY <1>1, <1>4, <2>1, <2>2, TookFlows
  <2>3. CASE q = p
    <3>1. Took(q) /\ got'[p] = got[p]
      BY <1>4, <2>1, <2>3, OtherFacts DEF TookControl, TookFragment, TookMessage, Typed, Told
    <3>2. /\ sent' = sent /\ job' = job /\ rcv'[Other(p)] = rcv[Other(p)]
          /\ ended'[Other(p)] = ended[Other(p)] /\ wire'[Other(p)] = wire[Other(p)]
      BY <2>3, <3>1, TookFacts DEF Took
    <3>3. ReadUpTo(Other(p))' = ReadUpTo(Other(p)) /\ WrittenUpTo(p)' = WrittenUpTo(p)
      BY <1>4, <3>1, <3>2 DEF ReadUpTo, WrittenUpTo
    <3>4. (ended[Other(p)] = "no" =>
             Path(MessageMoves, ReadUpTo(Other(p)), wire[Other(p)], WrittenUpTo(p)))'
      BY <1>4, <3>2, <3>3 DEF Flowing
    <3>5. QED
      BY <1>4, <3>1, <3>2, <3>4 DEF Flowing
  <2>4. QED
    BY <2>2, <2>3, OtherFacts
<1>7. CASE \E q \in Peers : Broke(q)
  <2>1. PICK q \in Peers : Broke(q)
    BY <1>7
  <2>2. /\ UNCHANGED <<sent, got, job, rcv>>
        /\ ended'[q] = "broken" /\ \A r \in Peers : r # q => ended'[r] = ended[r]
        /\ \A r \in Peers : r # q => wire'[r] = wire[r]
    BY <2>1 DEF Broke, End, Typed, Working, Carried
  <2>3. WrittenUpTo(p)' = WrittenUpTo(p)
    BY <2>2 DEF WrittenUpTo
  <2>4. QED
    BY <1>4, <2>2, <2>3, SameFlows
<1>8. CASE \E r \in Peers : Turned(r)
  <2>1. PICK r \in Peers : Turned(r)
    BY <1>8
  <2>2. /\ UNCHANGED <<wire, sent, got, rcv, ended>>
        /\ job'[r].op = "none" /\ job[r].op = "rekey"
        /\ \A s \in Peers : s # r => job'[s] = job[s]
    BY <2>1 DEF Turned, Typed, Working, Idle
  <2>3. WrittenUpTo(p)' = WrittenUpTo(p)
    BY <2>2 DEF WrittenUpTo
  <2>4. QED
    BY <1>4, <2>2, <2>3, SameFlows
<1>9. CASE Rested
  <2>1. WrittenUpTo(p)' = WrittenUpTo(p)
    BY <1>9 DEF Rested, JobKept, WrittenUpTo
  <2>2. QED
    BY <1>4, <1>9, <2>1, SameFlows DEF Rested
<1>10. CASE Interrupted
  BY <1>3, <1>10 DEF Interrupted
<1>11. QED
  BY <1>5, <1>6, <1>7, <1>8, <1>9, <1>10 DEF Step

-----------------------------------------------------------------------------
(* Uninterrupted, and if keys are rotated only while the other side listens, *)
(* frames are taken under the keys and the sequence they were sealed with    *)

LEMMA KeyMove ==
    ASSUME NEW f \in Frames, NEW g \in Seq(Salts), NEW n \in Nat, NEW c
    PROVE  <<<<g, n>>, f, c>> \in KeyMoves <=>
             /\ f.type # "torn" /\ f.gen = g /\ f.seq = n
             /\ f.type = "REKEY" => c = <<Append(g, f.data), 0>>
             /\ f.type # "REKEY" => c = <<g, n + 1>>
<1>1. PICK t, a : a = <<g, n>> /\ t = <<a, f, c>>
  OBVIOUS
<1>2. a \in Seq(Salts) \X Nat /\ a[1] = g /\ a[2] = n
  BY <1>1
<1>3. t[1] = a /\ t[2] = f /\ t[3] = c
  BY <1>1
<1>4. f.type = "REKEY" => Append(g, f.data) \in Seq(Salts)
  BY FrameFacts
<1>5. (f.type = "REKEY" => c = <<Append(g, f.data), 0>>)
      /\ (f.type # "REKEY" => c = <<g, n + 1>>) => c \in Seq(Salts) \X Nat
  BY <1>4
<1>6. c \in Seq(Salts) \X Nat => t \in (Seq(Salts) \X Nat) \X Frames \X (Seq(Salts) \X Nat)
  BY <1>1, <1>2
<1>7. t \in KeyMoves => c \in Seq(Salts) \X Nat
  BY <1>3 DEF KeyMoves
<1>8. t \in KeyMoves <=>
        /\ t \in (Seq(Salts) \X Nat) \X Frames \X (Seq(Salts) \X Nat)
        /\ f.type # "torn" /\ f.gen = g /\ f.seq = n
        /\ c = IF f.type = "REKEY" THEN <<Append(g, f.data), 0>> ELSE <<g, n + 1>>
  BY <1>2, <1>3 DEF KeyMoves
<1>9. QED
  BY <1>1, <1>5, <1>6, <1>7, <1>8

LEMMA KeysTyped ==
    ASSUME Typed, NEW p \in Peers
    PROVE  gen[p] \in Seq(Salts) /\ tx_seq[p] \in Nat /\ rx_seq[p] \in Nat
  BY DEF Typed, Keyed

LEMMA WroteAgrees ==
    ASSUME Typed, NEW p \in Peers, NEW f, Wrote(p, f), job[p].op # "rekey", Agreeing(Other(p))
    PROVE  Agreeing(Other(p))'
<1>1. gen' = gen /\ rx_seq' = rx_seq /\ ended' = ended /\ f.gen = gen[p] /\ f.seq = tx_seq[p]
  BY DEF Wrote
<1>2. /\ gen' = gen /\ rx_seq' = rx_seq /\ ended' = ended /\ Other(Other(p)) = p
      /\ f \in Frames /\ f.type # "torn" /\ f.gen = gen[p] /\ f.seq = tx_seq[p]
      /\ wire'[Other(p)] = Append(wire[Other(p)], f) /\ wire[Other(p)] \in Seq(Frames)
      /\ tx_seq'[p] = tx_seq[p] + 1
  BY <1>1, OtherFacts, WroteFacts
<1>3. (job'[p].op = "rekey" <=> f.type = "REKEY") /\ job'[p].data = f.data
  BY DEF Wrote
<1>4. /\ Writes(p) = <<gen[p], tx_seq[p]>>
      /\ f.type = "REKEY" => Writes(p)' = <<Append(gen[p], f.data), 0>>
      /\ f.type # "REKEY" => Writes(p)' = <<gen[p], tx_seq[p] + 1>>
  BY <1>2, <1>3 DEF Writes
<1>5. <<Writes(p), f, Writes(p)'>> \in KeyMoves
  BY <1>2, <1>4, KeysTyped, KeyMove
<1>6. Reads(Other(p))' = Reads(Other(p))
  BY <1>2 DEF Reads
<1>7. (ended[Other(p)] = "no" => Path(KeyMoves, Reads(Other(p)), wire[Other(p)], Writes(p)))'
  BY <1>2, <1>5, <1>6, PathGrows DEF Agreeing
<1>8. QED
  BY <1>2, <1>7 DEF Agreeing

LEMMA HeadOpens ==
    ASSUME Typed, NEW q \in Peers, Agreeing(q), ended[q] = "no", wire[q] # <<>>
    PROVE  /\ Opens(q, Head(wire[q]))
           /\ \E c : /\ <<Reads(q), Head(wire[q]), c>> \in KeyMoves
                     /\ Path(KeyMoves, c, Tail(wire[q]), Writes(Other(q)))
<1>1. wire[q] \in Seq(Frames) /\ Head(wire[q]) \in Frames
  BY WireFacts
<1>2. Path(KeyMoves, Reads(q), wire[q], Writes(Other(q)))
  BY DEF Agreeing
<1>3. PICK c : /\ <<Reads(q), Head(wire[q]), c>> \in KeyMoves
               /\ Path(KeyMoves, c, Tail(wire[q]), Writes(Other(q)))
  BY <1>1, <1>2, PathStarts
<1>4. Opens(q, Head(wire[q]))
  BY <1>1, <1>3, KeysTyped, KeyMove, FrameFacts DEF Opens, Reads
<1>5. QED
  BY <1>3, <1>4

LEMMA TookAgrees ==
    ASSUME Typed, NEW q \in Peers, Took(q), Agreeing(q)
    PROVE  Agreeing(q)'
<1>1. /\ wire'[q] = Tail(wire[q]) /\ wire[q] # <<>> /\ Head(wire[q]) \in Frames
      /\ ended[q] = "no" /\ job' = job
  BY TookFacts DEF Took
<1>2. PICK c : /\ <<Reads(q), Head(wire[q]), c>> \in KeyMoves
               /\ Path(KeyMoves, c, Tail(wire[q]), Writes(Other(q)))
  BY <1>1, HeadOpens
<1>3. /\ Head(wire[q]).type = "REKEY" => c = <<Append(gen[q], Head(wire[q]).data), 0>>
      /\ Head(wire[q]).type # "REKEY" => c = <<gen[q], rx_seq[q] + 1>>
  BY <1>1, <1>2, KeysTyped, KeyMove DEF Reads
<1>4. Reads(q)' = c /\ Writes(Other(q))' = Writes(Other(q))
  <2>1. gen \in [Peers -> Seq(Salts)] /\ rx_seq \in [Peers -> Nat] /\ tx_seq \in [Peers -> Nat]
        /\ Other(q) \in Peers /\ Other(q) # q
    BY OtherFacts DEF Typed, Keyed
  <2>2. CASE Head(wire[q]).type = "REKEY"
    <3>1. /\ gen' = [gen EXCEPT ![q] = Append(gen[q], Head(wire[q]).data)]
          /\ tx_seq' = [tx_seq EXCEPT ![q] = 0] /\ rx_seq' = [rx_seq EXCEPT ![q] = 0]
      BY <2>2 DEF Took, Rotate
    <3>2. /\ gen'[q] = Append(gen[q], Head(wire[q]).data) /\ rx_seq'[q] = 0
          /\ gen'[Other(q)] = gen[Other(q)] /\ tx_seq'[Other(q)] = tx_seq[Other(q)]
      BY <2>1, <3>1
    <3>3. QED
      BY <1>1, <1>3, <2>2, <3>2 DEF Reads, Writes
  <2>3. CASE Head(wire[q]).type # "REKEY"
    <3>1. gen' = gen /\ tx_seq' = tx_seq /\ rx_seq' = [rx_seq EXCEPT ![q] = rx_seq[q] + 1]
      BY <2>3 DEF Took, Count
    <3>2. rx_seq'[q] = rx_seq[q] + 1
      BY <2>1, <3>1
    <3>3. QED
      BY <1>1, <1>3, <2>3, <3>1, <3>2 DEF Reads, Writes
  <2>4. QED
    BY <2>2, <2>3
<1>5. (ended[q] = "no" => Path(KeyMoves, Reads(q), wire[q], Writes(Other(q))))'
  BY <1>1, <1>2, <1>4
<1>6. QED
  BY <1>5 DEF Agreeing

LEMMA SameAgrees ==
    ASSUME NEW q \in Peers, Agreeing(q),
           ended'[q] = "no" => ended[q] = "no" /\ wire'[q] = wire[q] /\ Reads(q)' = Reads(q)
                               /\ Writes(Other(q))' = Writes(Other(q))
    PROVE  Agreeing(q)'
<1>1. (ended[q] = "no" => Path(KeyMoves, Reads(q), wire[q], Writes(Other(q))))'
  <2>1. SUFFICES ASSUME ended'[q] = "no"
                 PROVE  Path(KeyMoves, Reads(q), wire[q], Writes(Other(q)))'
    OBVIOUS
  <2>2. QED
    BY <2>1 DEF Agreeing
<1>2. QED
  BY <1>1 DEF Agreeing

LEMMA RestedAgrees == Rested => \A q \in Peers : Agreeing(q) => Agreeing(q)'
<1>1. SUFFICES ASSUME Rested, NEW q \in Peers, Agreeing(q) PROVE Agreeing(q)'
  OBVIOUS
<1>2. Reads(q)' = Reads(q)
  BY <1>1 DEF Rested, Reads
<1>3. Writes(Other(q))' = Writes(Other(q))
  BY <1>1, OtherFacts DEF Rested, JobKept, Writes
<1>4. QED
  BY <1>1, <1>2, <1>3, SameAgrees DEF Rested

Tuned == NoRekey \/ \E q \in Peers : Listens(q)

(* A fragment too many, or a control frame inside a message, is never sent.  *)
LEMMA NeverBreaks ==
    ASSUME Typed, Lined, Flows, Tuned, ~interrupts, NEW q \in Peers
    PROVE  ~Broke(q)
<1>1. SUFFICES ASSUME Broke(q) PROVE FALSE
  OBVIOUS
<1>2. PICK p \in Peers : p = Other(q) /\ q = Other(p) /\ InLine(p) /\ Flowing(q)
  BY OtherFacts DEF Lined, InLine, Flows
<1>3. ended[q] = "no"
  BY <1>1 DEF Broke
<1>4. Path(MessageMoves, ReadUpTo(q), wire[q], WrittenUpTo(p))
  BY <1>2, <1>3 DEF Flowing
<1>5. rcv[q].asm \in Seq(Fragments) /\ got[p] \in Seq(Seq(Fragments))
      /\ wire[q] \in Seq(Frames)
  BY <1>2, RcvFacts, StreamTyped, WireFacts
<1>6. ReadUpTo(q) = <<Len(got[p]) + 1, Len(rcv[q].asm)>> /\ ReadUpTo(q) \in Nat \X Nat
  BY <1>2, <1>5 DEF ReadUpTo
<1>7. CASE wire[q] = <<>> /\ Stuck(q)
  <2>1. ReadUpTo(q) = WrittenUpTo(p)
    BY <1>4, <1>7, PathEnds
  <2>2. WrittenUpTo(p) = <<Len(sent[p]) + 1, 0>>
    BY <1>2, <1>7 DEF Stuck, WrittenUpTo
  <2>3. Len(rcv[q].asm) = 0
    BY <1>6, <2>1, <2>2
  <2>4. QED
    BY <1>5, <1>7, <2>3 DEF Stuck
<1>8. CASE wire[q] # <<>> /\ Unfit(q, Head(wire[q]))
  <2>1. Agreeing(q)
    BY <1>2, <1>8, OtherFacts DEF Tuned, NoRekey, Listens
  <2>2. Opens(q, Head(wire[q])) /\ Head(wire[q]) \in Frames
    BY <1>3, <1>5, <1>8, <2>1, HeadOpens, WireFacts
  <2>3. PICK c : <<ReadUpTo(q), Head(wire[q]), c>> \in MessageMoves
    BY <1>4, <1>5, <1>8, PathStarts
  <2>4. c \in Nat \X Nat
    BY <2>3 DEF MessageMoves
  <2>5. /\ ~Fragment(Head(wire[q])) => Len(rcv[q].asm) = 0
        /\ Fragment(Head(wire[q])) => Head(wire[q]).data[3] = Len(rcv[q].asm) + 1
    <3>1. PICK a : a = ReadUpTo(q)
      OBVIOUS
    <3>2. a \in Nat \X Nat /\ a[2] = Len(rcv[q].asm)
      BY <1>6, <3>1
    <3>3. QED
      BY <2>2, <2>3, <2>4, <3>1, <3>2, MessageMove
  <2>6. CASE Head(wire[q]).type \in Controls /\ rcv[q].asm # <<>>
    <3>1. ~Fragment(Head(wire[q]))
      BY <2>6 DEF Controls, Fragment, DataTypes
    <3>2. QED
      BY <1>5, <2>5, <2>6, <3>1
  <2>7. CASE Head(wire[q]).type = "DATA_FRAG" /\ Len(rcv[q].asm) + 1 >= MaxFrags
    <3>1. Fragment(Head(wire[q]))
      BY <2>7 DEF Fragment, DataTypes
    <3>2. PICK e : e = Head(wire[q]).data
      OBVIOUS
    <3>3. Genuine(p, Head(wire[q]))
      <4>1. 1 \in DOMAIN wire[q] /\ Head(wire[q]) = wire[q][1]
        BY <1>8, WireFacts
      <4>2. QED
        BY <1>2, <4>1 DEF InLine, Ordered
    <3>4. Emitted(p, e) /\ ~Last(p, e)
      BY <2>7, <3>1, <3>2, <3>3 DEF Genuine
    <3>5. e[2] \in DOMAIN sent[p] /\ e[3] \in 1 .. Len(sent[p][e[2]])
          /\ e[3] # Len(sent[p][e[2]]) /\ Len(sent[p][e[2]]) \in Nat
          /\ Len(sent[p][e[2]]) \in 1 .. MaxFrags
      BY <1>2, <3>4, SentFacts DEF Emitted, Last, InLine
    <3>6. e[3] = Len(rcv[q].asm) + 1
      BY <2>5, <3>1, <3>2
    <3>7. QED
      BY <1>5, <2>7, <3>5, <3>6, TcpSessionAssumption
  <2>8. QED
    BY <1>8, <2>2, <2>6, <2>7 DEF Unfit
<1>9. QED
  BY <1>1, <1>7, <1>8 DEF Broke, Stuck

LEMMA ScriptsTyped == Typed => \A p \in Peers : script[p] \in Seq(Operations)
  BY DEF Typed, Working

LEMMA CallsLess ==
    ASSUME Typed, ScriptsLess, NEW p \in Peers
    PROVE  /\ \A o : ~Calls(p, o) => ~Calls(p, o)'
           /\ script[p] = <<>> => script'[p] = <<>>
<1>1. script'[p] = script[p] \/ (script[p] # <<>> /\ script'[p] = Tail(script[p]))
  BY DEF ScriptsLess
<1>2. CASE script[p] # <<>> /\ script'[p] = Tail(script[p])
  <2>1. \A i \in DOMAIN script'[p] : i + 1 \in DOMAIN script[p] /\ script'[p][i] = script[p][i + 1]
    BY <1>2, ScriptsTyped
  <2>2. QED
    BY <1>2, <2>1 DEF Calls
<1>3. QED
  BY <1>1, <1>2 DEF Calls

LEMMA CarriesLess ==
    ASSUME Typed, NEW q \in Peers, Took(q), NEW type
    PROVE  /\ ~Carries(q, type) => ~Carries(q, type)' /\ Head(wire[q]).type # type
           /\ ~Carries(Other(q), type) => ~Carries(Other(q), type)'
  BY TookFacts DEF Carries

LEMMA CarriesMore ==
    ASSUME Typed, NEW p \in Peers, NEW f, Wrote(p, f), NEW type
    PROVE  /\ ~Carries(Other(p), type) /\ f.type # type => ~Carries(Other(p), type)'
           /\ ~Carries(p, type) => ~Carries(p, type)'
<1>1. /\ wire'[p] = wire[p] /\ wire'[Other(p)][Len(wire[Other(p)]) + 1] = f
      /\ DOMAIN wire'[Other(p)] = 1 .. Len(wire[Other(p)]) + 1
      /\ DOMAIN wire[Other(p)] = 1 .. Len(wire[Other(p)]) /\ Len(wire[Other(p)]) \in Nat
      /\ \A j \in DOMAIN wire[Other(p)] : wire'[Other(p)][j] = wire[Other(p)][j]
  BY WroteFacts
<1>2. \A j \in DOMAIN wire'[Other(p)] :
        j \in DOMAIN wire[Other(p)] \/ j = Len(wire[Other(p)]) + 1
  BY <1>1
<1>3. QED
  BY <1>1, <1>2 DEF Carries

LEMMA NoRekeyStays ==
    ASSUME Typed, NoRekey, Step, ~interrupts, \A q \in Peers : ~Broke(q)
    PROVE  NoRekey'
<1>1. \A p \in Peers : /\ ~Calls(p, "rekey") /\ job[p].op # "rekey" /\ ~Carries(p, "REKEY")
                       /\ Agreeing(p)
  BY DEF NoRekey
<1>2. ASSUME NEW r \in Peers, NEW f, WroteControl(r, f) \/ WroteFirst(r, f) \/ WroteNext(r, f)
      PROVE  NoRekey'
  <2>1. Wrote(r, f)
    BY <1>2 DEF WroteControl, WroteFirst, WroteNext
  <2>2. /\ f.type # "REKEY" /\ job'[r].op # "rekey" /\ job'[Other(r)] = job[Other(r)]
        /\ ScriptsLess
    BY <1>1, <2>1 DEF Wrote
  <2>3. \A p \in Peers : p = r \/ p = Other(r)
    BY OtherFacts
  <2>4. \A p \in Peers : ~Calls(p, "rekey")' /\ job'[p].op # "rekey"
    BY <1>1, <2>2, <2>3, CallsLess
  <2>5. \A p \in Peers : ~Carries(p, "REKEY")'
    BY <1>1, <2>1, <2>2, <2>3, CarriesMore, OtherFacts
  <2>6. Agreeing(Other(r))'
    BY <1>1, <2>1, WroteAgrees, OtherFacts
  <2>7. Agreeing(r)'
    <3>1. /\ wire'[r] = wire[r] /\ job'[Other(r)] = job[Other(r)] /\ gen' = gen
          /\ rx_seq' = rx_seq /\ tx_seq'[Other(r)] = tx_seq[Other(r)] /\ ended' = ended
      BY <2>1, WroteFacts DEF Wrote
    <3>2. Reads(r)' = Reads(r) /\ Writes(Other(r))' = Writes(Other(r))
      BY <3>1 DEF Reads, Writes
    <3>3. QED
      BY <1>1, <3>1, <3>2, SameAgrees
  <2>8. QED
    BY <2>3, <2>4, <2>5, <2>6, <2>7 DEF NoRekey
<1>3. ASSUME NEW r \in Peers, Took(r) PROVE NoRekey'
  <2>1. \A p \in Peers : p = r \/ p = Other(r)
    BY OtherFacts
  <2>2. /\ Head(wire[r]).type # "REKEY" /\ \A p \in Peers : ~Carries(p, "REKEY")'
    BY <1>1, <1>3, <2>1, CarriesLess, OtherFacts
  <2>3. /\ script' = script /\ job' = job /\ gen' = gen /\ tx_seq' = tx_seq
        /\ ended'[Other(r)] = ended[Other(r)] /\ wire'[Other(r)] = wire[Other(r)]
        /\ rx_seq' = [rx_seq EXCEPT ![r] = rx_seq[r] + 1]
    BY <1>3, <2>2, TookFacts DEF Took, Count
  <2>4. Agreeing(r)'
    BY <1>1, <1>3, TookAgrees
  <2>5. Agreeing(Other(r))'
    <3>1. rx_seq'[Other(r)] = rx_seq[Other(r)] /\ Other(r) \in Peers
      BY <2>3, OtherFacts DEF Typed, Keyed
    <3>2. Reads(Other(r))' = Reads(Other(r))
          /\ Writes(Other(Other(r)))' = Writes(Other(Other(r)))
      BY <2>3, <3>1 DEF Reads, Writes
    <3>3. QED
      BY <1>1, <2>3, <3>1, <3>2, SameAgrees
  <2>6. \A p \in Peers : ~Calls(p, "rekey")' /\ job'[p].op # "rekey"
    BY <1>1, <2>3 DEF Calls
  <2>7. QED
    BY <2>1, <2>2, <2>4, <2>5, <2>6 DEF NoRekey
<1>4. ASSUME Rested PROVE NoRekey'
  <2>1. \A p \in Peers : Agreeing(p)'
    BY <1>1, <1>4, RestedAgrees
  <2>2. \A p \in Peers : ~Calls(p, "rekey")' /\ job'[p].op # "rekey" /\ ~Carries(p, "REKEY")'
    BY <1>1, <1>4 DEF Rested, JobKept, Calls, Carries
  <2>3. QED
    BY <2>1, <2>2 DEF NoRekey
<1>5. QED
  BY <1>1, <1>2, <1>3, <1>4 DEF Step, TookControl, TookFragment, TookMessage, Turned, Interrupted

LEMMA ListensStays ==
    ASSUME Typed, NEW q \in Peers, Listens(q), Step, ~interrupts, \A r \in Peers : ~Broke(r)
    PROVE  Listens(q)'
<1>1. PICK p \in Peers : p = Other(q) /\ q = Other(p) /\ p # q /\ \A r \in Peers : r = p \/ r = q
  BY OtherFacts
<1>2. /\ script[q] = <<>> /\ job[q].op = "none" /\ ~rcv[q].pong
      /\ ~Calls(p, "ping") /\ job[p].op # "ping" /\ ~Carries(q, "PING")
      /\ wire[p] = <<>> /\ Agreeing(q)
  BY <1>1 DEF Listens
<1>3. ASSUME NEW r \in Peers, NEW f, WroteControl(r, f) \/ WroteFirst(r, f) \/ WroteNext(r, f)
      PROVE  Listens(q)'
  <2>1. Wrote(r, f) /\ job[r].op # "rekey"
    BY <1>3 DEF WroteControl, WroteFirst, WroteNext
  <2>2. r = p
    BY <1>1, <1>2, <2>1 DEF Wrote
  <2>3. /\ f.type # "PING" /\ job'[p].op # "ping" /\ ScriptsLess /\ rcv' = rcv
    BY <1>2, <2>1, <2>2 DEF Wrote
  <2>4. job'[q] = job[q] /\ wire'[p] = wire[p]
    BY <1>1, <2>1, <2>2, WroteFacts
  <2>5. Agreeing(q)'
    BY <1>1, <1>2, <2>1, <2>2, WroteAgrees
  <2>6. ~Calls(p, "ping")' /\ script'[q] = <<>>
    BY <1>2, <2>3, CallsLess
  <2>7. ~Carries(q, "PING")'
    BY <1>1, <1>2, <2>1, <2>2, <2>3, CarriesMore
  <2>8. QED
    BY <1>1, <1>2, <2>3, <2>4, <2>5, <2>6, <2>7 DEF Listens
<1>4. ASSUME NEW r \in Peers, Took(r) PROVE Listens(q)'
  <2>1. r = q
    BY <1>1, <1>2, <1>4 DEF Took
  <2>2. Head(wire[q]).type # "PING" /\ ~Carries(q, "PING")' /\ Agreeing(q)'
    BY <1>2, <1>4, <2>1, CarriesLess, TookAgrees
  <2>3. /\ script' = script /\ job' = job /\ ~rcv'[q].pong /\ wire'[p] = wire[p]
    BY <1>1, <1>2, <1>4, <2>1, <2>2, TookFacts DEF Took
  <2>4. QED
    BY <1>1, <1>2, <2>2, <2>3 DEF Listens, Calls
<1>5. ASSUME NEW r \in Peers, Turned(r) PROVE Listens(q)'
  <2>1. r = p /\ job[p].op = "rekey" /\ Rotate(p, job[p].data)
        /\ UNCHANGED <<script, wire, rcv, ended>> /\ job' = [job EXCEPT ![p] = Idle]
    BY <1>1, <1>2, <1>5 DEF Turned
  <2>2. job'[q] = job[q] /\ job'[p].op = "none"
    BY <1>1, <2>1 DEF Typed, Working, Idle
  <2>3. /\ gen'[p] = Append(gen[p], job[p].data) /\ tx_seq'[p] = 0
        /\ gen'[q] = gen[q] /\ rx_seq'[q] = rx_seq[q]
    BY <1>1, <2>1 DEF Rotate, Typed, Keyed
  <2>4. Reads(q)' = Reads(q) /\ Writes(p)' = Writes(p)
    BY <2>1, <2>2, <2>3 DEF Reads, Writes
  <2>5. Agreeing(q)'
    BY <1>1, <1>2, <2>1, <2>4, SameAgrees
  <2>6. QED
    BY <1>1, <1>2, <2>1, <2>2, <2>5 DEF Listens, Calls, Carries
<1>6. ASSUME Rested PROVE Listens(q)'
  <2>1. Agreeing(q)'
    BY <1>2, <1>6, RestedAgrees
  <2>2. QED
    BY <1>1, <1>2, <1>6, <2>1 DEF Rested, JobKept, Listens, Calls, Carries
<1>7. QED
  BY <1>3, <1>4, <1>5, <1>6 DEF Step, TookControl, TookFragment, TookMessage, Interrupted

LEMMA AgreesKept ==
    ASSUME Typed, Lined, Flows, Agrees, Step
    PROVE  Agrees'
<1>1. interrupts' = interrupts
  BY InterruptsStay
<1>2. SUFFICES ASSUME RekeysAreQuiet, ~interrupts
               PROVE  (NoRekey \/ \E q \in Peers : Listens(q))'
                      /\ \A p \in Peers : ended'[p] # "broken"
  BY <1>1 DEF Agrees, RekeysAreQuiet
<1>3. Tuned /\ \A p \in Peers : ended[p] # "broken"
  BY <1>2 DEF Agrees, Tuned
<1>4. \A q \in Peers : ~Broke(q)
  BY <1>2, <1>3, NeverBreaks
<1>5. (NoRekey \/ \E q \in Peers : Listens(q))'
  BY <1>2, <1>3, <1>4, NoRekeyStays, ListensStays DEF Tuned
<1>6. ASSUME NEW p \in Peers PROVE ended'[p] # "broken"
  <2>1. CASE ended' = ended
    BY <1>3, <2>1
  <2>2. CASE \E q \in Peers : Took(q)
    BY <1>3, <2>2, OtherFacts DEF Took
  <2>3. CASE Rested
    BY <1>3, <2>3 DEF Rested
  <2>4. QED
    BY <1>2, <1>4, <2>1, <2>2, <2>3
    DEF Step, WroteControl, WroteFirst, WroteNext, Wrote, TookControl, TookFragment,
        TookMessage, Turned, Interrupted
<1>7. QED
  BY <1>5, <1>6

-----------------------------------------------------------------------------
(* Every action is one of the steps, and keeps the types                     *)

Kept == Typed' /\ Step /\ Counted'

LEMMA SendsFacts ==
    ASSUME NEW s \in Seq(Operations)
    PROVE  /\ Sends(s) \in Nat
           /\ s # <<>> => Sends(Tail(s)) <= Sends(s)
           /\ s # <<>> /\ Head(s).op = "send" => Sends(Tail(s)) + 1 <= Sends(s)
<1> DEFINE S(u) == {i \in DOMAIN u : u[i].op = "send"}
<1>1. \A u \in Seq(Operations) : IsFiniteSet(S(u)) /\ Sends(u) \in Nat /\ Sends(u) = Cardinality(S(u))
  <2>1. TAKE u \in Seq(Operations)
  <2>2. 1 \in Int /\ Len(u) \in Int /\ S(u) \subseteq 1 .. Len(u)
    OBVIOUS
  <2>3. IsFiniteSet(1 .. Len(u)) /\ S(u) \subseteq 1 .. Len(u)
    BY <2>2, FS_Interval
  <2>4. IsFiniteSet(S(u))
    BY <2>3, FS_Subset
  <2>5. QED
    BY <2>4, FS_CardinalityType DEF Sends
<1>2. ASSUME s # <<>>
      PROVE  /\ Sends(Tail(s)) <= Sends(s)
             /\ Head(s).op = "send" => Sends(Tail(s)) + 1 <= Sends(s)
  <2>1. /\ Tail(s) \in Seq(Operations) /\ Head(s) = s[1] /\ 1 \in DOMAIN s
        /\ \A i \in DOMAIN Tail(s) : i \in Nat \ {0} /\ i + 1 \in DOMAIN s /\ Tail(s)[i] = s[i + 1]
    BY <1>2
  <2>2. PICK f : f = [i \in S(Tail(s)) |-> i + 1]
    OBVIOUS
  <2>3. f \in Injection(S(Tail(s)), S(s) \ {1})
    <3>1. \A i \in S(Tail(s)) : i + 1 \in S(s) \ {1}
      BY <2>1
    <3>2. f \in [S(Tail(s)) -> S(s) \ {1}]
      BY <2>2, <3>1
    <3>3. \A i, j \in S(Tail(s)) : f[i] = f[j] => i = j
      BY <2>1, <2>2
    <3>4. QED
      BY <3>2, <3>3 DEF Injection, IsInjective
  <2>4. IsFiniteSet(S(s)) /\ IsFiniteSet(S(s) \ {1})
    BY <1>1, FS_RemoveElement
  <2>5. Sends(Tail(s)) <= Cardinality(S(s) \ {1})
    <3>1. Cardinality(S(Tail(s))) <= Cardinality(S(s) \ {1})
      <4> HIDE DEF S
      <4>1. QED
        BY <2>3, <2>4, FS_Injection
    <3>2. Sends(Tail(s)) = Cardinality(S(Tail(s)))
      BY <2>1 DEF Sends
    <3>3. QED
      BY <3>1, <3>2
  <2>6. Cardinality(S(s) \ {1}) = IF 1 \in S(s) THEN Cardinality(S(s)) - 1 ELSE Cardinality(S(s))
    BY <2>4, FS_RemoveElement
  <2>7. Cardinality(S(s)) = Sends(s) /\ Sends(s) \in Nat /\ Sends(Tail(s)) \in Nat
    BY <1>1, <2>1
  <2>8. Head(s).op = "send" => 1 \in S(s)
    BY <2>1
  <2>9. QED
    BY <2>5, <2>6, <2>7, <2>8
<1>3. QED
  BY <1>1, <1>2

(* What an operation writes. *)
Fits(o, type, data) ==
    \/ o = "send" /\ type \in DataTypes /\ data \in Fragments
    \/ o = "rekey" /\ type = "REKEY" /\ data \in Salts
    \/ o = "ping" /\ type = "PING" /\ data = 0
    \/ o \in {"pong", "bye"} /\ type \in ControlTypes \ {"PING"} /\ data = 0

LEMMA FitsFacts ==
    ASSUME NEW o, NEW type, NEW data, Fits(o, type, data)
    PROVE  /\ \A paused \in BOOLEAN :
                [op |-> o, type |-> type, data |-> data, paused |-> paused] \in Jobs
           /\ \A g \in Seq(Salts), n \in Nat :
                [gen |-> g, type |-> type, seq |-> n, data |-> data] \in Frames
           /\ type # "torn" /\ o # "none"
           /\ o = "send" <=> type \in DataTypes
           /\ o = "rekey" <=> type = "REKEY"
           /\ o = "ping" <=> type = "PING"
<1>1. CASE o = "send" /\ type \in DataTypes /\ data \in Fragments
  BY <1>1 DEF Jobs, Frames, DataTypes
<1>2. CASE o = "rekey" /\ type = "REKEY" /\ data \in Salts
  BY <1>2 DEF Jobs, Frames, DataTypes
<1>3. CASE o = "ping" /\ type = "PING" /\ data = 0
  BY <1>3 DEF Jobs, Frames, DataTypes, ControlTypes
<1>4. CASE o \in {"pong", "bye"} /\ type \in ControlTypes \ {"PING"} /\ data = 0
  BY <1>4 DEF Jobs, Frames, DataTypes, ControlTypes
<1>5. QED
  BY <1>1, <1>2, <1>3, <1>4 DEF Fits

LEMMA PacedFacts ==
    ASSUME Typed, ~interrupts, NEW p \in Peers
    PROVE  /\ Len(wire[Other(p)]) \in Nat /\ Len(wire[Other(p)]) <= Cap + 1
           /\ job[p] = Idle \/ Running(p) => Len(wire[Other(p)]) <= Cap
<1>1. Idle.op = "none"
  BY DEF Idle
<1>2. QED
  BY <1>1, OtherFacts, WireFacts DEF Typed, Paced, Running

LEMMA EmitKeeps ==
    ASSUME Typed, NEW p \in Peers, NEW o, NEW type, NEW data, Emit(p, o, type, data),
           Fits(o, type, data), job[p] = Idle \/ Running(p),
           type = "REKEY" => Calls(p, "rekey") /\ data <= salts',
           type = "PING" => Calls(p, "ping"),
           o = "pong" => rcv[p].pong,
           job[p].op # "none" \/ rcv[p].pong \/ script[p] # <<>>,
           ScriptsLess, script' \in [Peers -> Seq(Operations)],
           sent' \in [Peers -> Seq(Seq(Fragments))], salts' \in Nat, salts <= salts',
           UNCHANGED <<gen, rx_seq, rcv, ended, interrupts, got, port, attempts>>
    PROVE  Typed' /\ \E f : Wrote(p, f) /\ f.type = type /\ f.data = data
<1>1. PICK f : f = [gen |-> gen[p], type |-> type, seq |-> tx_seq[p], data |-> data]
  OBVIOUS
<1>2. PICK r : r = Other(p) /\ r \in Peers /\ r # p /\ \A s \in Peers : s = p \/ s = r
  BY OtherFacts
<1>3. PICK w : w = Append(wire[r], f)
  OBVIOUS
<1>4. PICK b : b = (Len(w) > Cap)
  OBVIOUS
<1>5. PICK j : j = [op |-> o, type |-> type, data |-> data, paused |-> b]
  OBVIOUS
<1>6. /\ wire' = [wire EXCEPT ![r] = w] /\ tx_seq' = [tx_seq EXCEPT ![p] = tx_seq[p] + 1]
      /\ job' = [job EXCEPT ![p] = j]
  BY <1>1, <1>2, <1>3, <1>5, <1>4 DEF Emit
<1>7. gen[p] \in Seq(Salts) /\ tx_seq[p] \in Nat
  BY DEF Typed, Keyed
<1>8. f \in Frames
  BY <1>1, <1>7, FitsFacts
<1>9. /\ f.type = type /\ f.data = data /\ f.gen = gen[p] /\ f.seq = tx_seq[p]
      /\ j.op = o /\ j.type = type /\ j.data = data /\ j.paused = b
  BY <1>1, <1>5
<1>10. /\ wire[r] \in Seq(Frames) /\ w \in Seq(Frames) /\ Len(w) = Len(wire[r]) + 1
      /\ Len(wire[r]) \in Nat
      /\ \A i \in DOMAIN w : w[i] = f \/ (i \in DOMAIN wire[r] /\ w[i] = wire[r][i])
  BY <1>2, <1>3, <1>8, WireFacts
<1>11. b \in BOOLEAN
  <2>1. Cap \in Nat /\ Len(w) \in Nat
    BY <1>10, TcpSessionAssumption
  <2>2. (Len(w) > Cap) \in BOOLEAN
    BY <2>1
  <2>3. QED
    BY <1>4, <2>2
<1>12. b <=> Len(w) > Cap
  BY <1>4, Zenon
<1>13. j \in Jobs
  BY <1>5, <1>11, FitsFacts
<1>14. /\ wire \in [Peers -> Seq(Frames)] /\ tx_seq \in [Peers -> Nat] /\ job \in [Peers -> Jobs]
  BY DEF Typed, Carried, Keyed, Working
<1>15. /\ wire'[r] = w /\ wire'[p] = wire[p] /\ job'[p] = j /\ job'[r] = job[r]
       /\ wire' \in [Peers -> Seq(Frames)] /\ tx_seq' \in [Peers -> Nat]
       /\ job' \in [Peers -> Jobs]
  BY <1>2, <1>6, <1>7, <1>8, <1>10, <1>14, <1>13
<1>16. Keyed'
  <2>1. \A s \in Peers : \A i \in DOMAIN gen[s] : gen[s][i] <= salts'
    <3>1. \A s \in Peers : \A i \in DOMAIN gen[s] : gen[s][i] <= salts /\ gen[s][i] \in Nat
      BY DEF Typed, Keyed, Salts
    <3>2. salts \in Nat
      BY DEF Typed, Keyed
    <3>3. QED
      BY <3>1, <3>2
  <2>2. QED
    BY <1>15, <2>1 DEF Typed, Keyed
<1>17. Carried'
  <2>1. salts \in Nat
    BY DEF Typed, Keyed
  <2>2. \A i \in DOMAIN wire[p] : wire[p][i].type = "REKEY" => wire[p][i].data <= salts'
    BY <2>1, WireFacts DEF Salts
  <2>3. \A i \in DOMAIN wire[r] : wire[r][i].type = "REKEY" => wire[r][i].data <= salts'
    BY <1>2, <2>1, WireFacts DEF Salts
  <2>4. \A i \in DOMAIN w : w[i].type = "REKEY" => w[i].data <= salts'
    BY <1>9, <1>10, <2>3
  <2>5. QED
    BY <1>2, <1>15, <2>2, <2>4 DEF Carried
<1>18. Working'
  <2>1. salts \in Nat
    BY DEF Typed, Keyed
  <2>2. j.op = "rekey" => j.data <= salts'
    BY <1>9, FitsFacts
  <2>3. job[r].op = "rekey" => job[r].data <= salts'
    BY <1>2, <2>1, JobFacts DEF Salts
  <2>4. \A s \in Peers : job'[s].op = "rekey" => job'[s].data <= salts'
    BY <1>2, <1>15, <2>2, <2>3
  <2>5. QED
    BY <1>15, <2>4 DEF Typed, Working
<1>19. Paced'
  <2>1. SUFFICES ASSUME ~interrupts
                 PROVE  \A s \in Peers :
                          /\ Len(wire'[Other(s)]) <= Cap + 1
                          /\ job'[s].op = "none" \/ ~job'[s].paused => Len(wire'[Other(s)]) <= Cap
    BY DEF Paced
  <2>2. Len(wire[r]) <= Cap /\ Cap \in Nat
    BY <1>2, <2>1, PacedFacts, TcpSessionAssumption
  <2>3. Len(w) <= Cap + 1 /\ j.op # "none" /\ (~j.paused => Len(w) <= Cap)
    <3>1. Len(w) <= Cap + 1 /\ (~b => Len(w) <= Cap)
      BY <1>10, <1>12, <2>2
    <3>2. QED
      BY <1>9, <3>1, FitsFacts
  <2>4. /\ Len(wire[p]) <= Cap + 1
        /\ job[r].op = "none" \/ ~job[r].paused => Len(wire[p]) <= Cap
    BY <1>2, <2>1, OtherFacts DEF Typed, Paced
  <2>5. QED
    BY <1>2, <1>15, <2>3, <2>4, OtherFacts
<1>20. Told'
  BY DEF Typed, Told
<1>21. OnePort'
  <2>1. job'["B"].op = "pong" => rcv["B"].pong \/ job["B"].op = "pong"
    BY <1>2, <1>9, <1>15, OtherFacts
  <2>2. QED
    BY <2>1 DEF Typed, OnePort
<1>22. Wrote(p, f)
  <2>1. f.type # "torn" /\ j.op # "none"
        /\ (j.op = "send" <=> Fragment(f)) /\ (j.op = "rekey" <=> f.type = "REKEY")
        /\ (j.op = "ping" <=> f.type = "PING")
    BY <1>9, FitsFacts DEF Fragment
  <2>2. wire' = [wire EXCEPT ![Other(p)] = Append(wire[Other(p)], f)]
    BY <1>2, <1>3, <1>6
  <2>3. QED
    BY <1>2, <1>6, <1>8, <1>9, <1>15, <2>1, <2>2 DEF Wrote
<1>23. QED
  BY <1>9, <1>16, <1>17, <1>18, <1>19, <1>20, <1>21, <1>22 DEF Typed

LEMMA ReadyFacts ==
    ASSUME IInv, NEW p \in Peers, NEW o, Ready(p, o)
    PROVE  /\ script[p] # <<>> /\ Head(script[p]).op = o /\ Head(script[p]) \in Operations
           /\ script' = [script EXCEPT ![p] = Tail(script[p])]
           /\ script' \in [Peers -> Seq(Operations)] /\ ScriptsLess /\ Calls(p, o)
           /\ job[p] = Idle /\ job[p].op = "none" /\ ended[p] = "no"
           /\ script[p] \in Seq(Operations) /\ script'[p] = Tail(script[p])
           /\ \A r \in Peers : r # p => script'[r] = script[r]
<1>1. /\ script[p] # <<>> /\ Head(script[p]).op = o
      /\ script' = [script EXCEPT ![p] = Tail(script[p])] /\ job[p] = Idle /\ ended[p] = "no"
  BY DEF Ready, LockFree, Free
<1>2. script \in [Peers -> Seq(Operations)] /\ script[p] \in Seq(Operations)
  BY DEF IInv, Typed, Working
<1>3. /\ Tail(script[p]) \in Seq(Operations) /\ Head(script[p]) = script[p][1]
      /\ 1 \in DOMAIN script[p] /\ Head(script[p]) \in Operations
  BY <1>1, <1>2
<1>4. script' \in [Peers -> Seq(Operations)] /\ script'[p] = Tail(script[p])
      /\ \A r \in Peers : r # p => script'[r] = script[r]
  BY <1>1, <1>2, <1>3
<1>5. ScriptsLess /\ Calls(p, o)
  BY <1>1, <1>3, <1>4 DEF ScriptsLess, Calls
<1>6. job[p].op = "none"
  BY <1>1 DEF Idle
<1>7. QED
  BY <1>1, <1>2, <1>3, <1>4, <1>5, <1>6

LEMMA CountedKept ==
    ASSUME IInv, ScriptsLess, UNCHANGED sent
    PROVE  Counted'
<1>1. ASSUME NEW p \in Peers PROVE Len(sent'[p]) + Sends(script'[p]) <= MaxMsgs
  <2>1. /\ Len(sent[p]) + Sends(script[p]) <= MaxMsgs /\ script[p] \in Seq(Operations)
        /\ Len(sent[p]) \in Nat
    BY DEF IInv, Counted, Typed, Working, Told
  <2>2. Sends(script'[p]) <= Sends(script[p]) /\ Sends(script[p]) \in Nat
        /\ Sends(script'[p]) \in Nat
    <3>1. CASE script'[p] = script[p]
      <4>1. Sends(script[p]) \in Nat
        BY <2>1, SendsFacts
      <4>2. QED
        BY <3>1, <4>1
    <3>2. CASE script[p] # <<>> /\ script'[p] = Tail(script[p])
      <4>1. Tail(script[p]) \in Seq(Operations)
        BY <2>1, <3>2
      <4>2. Sends(Tail(script[p])) \in Nat
        BY <4>1, SendsFacts
      <4>3. Sends(script[p]) \in Nat /\ Sends(Tail(script[p])) <= Sends(script[p])
        BY <2>1, <3>2, SendsFacts
      <4>4. QED
        BY <3>2, <4>2, <4>3
    <3>3. QED
      BY <3>1, <3>2 DEF ScriptsLess
  <2>3. QED
    BY <2>1, <2>2, ScriptsAssumption
<1>2. QED
  BY <1>1 DEF Counted

LEMMA SaltsTyped == Typed => salts \in Nat
  BY DEF Typed, Keyed

(* A control frame. *)
LEMMA ControlKeeps ==
    ASSUME IInv, NEW p \in Peers, NEW o, NEW type, NEW data, Emit(p, o, type, data),
           Fits(o, type, data), o # "send", job[p] = Idle,
           type = "REKEY" => Calls(p, "rekey") /\ data <= salts',
           type = "PING" => Calls(p, "ping"),
           o = "pong" => rcv[p].pong,
           rcv[p].pong \/ script[p] # <<>>,
           ScriptsLess, script' \in [Peers -> Seq(Operations)],
           salts' \in Nat, salts <= salts',
           UNCHANGED <<gen, rx_seq, rcv, ended, interrupts, sent, got, port, attempts>>
    PROVE  Kept
<1>1. Typed /\ sent' \in [Peers -> Seq(Seq(Fragments))]
  BY DEF IInv, Typed, Told
<1>2. Typed' /\ \E f : Wrote(p, f) /\ f.type = type /\ f.data = data
  BY <1>1, EmitKeeps
<1>3. PICK f : Wrote(p, f) /\ f.type = type
  BY <1>2
<1>4. ~Fragment(f) /\ job[p].op = "none"
  BY <1>3, FitsFacts DEF Fragment, Idle
<1>5. Step
  BY <1>3, <1>4 DEF Step, WroteControl
<1>6. QED
  BY <1>2, <1>5, CountedKept DEF Kept

Elsewhere == UNCHANGED <<port, attempts>>

LEMMA StartRekeyKeeps == ASSUME IInv, NEW p \in Peers, StartRekey(p), Elsewhere PROVE Kept
<1>1. salts \in Nat
  BY SaltsTyped DEF IInv
<1>2. salts' \in Nat /\ salts <= salts' /\ salts + 1 <= salts'
      /\ Fits("rekey", "REKEY", salts + 1)
  BY <1>1 DEF StartRekey, Fits, Salts
<1>3. /\ Ready(p, "rekey") /\ Emit(p, "rekey", "REKEY", salts + 1)
      /\ UNCHANGED <<gen, rx_seq, rcv, ended, interrupts, sent, got, port, attempts>>
  BY DEF StartRekey, Elsewhere
<1>4. QED
  BY <1>2, <1>3, ReadyFacts, ControlKeeps

LEMMA StartPingKeeps == ASSUME IInv, NEW p \in Peers, StartPing(p), Elsewhere PROVE Kept
<1>1. salts \in Nat /\ salts <= salts
  BY SaltsTyped DEF IInv
<1>2. Fits("ping", "PING", 0)
  BY DEF Fits
<1>3. /\ Ready(p, "ping") /\ Emit(p, "ping", "PING", 0) /\ salts' = salts
      /\ UNCHANGED <<gen, rx_seq, rcv, ended, interrupts, sent, got, port, attempts>>
  BY DEF StartPing, Elsewhere
<1>4. QED
  BY <1>1, <1>2, <1>3, ReadyFacts, ControlKeeps

LEMMA StartByeKeeps == ASSUME IInv, NEW p \in Peers, StartBye(p), Elsewhere PROVE Kept
<1>1. salts \in Nat /\ salts <= salts
  BY SaltsTyped DEF IInv
<1>2. Fits("bye", "BYE", 0)
  BY DEF Fits, ControlTypes
<1>3. /\ Ready(p, "bye") /\ Emit(p, "bye", "BYE", 0) /\ salts' = salts
      /\ UNCHANGED <<gen, rx_seq, rcv, ended, interrupts, sent, got, port, attempts>>
  BY DEF StartBye, Elsewhere
<1>4. QED
  BY <1>1, <1>2, <1>3, ReadyFacts, ControlKeeps

LEMMA StartPongKeeps == ASSUME IInv, NEW p \in Peers, StartPong(p), Elsewhere PROVE Kept
<1>1. salts \in Nat /\ salts <= salts
  BY SaltsTyped DEF IInv
<1>2. Fits("pong", "PONG", 0)
  BY DEF Fits, ControlTypes
<1>3. /\ job[p] = Idle /\ rcv[p].pong /\ Emit(p, "pong", "PONG", 0) /\ salts' = salts
      /\ script' = script
      /\ UNCHANGED <<gen, rx_seq, rcv, ended, interrupts, sent, got, port, attempts>>
  BY DEF StartPong, Elsewhere, LockFree
<1>4. ScriptsLess /\ script' \in [Peers -> Seq(Operations)]
  BY <1>3 DEF ScriptsLess, IInv, Typed, Working
<1>5. QED
  BY <1>1, <1>2, <1>3, <1>4, ControlKeeps

LEMMA StartSendKeeps == ASSUME IInv, NEW p \in Peers, StartSend(p), Elsewhere PROVE Kept
<1> DEFINE n == Head(script[p]).frags
           m == Message(p, Len(sent[p]) + 1, Head(script[p]).frags)
<1>1. /\ Ready(p, "send") /\ sent' = [sent EXCEPT ![p] = Append(sent[p], m)]
      /\ Emit(p, "send", FragType(1, n), m[1]) /\ salts' = salts
      /\ UNCHANGED <<gen, rx_seq, rcv, ended, interrupts, got, port, attempts>>
  BY DEF StartSend, Elsewhere
<1>2. /\ script[p] # <<>> /\ Head(script[p]).op = "send" /\ Head(script[p]) \in Operations
       /\ script' \in [Peers -> Seq(Operations)] /\ ScriptsLess /\ job[p] = Idle
       /\ job[p].op = "none"
  BY <1>1, ReadyFacts
<1>3. n \in 1 .. MaxFrags /\ n \in Nat /\ 1 \in 1 .. n
  <2>1. n \in 1 .. MaxFrags
    BY <1>2 DEF Operations
  <2>2. QED
    BY <2>1, TcpSessionAssumption
<1>4. sent \in [Peers -> Seq(Seq(Fragments))] /\ Len(sent[p]) \in Nat /\ Typed
      /\ sent[p] \in Seq(Seq(Fragments)) /\ salts \in Nat /\ salts <= salts
  BY SaltsTyped DEF IInv, Typed, Told
<1>5. m \in Seq(Fragments) /\ m[1] = <<p, Len(sent[p]) + 1, 1>> /\ m[1] \in Fragments
  <2>1. Len(sent[p]) + 1 \in Nat
    BY <1>4
  <2>2. /\ m \in Seq(Fragments) /\ Len(m) = n /\ DOMAIN m = 1 .. n
        /\ \A i \in 1 .. n : m[i] = <<p, Len(sent[p]) + 1, i>>
    BY <1>3, <2>1, MessageFacts
  <2>3. QED
    BY <1>3, <2>1, <2>2, FragmentFacts
<1>6. sent' \in [Peers -> Seq(Seq(Fragments))]
  BY <1>1, <1>4, <1>5
<1>7. Fits("send", FragType(1, n), m[1])
  BY <1>5 DEF Fits, FragType, DataTypes
<1>8. FragType(1, n) # "REKEY" /\ FragType(1, n) # "PING"
  BY DEF FragType
<1> HIDE DEF m
<1>9. Typed' /\ \E f : Wrote(p, f) /\ f.type = FragType(1, n) /\ f.data = m[1]
  <2>1. PICK o, type, data : o = "send" /\ type = FragType(1, n) /\ data = m[1]
    OBVIOUS
  <2>2. /\ Emit(p, o, type, data) /\ Fits(o, type, data) /\ type # "REKEY" /\ type # "PING"
        /\ o # "pong"
    BY <1>1, <1>7, <1>8, <2>1
  <2>3. /\ salts' \in Nat /\ salts <= salts'
        /\ UNCHANGED <<gen, rx_seq, rcv, ended, interrupts, got, port, attempts>>
    BY <1>1, <1>4
  <2>4. Typed' /\ \E f : Wrote(p, f) /\ f.type = type /\ f.data = data
    <3>1. Typed /\ script[p] # <<>> /\ job[p] = Idle
      BY <1>4, <1>2
    <3>2. ScriptsLess /\ script' \in [Peers -> Seq(Operations)]
      BY <1>2
    <3>3. QED
      BY <1>6, <2>2, <2>3, <3>1, <3>2, EmitKeeps
  <2>5. QED
    BY <2>1, <2>4
<1>10. Step
  <2>1. PICK f : Wrote(p, f) /\ f.type = FragType(1, n) /\ f.data = m[1]
    BY <1>9
  <2>2. job[p].op = "none"
    BY <1>1, ReadyFacts
  <2>3. WroteFirst(p, f)
    BY <1>1, <1>3, <1>5, <2>1, <2>2 DEF WroteFirst, m
  <2>4. QED
    BY <2>3 DEF Step
<1>11. Counted'
  <2>1. ASSUME NEW r \in Peers PROVE Len(sent'[r]) + Sends(script'[r]) <= MaxMsgs
    <3>1. /\ Len(sent[r]) + Sends(script[r]) <= MaxMsgs /\ script[r] \in Seq(Operations)
          /\ Len(sent[r]) \in Nat
      BY DEF IInv, Counted, Typed, Working, Told
    <3>2. CASE r = p
      <4>1. script'[p] = Tail(script[p]) /\ script[p] # <<>> /\ Head(script[p]).op = "send"
            /\ Tail(script[p]) \in Seq(Operations)
        BY <1>1, <3>1, <3>2, ReadyFacts
      <4>2. Sends(script'[p]) + 1 <= Sends(script[p]) /\ Sends(script[p]) \in Nat
            /\ Sends(script'[p]) \in Nat
        BY <3>1, <3>2, <4>1, SendsFacts
      <4>3. Len(sent'[p]) = Len(sent[p]) + 1
        BY <1>1, <1>4, <1>5
      <4>4. QED
        BY <3>1, <3>2, <4>2, <4>3, ScriptsAssumption
    <3>3. CASE r # p
      <4>1. script'[r] = script[r] /\ sent'[r] = sent[r]
        BY <1>1, <1>4, <3>3, ReadyFacts
      <4>2. QED
        BY <3>1, <4>1
    <3>4. QED
      BY <3>2, <3>3
  <2>2. QED
    BY <2>1 DEF Counted
<1>12. QED
  BY <1>9, <1>10, <1>11 DEF Kept

LEMMA NextFragmentKeeps == ASSUME IInv, NEW p \in Peers, NextFragment(p), Elsewhere PROVE Kept
<1> DEFINE k == Len(sent[p])
           m == sent[p][Len(sent[p])]
<1>1. Typed /\ Composed(p)
  BY DEF IInv, Lined
<1>2. /\ Running(p) /\ job[p].type = "DATA_FRAG" /\ salts' = salts /\ script' = script
      /\ UNCHANGED <<gen, rx_seq, rcv, ended, interrupts, sent, got, port, attempts>>
  BY DEF NextFragment, Elsewhere
<1>3. job[p].op = "send"
  BY <1>1, <1>2, JobFacts DEF Running, DataTypes
<1>4. PICK i \in 1 .. MaxFrags : /\ k # 0 /\ i <= Len(m)
                                 /\ job[p].data = <<p, k, i>> /\ job[p].type = FragType(i, Len(m))
  BY <1>1, <1>3 DEF Composed
<1>5. k \in DOMAIN sent[p] /\ i \in Nat
  BY <1>1, <1>4, TcpSessionAssumption DEF Typed, Told
<1>6. /\ Len(m) \in Nat /\ DOMAIN m = 1 .. Len(m) /\ m \in Seq(Fragments)
      /\ \A l \in DOMAIN m : m[l] = <<p, k, l>>
  BY <1>1, <1>5, SentFacts
<1>7. i < Len(m) /\ i + 1 \in 1 .. Len(m)
  BY <1>2, <1>4, <1>5, <1>6 DEF FragType
<1>8. m[i + 1] = <<p, k, i + 1>> /\ m[i + 1] \in Fragments
  BY <1>6, <1>7
<1>9. Emit(p, "send", FragType(i + 1, Len(m)), m[i + 1])
  <2>1. job[p].data[2] = k /\ job[p].data[3] = i
    BY <1>4
  <2>2. QED
    BY <2>1 DEF NextFragment
<1>10. Fits("send", FragType(i + 1, Len(m)), m[i + 1])
      /\ FragType(i + 1, Len(m)) # "REKEY" /\ FragType(i + 1, Len(m)) # "PING"
  BY <1>8 DEF Fits, FragType, DataTypes
<1>11. ScriptsLess /\ script' \in [Peers -> Seq(Operations)] /\ salts' \in Nat /\ salts <= salts'
       /\ sent' \in [Peers -> Seq(Seq(Fragments))]
  <2>1. salts \in Nat /\ salts <= salts
    BY <1>1, SaltsTyped
  <2>2. QED
    BY <1>1, <1>2, <2>1 DEF ScriptsLess, Typed, Working, Told
<1> HIDE DEF m, k
<1>12. Typed' /\ \E f : Wrote(p, f) /\ f.type = FragType(i + 1, Len(m)) /\ f.data = m[i + 1]
  <2>1. PICK o, type, data :
               o = "send" /\ type = FragType(i + 1, Len(m)) /\ data = m[i + 1]
    OBVIOUS
  <2>2. /\ Emit(p, o, type, data) /\ Fits(o, type, data) /\ type # "REKEY" /\ type # "PING"
        /\ o # "pong" /\ job[p].op # "none"
    BY <1>3, <1>9, <1>10, <2>1
  <2>3. Typed' /\ \E f : Wrote(p, f) /\ f.type = type /\ f.data = data
    BY <1>1, <1>2, <1>11, <2>2, EmitKeeps
  <2>4. QED
    BY <2>1, <2>3
<1>13. Step
  <2>1. PICK f : Wrote(p, f) /\ f.type = FragType(i + 1, Len(m)) /\ f.data = m[i + 1]
    BY <1>12
  <2>2. job[p].data[3] = i
    BY <1>4
  <2>3. WroteNext(p, f)
    BY <1>2, <1>3, <1>8, <2>1, <2>2 DEF WroteNext, m, k
  <2>4. QED
    BY <2>3 DEF Step
<1>14. QED
  BY <1>2, <1>11, <1>12, <1>13, CountedKept DEF Kept

(* The port and the reads of a call stay as they are. *)
LEMMA OnePortKept ==
    ASSUME Typed, Elsewhere,
           port = "python" \/ /\ job'["B"].op = "pong" => job["B"].op = "pong"
                              /\ rcv'["B"] = rcv["B"]
                              /\ ended'["B"] = "no" => ended["B"] = "no"
    PROVE  OnePort'
  BY DEF Elsewhere, Typed, OnePort

LEMMA QuietTyped ==
    ASSUME Typed, UNCHANGED <<script, gen, tx_seq, rx_seq, wire, interrupts, salts, sent, got>>,
           job' \in [Peers -> Jobs], rcv' \in [Peers -> RcvStates], ended' \in [Peers -> Reasons],
           \A p \in Peers : JobKept(p) /\ (rcv'[p].pong => rcv'[p].asm = <<>>),
           ~interrupts => \A p \in Peers :
              job'[p].op = "none" \/ ~job'[p].paused =>
                job[p].op = "none" \/ ~job[p].paused \/ Len(wire[Other(p)]) <= Cap,
           OnePort'
    PROVE  Typed'
<1>1. Keyed' /\ Told'
  BY DEF Typed, Keyed, Told
<1>2. Carried'
  BY DEF Typed, Carried
<1>3. Working'
  <2>1. \A p \in Peers : job'[p].op = "rekey" => job'[p].data <= salts
    BY DEF Typed, Working, JobKept
  <2>2. QED
    BY <2>1 DEF Typed, Working
<1>4. Paced'
  BY DEF Typed, Paced
<1>5. QED
  BY <1>1, <1>2, <1>3, <1>4 DEF Typed

LEMMA WireSame == ASSUME Typed, UNCHANGED wire PROVE \A p \in Peers : WireLess(p)
<1>1. \A p \in Peers : \A j \in DOMAIN wire[p] : j + 0 = j
  BY WireFacts
<1>2. QED
  BY <1>1 DEF WireLess

LEMMA JobEnds ==
    ASSUME Typed, NEW p \in Peers, job' = [job EXCEPT ![p] = Idle]
    PROVE  /\ job' \in [Peers -> Jobs] /\ job'[p].op = "none"
           /\ \A r \in Peers : JobKept(r) /\ (r # p => job'[r] = job[r])
<1>1. job \in [Peers -> Jobs] /\ Idle \in Jobs /\ Idle.op = "none"
  BY DEF Typed, Working, Jobs, Idle
<1>2. job' \in [Peers -> Jobs] /\ job'[p] = Idle /\ \A r \in Peers : r # p => job'[r] = job[r]
  BY <1>1
<1>3. QED
  BY <1>1, <1>2 DEF JobKept

LEMMA StatesTyped ==
    ASSUME Typed
    PROVE  /\ job \in [Peers -> Jobs] /\ rcv \in [Peers -> RcvStates]
           /\ ended \in [Peers -> Reasons] /\ script \in [Peers -> Seq(Operations)]
           /\ wire \in [Peers -> Seq(Frames)] /\ interrupts \in BOOLEAN
           /\ \A p \in Peers : rcv[p].pong => rcv[p].asm = <<>>
  BY DEF Typed, Working, Carried

LEMMA EndFacts ==
    ASSUME Typed, NEW p \in Peers, NEW why \in Reasons, End(p, why)
    PROVE  /\ ended' \in [Peers -> Reasons] /\ ended'[p] = why
           /\ \A r \in Peers : r # p => ended'[r] = ended[r]
  BY StatesTyped DEF End

LEMMA RcvChanges ==
    ASSUME Typed, NEW p \in Peers, NEW r \in RcvStates, rcv' = [rcv EXCEPT ![p] = r]
    PROVE  /\ rcv' \in [Peers -> RcvStates] /\ rcv'[p] = r
           /\ \A s \in Peers : s # p => rcv'[s] = rcv[s]
  BY StatesTyped

LEMMA SameScripts == UNCHANGED script => ScriptsLess
  BY DEF ScriptsLess

LEMMA CtrlCounted ==
    ASSUME Typed, NEW p \in Peers, NEW fresh \in BOOLEAN, CountCtrl(p, fresh)
    PROVE  /\ rcv' \in [Peers -> RcvStates] /\ ended' \in [Peers -> Reasons]
           /\ rcv'[p].asm = rcv[p].asm /\ ~rcv'[p].pong
           /\ ended'[p] \in {ended[p], "flood"}
           /\ \A r \in Peers : r # p => rcv'[r] = rcv[r] /\ ended'[r] = ended[r]
<1>1. PICK c : c = IF fresh THEN 1 ELSE rcv[p].ctrl + 1
  OBVIOUS
<1>2. c \in Nat /\ rcv \in [Peers -> RcvStates] /\ rcv[p] \in RcvStates
      /\ ended \in [Peers -> Reasons] /\ "flood" \in Reasons
  BY <1>1, RcvFacts, StatesTyped DEF Reasons
<1>3. PICK s : s = [rcv[p] EXCEPT !.ctrl = c]
  OBVIOUS
<1>4. s \in RcvStates /\ s.asm = rcv[p].asm
  BY <1>2, <1>3, RcvFacts DEF RcvStates
<1>5. PICK r : r = [s EXCEPT !.pong = FALSE]
  OBVIOUS
<1>6. r \in RcvStates /\ r.asm = rcv[p].asm /\ ~r.pong
  BY <1>4, <1>5 DEF RcvStates
<1>7. rcv' = [rcv EXCEPT ![p] = r]
  <2>1. rcv' = [rcv EXCEPT ![p].ctrl = c, ![p].pong = FALSE]
    BY <1>1 DEF CountCtrl
  <2>2. rcv' = [rcv EXCEPT ![p] = [[rcv[p] EXCEPT !.ctrl = c] EXCEPT !.pong = FALSE]]
    BY <1>2, <2>1
  <2>3. QED
    BY <1>3, <1>5, <2>2
<1>8. rcv' \in [Peers -> RcvStates] /\ rcv'[p] = r
      /\ \A q \in Peers : q # p => rcv'[q] = rcv[q]
  BY <1>6, <1>7, RcvChanges
<1>9. /\ ended' \in [Peers -> Reasons] /\ ended'[p] \in {ended[p], "flood"}
      /\ \A q \in Peers : q # p => ended'[q] = ended[q]
  <2>1. ended' = ended \/ End(p, "flood")
    BY DEF CountCtrl
  <2>2. CASE ended' = ended
    BY <1>2, <2>2
  <2>3. CASE End(p, "flood")
    BY <1>2, <2>3, EndFacts
  <2>4. QED
    BY <2>1, <2>2, <2>3
<1>10. QED
  BY <1>6, <1>8, <1>9

(* A step that neither writes nor takes. *)
LEMMA RestKeeps ==
    ASSUME IInv, UNCHANGED <<script, gen, tx_seq, rx_seq, wire, interrupts, salts, sent, got>>,
           job' \in [Peers -> Jobs], rcv' \in [Peers -> RcvStates], ended' \in [Peers -> Reasons],
           \A p \in Peers :
              /\ JobKept(p) /\ rcv'[p].asm = rcv[p].asm /\ (rcv'[p].pong => rcv[p].pong)
              /\ job'[p].op = "none" /\ job[p].op # "none" =>
                   job[p].type # "DATA_FRAG" /\ job[p].op # "rekey"
              /\ ended'[p] = ended[p] \/ (ended[p] = "no" /\ ended'[p] # "broken"),
           ~interrupts => \A p \in Peers :
              job'[p].op = "none" \/ ~job'[p].paused =>
                job[p].op = "none" \/ ~job[p].paused \/ Len(wire[Other(p)]) <= Cap,
           OnePort'
    PROVE  Kept
<1>1. Typed
  BY DEF IInv
<1>2. \A p \in Peers : rcv'[p].pong => rcv'[p].asm = <<>>
  BY <1>1, StatesTyped
<1>3. Typed'
  BY <1>1, <1>2, QuietTyped
<1>4. Rested
  BY DEF Rested
<1>5. QED
  BY <1>3, <1>4, CountedKept, SameScripts DEF Kept, Step

Python(p) == p # "B" \/ port = "python"

LEMMA ResumeKeeps == ASSUME IInv, NEW p \in Peers, Resume(p), Elsewhere PROVE Kept
<1>1. Typed /\ job \in [Peers -> Jobs] /\ rcv \in [Peers -> RcvStates]
      /\ ended \in [Peers -> Reasons]
  BY StatesTyped DEF IInv
<1>2. /\ job[p] # Idle /\ Len(wire[Other(p)]) <= Cap
      /\ job' = [job EXCEPT ![p].paused = FALSE]
      /\ UNCHANGED <<script, gen, tx_seq, rx_seq, wire, rcv, ended, interrupts, salts, sent, got>>
  BY DEF Resume
<1>3. PICK j : j = [job[p] EXCEPT !.paused = FALSE]
  OBVIOUS
<1>4. job[p] \in Jobs
  BY <1>1
<1>5. j \in Jobs /\ j.op = job[p].op /\ j.type = job[p].type /\ j.data = job[p].data
      /\ j.op # "none"
  BY <1>2, <1>3, <1>4 DEF Jobs
<1>6. job' = [job EXCEPT ![p] = j]
  BY <1>1, <1>2, <1>3
<1>7. job' \in [Peers -> Jobs] /\ job'[p] = j /\ \A r \in Peers : r # p => job'[r] = job[r]
  BY <1>1, <1>5, <1>6
<1>8. \A r \in Peers : JobKept(r) /\ (job'[r].op = "none" => job[r].op = "none")
  BY <1>5, <1>7 DEF JobKept
<1>9. OnePort'
  <2>1. job'["B"].op = job["B"].op
    BY <1>5, <1>7, OtherFacts
  <2>2. QED
    BY <1>1, <1>2, <2>1, OnePortKept
<1>10. \A r \in Peers : job'[r].op = "none" \/ ~job'[r].paused =>
         job[r].op = "none" \/ ~job[r].paused \/ Len(wire[Other(r)]) <= Cap
  BY <1>2, <1>7, <1>8
<1>11. \A r \in Peers :
          /\ JobKept(r) /\ rcv'[r].asm = rcv[r].asm /\ (rcv'[r].pong => rcv[r].pong)
          /\ job'[r].op = "none" /\ job[r].op # "none" =>
               job[r].type # "DATA_FRAG" /\ job[r].op # "rekey"
          /\ ended'[r] = ended[r] \/ (ended[r] = "no" /\ ended'[r] # "broken")
  BY <1>2, <1>8
<1>12. QED
  BY <1>1, <1>2, <1>7, <1>9, <1>10, <1>11, RestKeeps

LEMMA DisconnectedKeeps == ASSUME IInv, NEW p \in Peers, Disconnected(p), Elsewhere PROVE Kept
<1>1. Typed /\ job \in [Peers -> Jobs] /\ rcv \in [Peers -> RcvStates]
  BY StatesTyped DEF IInv
<1>2. PICK why : why = IF job[p].op = "bye" THEN "bye" ELSE "eof"
  OBVIOUS
<1>3. /\ ended[p] = "no" /\ End(p, why) /\ why \in Reasons \ {"no", "broken"}
      /\ UNCHANGED <<script, gen, tx_seq, rx_seq, wire, job, rcv, interrupts, salts, sent, got>>
  BY <1>2 DEF Disconnected, Reasons
<1>4. /\ ended' \in [Peers -> Reasons] /\ ended'[p] = why
      /\ \A r \in Peers : r # p => ended'[r] = ended[r]
  BY <1>1, <1>3, EndFacts
<1>5. OnePort'
  <2>1. ended'["B"] = "no" => ended["B"] = "no"
    BY <1>3, <1>4, OtherFacts
  <2>2. QED
    BY <1>1, <1>3, <2>1, OnePortKept
<1>6. \A r \in Peers :
          /\ JobKept(r) /\ rcv'[r].asm = rcv[r].asm /\ (rcv'[r].pong => rcv[r].pong)
          /\ job'[r].op = "none" /\ job[r].op # "none" =>
               job[r].type # "DATA_FRAG" /\ job[r].op # "rekey"
          /\ ended'[r] = ended[r] \/ (ended[r] = "no" /\ ended'[r] # "broken")
          /\ job'[r].op = "none" \/ ~job'[r].paused => job[r].op = "none" \/ ~job[r].paused
  BY <1>3, <1>4 DEF JobKept
<1>7. QED
  BY <1>1, <1>3, <1>4, <1>5, <1>6, RestKeeps

LEMMA RecvEofKeeps == ASSUME IInv, NEW q \in Peers, RecvEof(q), Elsewhere PROVE Kept
<1>1. Typed /\ job \in [Peers -> Jobs] /\ rcv \in [Peers -> RcvStates]
  BY StatesTyped DEF IInv
<1>2. /\ ended[q] = "no" /\ End(q, "eof") /\ "eof" \in Reasons
      /\ UNCHANGED <<script, gen, tx_seq, rx_seq, wire, job, rcv, interrupts, salts, sent, got>>
  BY DEF RecvEof, Free, Reasons
<1>3. /\ ended' \in [Peers -> Reasons] /\ ended'[q] = "eof"
      /\ \A r \in Peers : r # q => ended'[r] = ended[r]
  BY <1>1, <1>2, EndFacts
<1>4. OnePort'
  <2>1. ended'["B"] = "no" => ended["B"] = "no"
    BY <1>2, <1>3, OtherFacts
  <2>2. QED
    BY <1>1, <1>2, <2>1, OnePortKept
<1>5. \A r \in Peers :
          /\ JobKept(r) /\ rcv'[r].asm = rcv[r].asm /\ (rcv'[r].pong => rcv[r].pong)
          /\ job'[r].op = "none" /\ job[r].op # "none" =>
               job[r].type # "DATA_FRAG" /\ job[r].op # "rekey"
          /\ ended'[r] = ended[r] \/ (ended[r] = "no" /\ ended'[r] # "broken")
          /\ job'[r].op = "none" \/ ~job'[r].paused => job[r].op = "none" \/ ~job[r].paused
  BY <1>2, <1>3 DEF JobKept
<1>6. QED
  BY <1>1, <1>2, <1>3, <1>4, <1>5, RestKeeps

(* The end of an operation that does not rotate the keys. *)
LEMMA EndingKeeps ==
    ASSUME IInv, NEW p \in Peers, ended[p] = "no", Running(p),
           job[p].type # "DATA_FRAG", job[p].op # "rekey",
           job' = [job EXCEPT ![p] = Idle],
           rcv' \in [Peers -> RcvStates], ended' \in [Peers -> Reasons],
           \A r \in Peers : /\ rcv'[r].asm = rcv[r].asm /\ (rcv'[r].pong => rcv[r].pong)
                            /\ ended'[r] = ended[r] \/ (r = p /\ ended'[r] # "broken"),
           UNCHANGED <<script, gen, tx_seq, rx_seq, wire, interrupts, salts, sent, got>>,
           OnePort'
    PROVE  Kept
<1>1. Typed
  BY DEF IInv
<1>2. job' \in [Peers -> Jobs] /\ \A r \in Peers : JobKept(r) /\ (r # p => job'[r] = job[r])
  BY <1>1, JobEnds
<1>3. ~job[p].paused
  BY DEF Running
<1>4. \A r \in Peers :
          /\ JobKept(r) /\ rcv'[r].asm = rcv[r].asm /\ (rcv'[r].pong => rcv[r].pong)
          /\ job'[r].op = "none" /\ job[r].op # "none" =>
               job[r].type # "DATA_FRAG" /\ job[r].op # "rekey"
          /\ ended'[r] = ended[r] \/ (ended[r] = "no" /\ ended'[r] # "broken")
          /\ job'[r].op = "none" \/ ~job'[r].paused => job[r].op = "none" \/ ~job[r].paused
  BY <1>2, <1>3
<1>5. QED
  BY <1>2, <1>4, RestKeeps

LEMMA RotatedKeys ==
    ASSUME Typed, NEW p \in Peers, NEW k \in Salts, k <= salts, Rotate(p, k), UNCHANGED salts
    PROVE  Keyed'
<1>1. /\ gen' = [gen EXCEPT ![p] = Append(gen[p], k)]
      /\ tx_seq' = [tx_seq EXCEPT ![p] = 0] /\ rx_seq' = [rx_seq EXCEPT ![p] = 0]
      /\ gen[p] \in Seq(Salts)
  BY DEF Rotate, Typed, Keyed
<1>2. /\ Append(gen[p], k) \in Seq(Salts)
      /\ \A i \in DOMAIN Append(gen[p], k) :
           \/ Append(gen[p], k)[i] = k
           \/ i \in DOMAIN gen[p] /\ Append(gen[p], k)[i] = gen[p][i]
  BY <1>1
<1>3. \A r \in Peers : gen'[r] = IF r = p THEN Append(gen[p], k) ELSE gen[r]
  BY <1>1 DEF Typed, Keyed
<1>4. \A r \in Peers : \A i \in DOMAIN gen'[r] : gen'[r][i] <= salts'
  BY <1>2, <1>3 DEF Typed, Keyed
<1>5. gen' \in [Peers -> Seq(Salts)] /\ tx_seq' \in [Peers -> Nat] /\ rx_seq' \in [Peers -> Nat]
  BY <1>1, <1>2 DEF Typed, Keyed
<1>6. QED
  BY <1>4, <1>5 DEF Typed, Keyed

LEMMA FinishRekeyKeeps ==
    ASSUME IInv, NEW p \in Peers, Finish(p), job[p].op = "rekey", Elsewhere
    PROVE  Kept
<1>1. Typed
  BY DEF IInv
<1>2. /\ ended[p] = "no" /\ Running(p) /\ job' = [job EXCEPT ![p] = Idle]
      /\ Rotate(p, job[p].data)
      /\ UNCHANGED <<script, wire, rcv, ended, interrupts, salts, sent, got>>
  BY DEF Finish
<1>3. job[p].data \in Salts /\ job[p].data <= salts
  BY <1>1, JobFacts
<1>4. Keyed'
  BY <1>1, <1>2, <1>3, RotatedKeys
<1>5. /\ job' \in [Peers -> Jobs] /\ job'[p].op = "none"
      /\ \A r \in Peers : JobKept(r) /\ (r # p => job'[r] = job[r])
  BY <1>1, <1>2, JobEnds
<1>6. Carried' /\ Told'
  BY <1>1, <1>2 DEF Typed, Carried, Told
<1>7. Working'
  <2>1. \A r \in Peers : job'[r].op = "rekey" => job'[r].data <= salts
    BY <1>1, <1>5 DEF Typed, Working, JobKept
  <2>2. QED
    BY <1>1, <1>2, <1>5, <2>1 DEF Typed, Working
<1>8. Paced'
  <2>1. ~job[p].paused
    BY <1>2 DEF Running
  <2>2. QED
    BY <1>1, <1>2, <1>5, <2>1 DEF Typed, Paced
<1>9. OnePort'
  <2>1. job'["B"].op = "pong" => job["B"].op = "pong"
    BY <1>5, OtherFacts DEF JobKept
  <2>2. QED
    BY <1>1, <1>2, <2>1, OnePortKept
<1>10. Step
  BY <1>2 DEF Step, Turned
<1>11. Counted'
  BY <1>2, CountedKept, SameScripts
<1>12. QED
  BY <1>4, <1>6, <1>7, <1>8, <1>9, <1>10, <1>11 DEF Kept, Typed

LEMMA FinishKeeps ==
    ASSUME IInv, NEW p \in Peers, Finish(p), Elsewhere, job[p].op = "pong" => Python(p)
    PROVE  Kept
<1>1. Typed /\ job \in [Peers -> Jobs] /\ rcv \in [Peers -> RcvStates]
      /\ ended \in [Peers -> Reasons]
  BY StatesTyped DEF IInv
<1>2. /\ ended[p] = "no" /\ Running(p) /\ job[p].type # "DATA_FRAG"
      /\ job' = [job EXCEPT ![p] = Idle]
      /\ UNCHANGED <<script, wire, interrupts, salts, sent, got>>
  BY DEF Finish
<1>3. \A r \in Peers : JobKept(r) /\ (r # p => job'[r] = job[r])
  BY <1>1, <1>2, JobEnds
<1>4. job'["B"].op = "pong" => job["B"].op = "pong"
  BY <1>3, OtherFacts DEF JobKept
<1>5. CASE job[p].op = "rekey"
  BY <1>5, FinishRekeyKeeps
<1>6. CASE job[p].op \in {"send", "ping"}
  <2>1. UNCHANGED <<gen, tx_seq, rx_seq, rcv, ended>>
    BY <1>6 DEF Finish
  <2>2. OnePort'
    BY <1>1, <1>4, <2>1, OnePortKept
  <2>3. job[p].op # "rekey"
    BY <1>6
  <2>4. \A r \in Peers : /\ rcv'[r].asm = rcv[r].asm /\ (rcv'[r].pong => rcv[r].pong)
                         /\ ended'[r] = ended[r] \/ (r = p /\ ended'[r] # "broken")
    BY <2>1
  <2>5. QED
    BY <1>1, <1>2, <2>1, <2>2, <2>3, <2>4, EndingKeeps
<1>7. CASE job[p].op = "bye"
  <2>1. UNCHANGED <<gen, tx_seq, rx_seq, rcv>> /\ End(p, "bye") /\ "bye" \in Reasons
    BY <1>7 DEF Finish, Reasons
  <2>2. /\ ended' \in [Peers -> Reasons] /\ ended'[p] = "bye"
        /\ \A r \in Peers : r # p => ended'[r] = ended[r]
    BY <1>1, <2>1, EndFacts
  <2>3. OnePort'
    <3>1. ended'["B"] = "no" => ended["B"] = "no"
      BY <2>2, OtherFacts
    <3>2. QED
      BY <1>1, <1>4, <2>1, <3>1, OnePortKept
  <2>4. \A r \in Peers : /\ rcv'[r].asm = rcv[r].asm /\ (rcv'[r].pong => rcv[r].pong)
                         /\ ended'[r] = ended[r] \/ (r = p /\ ended'[r] # "broken")
    BY <2>1, <2>2
  <2>5. job[p].op # "rekey"
    BY <1>7
  <2>6. QED
    BY <1>1, <1>2, <2>1, <2>2, <2>3, <2>4, <2>5, EndingKeeps
<1>8. CASE job[p].op = "pong"
  <2>1. UNCHANGED <<gen, tx_seq, rx_seq>> /\ \E fresh \in BOOLEAN : CountCtrl(p, fresh)
    BY <1>8 DEF Finish
  <2>2. /\ rcv' \in [Peers -> RcvStates] /\ ended' \in [Peers -> Reasons]
        /\ rcv'[p].asm = rcv[p].asm /\ ~rcv'[p].pong
        /\ ended'[p] \in {ended[p], "flood"}
        /\ \A r \in Peers : r # p => rcv'[r] = rcv[r] /\ ended'[r] = ended[r]
    BY <1>1, <2>1, CtrlCounted
  <2>3. OnePort'
    <3>1. CASE port = "python"
      BY <1>1, <3>1, OnePortKept
    <3>2. CASE p # "B"
      <4>1. rcv'["B"] = rcv["B"] /\ ended'["B"] = ended["B"]
        BY <2>2, <3>2, OtherFacts
      <4>2. QED
        BY <1>1, <1>4, <4>1, OnePortKept
    <3>3. QED
      BY <1>8, <3>1, <3>2 DEF Python
  <2>4. \A r \in Peers : /\ rcv'[r].asm = rcv[r].asm /\ (rcv'[r].pong => rcv[r].pong)
                         /\ ended'[r] = ended[r] \/ (r = p /\ ended'[r] # "broken")
    BY <1>2, <2>2
  <2>5. job[p].op # "rekey"
    BY <1>8
  <2>6. QED
    BY <1>2, <2>1, <2>2, <2>3, <2>4, <2>5, EndingKeeps
<1>9. QED
  BY <1>5, <1>6, <1>7, <1>8 DEF Finish

LEMMA InterruptedKeeps ==
    ASSUME IInv, interrupts, UNCHANGED <<script, gen, tx_seq, rx_seq, interrupts, salts, sent, got>>,
           Carried', job' \in [Peers -> Jobs], rcv' \in [Peers -> RcvStates],
           ended' \in [Peers -> Reasons],
           \A p \in Peers : /\ JobKept(p) /\ WireLess(p) /\ rcv'[p].asm \in {rcv[p].asm, <<>>}
                            /\ rcv'[p].pong => rcv[p].pong,
           OnePort'
    PROVE  Kept
<1>1. Typed
  BY DEF IInv
<1>2. Keyed' /\ Told' /\ Paced'
  BY <1>1 DEF Typed, Keyed, Told, Paced
<1>3. Working'
  <2>1. \A p \in Peers : job'[p].op = "rekey" => job'[p].data <= salts
    BY <1>1 DEF Typed, Working, JobKept
  <2>2. \A p \in Peers : rcv'[p].pong => rcv'[p].asm = <<>>
    BY <1>1, StatesTyped
  <2>3. QED
    BY <1>1, <2>1, <2>2 DEF Typed, Working
<1>4. Interrupted
  BY DEF Interrupted
<1>5. QED
  BY <1>2, <1>3, <1>4, CountedKept, SameScripts DEF Kept, Typed, Step

LEMMA CancelKeeps ==
    ASSUME IInv, NEW p \in Peers, Cancel(p), Elsewhere
    PROVE  Kept
<1>1. Typed /\ rcv \in [Peers -> RcvStates] /\ ended \in [Peers -> Reasons]
  BY StatesTyped DEF IInv
<1>2. /\ interrupts /\ ended[p] = "no" /\ job' = [job EXCEPT ![p] = Idle]
      /\ ended' = ended \/ (End(p, "bye") /\ "bye" \in Reasons)
      /\ UNCHANGED <<script, gen, tx_seq, rx_seq, wire, rcv, interrupts, salts, sent, got>>
  BY DEF Cancel, Reasons
<1>3. job' \in [Peers -> Jobs] /\ \A r \in Peers : JobKept(r)
  BY <1>1, <1>2, JobEnds
<1>4. ended' \in [Peers -> Reasons] /\ \A r \in Peers : ended'[r] = "no" => ended[r] = "no"
  BY <1>1, <1>2, EndFacts
<1>5. OnePort'
  <2>1. job'["B"].op = "pong" => job["B"].op = "pong"
    BY <1>3, OtherFacts DEF JobKept
  <2>2. QED
    BY <1>1, <1>2, <1>4, <2>1, OtherFacts, OnePortKept
<1>6. Carried' /\ \A r \in Peers : WireLess(r)
  BY <1>1, <1>2, WireSame DEF Typed, Carried
<1>7. QED
  BY <1>1, <1>2, <1>3, <1>4, <1>5, <1>6, InterruptedKeeps

LEMMA TornKeeps ==
    ASSUME Typed, NEW q \in Peers, wire[q] # <<>>, wire' = [wire EXCEPT ![q][1] = Torn],
           UNCHANGED salts
    PROVE  Carried' /\ \A p \in Peers : WireLess(p)
<1>1. PICK w : w = [wire[q] EXCEPT ![1] = Torn]
  OBVIOUS
<1>2. /\ wire \in [Peers -> Seq(Frames)] /\ wire[q] \in Seq(Frames) /\ Torn \in Frames
      /\ Torn.type = "torn"
  BY StatesTyped DEF Frames, Torn
<1>3. /\ w \in Seq(Frames) /\ DOMAIN w = DOMAIN wire[q]
      /\ \A j \in DOMAIN w : w[j] = Torn \/ w[j] = wire[q][j]
  BY <1>1, <1>2
<1>4. wire' = [wire EXCEPT ![q] = w]
  BY <1>1, <1>2
<1>5. /\ wire' \in [Peers -> Seq(Frames)] /\ wire'[q] = w
      /\ \A p \in Peers : p # q => wire'[p] = wire[p]
  BY <1>2, <1>3, <1>4
<1>6. Carried'
  BY <1>2, <1>3, <1>5 DEF Typed, Carried
<1>7. ASSUME NEW p \in Peers PROVE WireLess(p)
  <2>1. \A j \in DOMAIN wire[p] : j + 0 = j
    BY WireFacts
  <2>2. ~Fragment(Torn)
    BY <1>2 DEF Fragment, DataTypes
  <2>3. \A j \in DOMAIN wire'[p] : j \in DOMAIN wire[p] /\ (Fragment(wire'[p][j]) => wire'[p][j] = wire[p][j])
    BY <1>3, <1>5, <2>2
  <2>4. QED
    BY <2>1, <2>3 DEF WireLess
<1>8. QED
  BY <1>6, <1>7

LEMMA RecvTimeoutKeeps ==
    ASSUME IInv, NEW q \in Peers, RecvTimeout(q), Elsewhere, Python(q)
    PROVE  Kept
<1>1. Typed /\ job \in [Peers -> Jobs] /\ rcv \in [Peers -> RcvStates]
      /\ ended \in [Peers -> Reasons]
  BY StatesTyped DEF IInv
<1>2. /\ interrupts /\ rcv' = [rcv EXCEPT ![q] = Reading]
      /\ job' = job \/ job' = [job EXCEPT ![q] = Idle]
      /\ wire' = wire \/ (wire[q] # <<>> /\ wire' = [wire EXCEPT ![q][1] = Torn])
      /\ UNCHANGED <<script, gen, tx_seq, rx_seq, ended, interrupts, salts, sent, got>>
  BY DEF RecvTimeout
<1>3. /\ job' \in [Peers -> Jobs]
      /\ \A r \in Peers : JobKept(r)
      /\ \A t \in Peers : t # q => job'[t] = job[t]
  <2>1. CASE job' = job
    BY <1>1, <2>1 DEF JobKept
  <2>2. QED
    BY <1>1, <1>2, <2>1, JobEnds
<1>4. /\ rcv' \in [Peers -> RcvStates] /\ rcv'[q].asm = <<>> /\ ~rcv'[q].pong
      /\ \A r \in Peers : r # q => rcv'[r] = rcv[r]
  BY <1>1, <1>2, RcvChanges, ReadingTyped
<1>5. OnePort'
  <2>1. CASE port = "python"
    BY <1>1, <2>1, OnePortKept
  <2>2. CASE q # "B"
    <3>1. rcv'["B"] = rcv["B"] /\ job'["B"] = job["B"]
      BY <1>3, <1>4, <2>2, OtherFacts
    <3>2. QED
      BY <1>1, <1>2, <3>1, OnePortKept
  <2>3. QED
    BY <2>1, <2>2 DEF Python
<1>6. Carried' /\ \A r \in Peers : WireLess(r)
  <2>1. CASE wire' = wire
    BY <1>1, <1>2, <2>1, WireSame DEF Typed, Carried
  <2>2. QED
    BY <1>1, <1>2, <2>1, TornKeeps
<1>7. \A r \in Peers : rcv'[r].asm \in {rcv[r].asm, <<>>} /\ (rcv'[r].pong => rcv[r].pong)
  BY <1>4
<1>8. QED
  BY <1>1, <1>2, <1>3, <1>4, <1>5, <1>6, <1>7, InterruptedKeeps

-----------------------------------------------------------------------------
(* The receivers                                                             *)

LEMMA TailTyped ==
    ASSUME Typed, NEW q \in Peers, wire[q] # <<>>, wire' = [wire EXCEPT ![q] = Tail(wire[q])],
           UNCHANGED <<job, interrupts, salts>>
    PROVE  Carried' /\ Paced'
<1>1. /\ wire \in [Peers -> Seq(Frames)] /\ Tail(wire[q]) \in Seq(Frames)
      /\ Len(Tail(wire[q])) = Len(wire[q]) - 1 /\ Len(wire[q]) \in Nat
      /\ \A j \in DOMAIN Tail(wire[q]) :
           j + 1 \in DOMAIN wire[q] /\ Tail(wire[q])[j] = wire[q][j + 1]
  BY StatesTyped, WireFacts
<1>2. /\ wire' \in [Peers -> Seq(Frames)] /\ wire'[q] = Tail(wire[q])
      /\ \A p \in Peers : p # q => wire'[p] = wire[p]
  BY <1>1
<1>3. ASSUME NEW p \in Peers, NEW j \in DOMAIN wire'[p], wire'[p][j].type = "REKEY"
      PROVE  wire'[p][j].data <= salts'
  <2>1. CASE p = q
    <3>1. j + 1 \in DOMAIN wire[q] /\ wire'[p][j] = wire[q][j + 1]
      BY <1>1, <1>2, <1>3, <2>1
    <3>2. QED
      BY <1>3, <3>1, WireFacts
  <2>2. CASE p # q
    <3>1. j \in DOMAIN wire[p] /\ wire'[p][j] = wire[p][j]
      BY <1>2, <1>3, <2>2
    <3>2. QED
      BY <1>3, <3>1, WireFacts
  <2>3. QED
    BY <2>1, <2>2
<1>4. Carried'
  BY <1>2, <1>3 DEF Carried
<1>5. ASSUME ~interrupts, NEW p \in Peers
      PROVE  /\ Len(wire'[Other(p)]) <= Cap + 1
             /\ job'[p].op = "none" \/ ~job'[p].paused => Len(wire'[Other(p)]) <= Cap
  <2>1. PICK r : r = Other(p) /\ r \in Peers
    BY OtherFacts
  <2>2. PICK c : c = Cap /\ c \in Nat
    BY TcpSessionAssumption
  <2>3. /\ Len(wire[r]) <= c + 1 /\ Len(wire[r]) \in Nat
        /\ job[p].op = "none" \/ ~job[p].paused => Len(wire[r]) <= c
    BY <1>5, <2>1, <2>2, WireFacts DEF Typed, Paced
  <2>4. Len(wire'[r]) = Len(wire[r]) \/ Len(wire'[r]) = Len(wire[r]) - 1
    BY <1>1, <1>2, <2>1
  <2>5. Len(wire'[r]) <= Len(wire[r]) /\ Len(wire'[r]) \in Int
    BY <2>3, <2>4
  <2>6. Len(wire'[r]) <= c + 1 /\ (Len(wire[r]) <= c => Len(wire'[r]) <= c)
    BY <2>2, <2>3, <2>5
  <2>7. QED
    BY <2>1, <2>2, <2>3, <2>6
<1>6. Paced'
  BY <1>5 DEF Paced
<1>7. QED
  BY <1>4, <1>6

(* What all that take a frame do. *)
Takes(q) ==
    /\ ended[q] = "no" /\ wire[q] # <<>> /\ Opens(q, Head(wire[q]))
    /\ wire' = [wire EXCEPT ![q] = Tail(wire[q])]
    /\ IF Head(wire[q]).type = "REKEY" THEN Rotate(q, Head(wire[q]).data)
       ELSE Count(q) /\ UNCHANGED <<gen, tx_seq>>
    /\ UNCHANGED <<script, job, interrupts, salts, sent>>

LEMMA TakesTyped ==
    ASSUME Typed, NEW q \in Peers, Takes(q),
           rcv' \in [Peers -> RcvStates], ended' \in [Peers -> Reasons],
           got' \in [Peers -> Seq(Seq(Fragments))],
           \A p \in Peers : rcv'[p].pong => rcv'[p].asm = <<>>, OnePort'
    PROVE  Typed'
<1>1. Carried' /\ Paced'
  BY TailTyped DEF Takes
<1>2. Keyed'
  <2>1. CASE Head(wire[q]).type = "REKEY"
    <3>1. PICK k : k = Head(wire[q]).data
      OBVIOUS
    <3>2. k \in Salts /\ k <= salts
      <4>1. 1 \in DOMAIN wire[q] /\ Head(wire[q]) = wire[q][1]
        BY WireFacts DEF Takes
      <4>2. QED
        BY <2>1, <3>1, <4>1, WireFacts
    <3>3. Rotate(q, k) /\ UNCHANGED salts
      BY <2>1, <3>1 DEF Takes
    <3>4. QED
      BY <3>2, <3>3, RotatedKeys
  <2>2. CASE Head(wire[q]).type # "REKEY"
    <3>1. rx_seq' = [rx_seq EXCEPT ![q] = rx_seq[q] + 1] /\ UNCHANGED <<gen, tx_seq, salts>>
      BY <2>2 DEF Takes, Count
    <3>2. rx_seq' \in [Peers -> Nat]
      BY <3>1 DEF Typed, Keyed
    <3>3. QED
      BY <3>1, <3>2 DEF Typed, Keyed
  <2>3. QED
    BY <2>1, <2>2
<1>3. Working'
  BY StatesTyped DEF Typed, Working, Takes
<1>4. Told'
  BY DEF Typed, Told, Takes
<1>5. QED
  BY <1>1, <1>2, <1>3, <1>4 DEF Typed

(* The two other peers keep what they had. *)
Apart(q) == rcv'[Other(q)] = rcv[Other(q)] /\ ended'[Other(q)] = ended[Other(q)]

LEMMA PythonOnePort ==
    ASSUME Typed, NEW q \in Peers, Python(q), Elsewhere, UNCHANGED job, Apart(q)
    PROVE  OnePort'
<1>1. CASE port = "python"
  BY <1>1, OnePortKept
<1>2. CASE q # "B"
  <2>1. Other(q) = "B"
    BY <1>2, OtherFacts DEF Peers
  <2>2. rcv'["B"] = rcv["B"] /\ ended'["B"] = ended["B"]
    BY <2>1 DEF Apart
  <2>3. QED
    BY <2>2, OnePortKept
<1>3. QED
  BY <1>1, <1>2 DEF Python

LEMMA TakesControlKeeps ==
    ASSUME IInv, NEW q \in Peers, Takes(q), Head(wire[q]).type \notin DataTypes,
           rcv' \in [Peers -> RcvStates], ended' \in [Peers -> Reasons], Apart(q),
           rcv'[q].asm = rcv[q].asm, rcv'[q].pong => rcv'[q].asm = <<>>,
           rcv'[q].pong => rcv[q].pong \/ Head(wire[q]).type = "PING",
           ended'[q] # "broken", UNCHANGED got, OnePort'
    PROVE  Kept
<1>1. Typed
  BY DEF IInv
<1>2. PICK r : r = Other(q) /\ r \in Peers /\ \A p \in Peers : p = q \/ p = r
  BY OtherFacts
<1>3. \A p \in Peers : rcv'[p].pong => rcv'[p].asm = <<>>
  BY <1>1, <1>2, StatesTyped DEF Apart
<1>4. Typed'
  BY <1>1, <1>3, TakesTyped DEF Typed, Told
<1>5. TookControl(q)
  BY DEF TookControl, Took, Takes, Apart, Fragment
<1>6. Step
  BY <1>5 DEF Step
<1>7. QED
  BY <1>4, <1>6, CountedKept, SameScripts DEF Kept, Takes

LEMMA TakesFragmentKeeps ==
    ASSUME IInv, NEW q \in Peers, Takes(q), Head(wire[q]).type = "DATA_FRAG",
           Len(rcv[q].asm) + 1 < MaxFrags,
           NEW r, r = [rcv[q] EXCEPT !.asm = Append(rcv[q].asm, Head(wire[q]).data)],
           ~rcv[q].pong, rcv' = [rcv EXCEPT ![q] = r],
           r \in RcvStates /\ r.asm = Append(rcv[q].asm, Head(wire[q]).data) /\ ~r.pong => OnePort',
           UNCHANGED <<ended, got>>
    PROVE  Kept
<1>1. Typed
  BY DEF IInv
<1>2. /\ rcv[q] \in RcvStates /\ rcv[q].asm \in Seq(Fragments)
      /\ rcv[q].ctrl \in Nat /\ rcv[q].pong = FALSE
  BY <1>1, RcvFacts
<1>3. PICK d : d = Head(wire[q]).data
  OBVIOUS
<1>4. d \in Fragments
  <2>1. Head(wire[q]) \in Frames
    BY <1>1, WireFacts DEF Takes
  <2>2. QED
    BY <1>3, <2>1, FrameFacts DEF DataTypes
<1>5. PICK a : a = Append(rcv[q].asm, d)
  OBVIOUS
<1>6. a \in Assemblies
  <2>1. a \in Seq(Fragments) /\ Len(a) = Len(rcv[q].asm) + 1
    BY <1>2, <1>4, <1>5
  <2>2. QED
    BY <2>1 DEF Assemblies
<1>7. r \in RcvStates /\ r.asm = a /\ ~r.pong
  BY <1>2, <1>3, <1>5, <1>6 DEF RcvStates
<1>8. OnePort'
  BY <1>3, <1>5, <1>7
<1>9. /\ rcv' \in [Peers -> RcvStates] /\ rcv'[q] = r
      /\ \A s \in Peers : s # q => rcv'[s] = rcv[s]
  BY <1>1, <1>7, RcvChanges
<1>10. \A p \in Peers : rcv'[p].pong => rcv'[p].asm = <<>>
  BY <1>1, <1>7, <1>9, StatesTyped
<1>11. Typed'
  BY <1>1, <1>8, <1>9, <1>10, TakesTyped, StatesTyped DEF Typed, Told
<1>12. TookFragment(q)
  <2>1. ended'[q] # "broken"
    BY DEF Takes
  <2>2. rcv'[Other(q)] = rcv[Other(q)]
    BY <1>9, OtherFacts
  <2>3. QED
    BY <1>3, <1>5, <1>7, <1>9, <2>1, <2>2 DEF TookFragment, Took, Takes
<1>13. QED
  BY <1>11, <1>12, CountedKept, SameScripts DEF Kept, Step, Takes

LEMMA TakesMessageKeeps ==
    ASSUME IInv, NEW q \in Peers, Takes(q), Head(wire[q]).type = "DATA",
           got' = [got EXCEPT ![Other(q)] =
                     Append(got[Other(q)], Append(rcv[q].asm, Head(wire[q]).data))],
           rcv' = [rcv EXCEPT ![q] = Reading], UNCHANGED ended, OnePort'
    PROVE  Kept
<1>1. Typed
  BY DEF IInv
<1>2. /\ rcv' \in [Peers -> RcvStates] /\ rcv'[q] = Reading
      /\ \A s \in Peers : s # q => rcv'[s] = rcv[s]
  BY <1>1, RcvChanges, ReadingTyped
<1>3. \A p \in Peers : rcv'[p].pong => rcv'[p].asm = <<>>
  BY <1>1, <1>2, StatesTyped, ReadingTyped
<1>4. got' \in [Peers -> Seq(Seq(Fragments))]
  <2>1. Head(wire[q]) \in Frames
    BY <1>1, WireFacts DEF Takes
  <2>2. Head(wire[q]).data \in Fragments
    BY <2>1, FrameFacts DEF DataTypes
  <2>3. PICK m : m = Append(rcv[q].asm, Head(wire[q]).data)
    OBVIOUS
  <2>4. m \in Seq(Fragments)
    BY <1>1, <2>2, <2>3, RcvFacts
  <2>5. PICK p : p = Other(q) /\ p \in Peers
    BY OtherFacts
  <2>6. got \in [Peers -> Seq(Seq(Fragments))] /\ Append(got[p], m) \in Seq(Seq(Fragments))
    BY <1>1, <2>4, <2>5 DEF Typed, Told
  <2>7. QED
    BY <2>3, <2>5, <2>6
<1>5. Typed'
  BY <1>1, <1>2, <1>3, <1>4, TakesTyped, StatesTyped
<1>6. TookMessage(q)
  <2>1. ended'[q] # "broken"
    BY DEF Takes
  <2>2. rcv'[Other(q)] = rcv[Other(q)]
    BY <1>2, OtherFacts
  <2>3. QED
    BY <1>2, <2>1, <2>2, ReadingTyped DEF TookMessage, Took, Takes
<1>7. QED
  BY <1>5, <1>6, CountedKept, SameScripts DEF Kept, Step, Takes

LEMMA BrokeKeeps ==
    ASSUME IInv, NEW q \in Peers, Broke(q), UNCHANGED salts, OnePort'
    PROVE  Kept
<1>1. Typed
  BY DEF IInv
<1>2. /\ ended' \in [Peers -> Reasons]
      /\ UNCHANGED <<script, gen, tx_seq, rx_seq, job, rcv, interrupts, sent, got>>
  <2>1. "broken" \in Reasons
    BY DEF Reasons
  <2>2. QED
    BY <1>1, <2>1, EndFacts DEF Broke
<1>3. Carried' /\ Paced'
  <2>1. CASE UNCHANGED wire
    BY <1>1, <1>2, <2>1 DEF Typed, Carried, Paced
  <2>2. CASE wire[q] # <<>> /\ wire' = [wire EXCEPT ![q] = Tail(wire[q])]
    BY <1>1, <1>2, <2>2, TailTyped
  <2>3. QED
    BY <2>1, <2>2 DEF Broke
<1>4. Keyed' /\ Told'
  BY <1>1, <1>2 DEF Typed, Keyed, Told
<1>5. Working'
  BY <1>1, <1>2 DEF Typed, Working
<1>6. Step
  BY DEF Step
<1>7. QED
  BY <1>2, <1>3, <1>4, <1>5, <1>6, CountedKept, SameScripts DEF Kept, Typed

LEMMA ReadTakes ==
    ASSUME NEW q \in Peers, NEW types, Accept(q, types), UNCHANGED job,
           IF Head(wire[q]).type = "REKEY" THEN Rotate(q, Head(wire[q]).data)
           ELSE Count(q) /\ UNCHANGED <<gen, tx_seq>>
    PROVE  Takes(q) /\ Head(wire[q]).type \in types /\ ~rcv[q].pong
  BY DEF Accept, Read, Takes, Free

LEMMA RecvByeKeeps ==
    ASSUME IInv, NEW q \in Peers, RecvBye(q), Elsewhere, Python(q) PROVE Kept
<1>1. Typed
  BY DEF IInv
<1>2. Takes(q) /\ Head(wire[q]).type = "BYE" /\ ~rcv[q].pong
  <2>1. Accept(q, {"BYE"}) /\ Count(q) /\ UNCHANGED <<gen, tx_seq, job>>
    BY DEF RecvBye
  <2>2. Head(wire[q]).type = "BYE"
    BY <2>1 DEF Accept
  <2>3. QED
    BY <2>1, <2>2, ReadTakes
<1>3. End(q, "bye") /\ "bye" \in Reasons /\ UNCHANGED <<rcv, got>>
  BY DEF RecvBye, Reasons
<1>4. ended' \in [Peers -> Reasons] /\ ended'[q] = "bye" /\ Apart(q)
  BY <1>1, <1>3, EndFacts, OtherFacts DEF Apart
<1>5. OnePort'
  BY <1>1, <1>2, <1>4, PythonOnePort DEF Takes
<1>6. rcv' \in [Peers -> RcvStates]
  BY <1>1, <1>3, StatesTyped
<1>7. QED
  BY <1>2, <1>3, <1>4, <1>5, <1>6, TakesControlKeeps DEF DataTypes

LEMMA RecvPingKeeps ==
    ASSUME IInv, NEW q \in Peers, RecvPing(q), Elsewhere, Python(q) PROVE Kept
<1>1. Typed
  BY DEF IInv
<1>2. Takes(q) /\ Head(wire[q]).type = "PING" /\ ~rcv[q].pong
  <2>1. Accept(q, {"PING"}) /\ Count(q) /\ UNCHANGED <<gen, tx_seq, job>>
    BY DEF RecvPing
  <2>2. Head(wire[q]).type = "PING"
    BY <2>1 DEF Accept
  <2>3. QED
    BY <2>1, <2>2, ReadTakes
<1>3. /\ rcv[q].asm = <<>> /\ rcv' = [rcv EXCEPT ![q].pong = TRUE] /\ UNCHANGED <<ended, got>>
  BY DEF RecvPing
<1>4. PICK r : r = [rcv[q] EXCEPT !.pong = TRUE]
  OBVIOUS
<1>5. r \in RcvStates /\ r.asm = <<>>
  BY <1>1, <1>3, <1>4, RcvFacts DEF RcvStates
<1>6. rcv' = [rcv EXCEPT ![q] = r]
  BY <1>3, <1>4
<1>7. /\ rcv' \in [Peers -> RcvStates] /\ rcv'[q] = r
      /\ \A s \in Peers : s # q => rcv'[s] = rcv[s]
  BY <1>1, <1>5, <1>6, RcvChanges
<1>8. Apart(q)
  BY <1>3, <1>7, OtherFacts DEF Apart
<1>9. OnePort'
  BY <1>1, <1>2, <1>8, PythonOnePort DEF Takes
<1>10. ended' \in [Peers -> Reasons] /\ ended'[q] # "broken"
  BY <1>1, <1>2, <1>3, StatesTyped DEF Takes
<1>11. QED
  BY <1>2, <1>3, <1>5, <1>7, <1>8, <1>9, <1>10, TakesControlKeeps DEF DataTypes

LEMMA RecvPongKeeps ==
    ASSUME IInv, NEW q \in Peers, RecvPong(q), Elsewhere, Python(q) PROVE Kept
<1>1. Typed
  BY DEF IInv
<1>2. Takes(q) /\ Head(wire[q]).type = "PONG" /\ ~rcv[q].pong
  <2>1. Accept(q, {"PONG"}) /\ Count(q) /\ UNCHANGED <<gen, tx_seq, job>>
    BY DEF RecvPong
  <2>2. Head(wire[q]).type = "PONG"
    BY <2>1 DEF Accept
  <2>3. QED
    BY <2>1, <2>2, ReadTakes
<1>3. PICK fresh \in BOOLEAN : CountCtrl(q, fresh)
  BY DEF RecvPong
<1>4. UNCHANGED got
  BY DEF RecvPong
<1>5. /\ rcv' \in [Peers -> RcvStates] /\ ended' \in [Peers -> Reasons]
      /\ rcv'[q].asm = rcv[q].asm /\ ~rcv'[q].pong
      /\ ended'[q] \in {ended[q], "flood"}
      /\ \A r \in Peers : r # q => rcv'[r] = rcv[r] /\ ended'[r] = ended[r]
  BY <1>1, <1>3, CtrlCounted
<1>6. Apart(q)
  BY <1>5, OtherFacts DEF Apart
<1>7. OnePort'
  BY <1>1, <1>2, <1>6, PythonOnePort DEF Takes
<1>8. ended'[q] # "broken"
  BY <1>2, <1>5 DEF Takes
<1>9. QED
  BY <1>2, <1>4, <1>5, <1>6, <1>7, <1>8, TakesControlKeeps DEF DataTypes

LEMMA RecvRekeyKeeps ==
    ASSUME IInv, NEW q \in Peers, RecvRekey(q), Elsewhere, Python(q) PROVE Kept
<1>1. Typed
  BY DEF IInv
<1>2. Takes(q) /\ Head(wire[q]).type = "REKEY" /\ ~rcv[q].pong
  <2>1. Accept(q, {"REKEY"}) /\ Rotate(q, Head(wire[q]).data) /\ UNCHANGED job
    BY DEF RecvRekey
  <2>2. Head(wire[q]).type = "REKEY"
    BY <2>1 DEF Accept
  <2>3. QED
    BY <2>1, <2>2, ReadTakes
<1>3. UNCHANGED <<rcv, ended, got>>
  BY DEF RecvRekey
<1>4. Apart(q)
  BY <1>3 DEF Apart
<1>5. OnePort'
  BY <1>1, <1>2, <1>4, PythonOnePort DEF Takes
<1>6. rcv' \in [Peers -> RcvStates] /\ ended' \in [Peers -> Reasons] /\ ended'[q] # "broken"
  BY <1>1, <1>2, <1>3, StatesTyped DEF Takes
<1>7. QED
  BY <1>2, <1>3, <1>4, <1>5, <1>6, TakesControlKeeps DEF DataTypes

LEMMA RecvFragmentKeeps ==
    ASSUME IInv, NEW q \in Peers, RecvFragment(q), Elsewhere, Python(q) PROVE Kept
<1>1. Typed /\ rcv \in [Peers -> RcvStates]
  BY StatesTyped DEF IInv
<1>2. Takes(q) /\ Head(wire[q]).type = "DATA_FRAG" /\ ~rcv[q].pong
  <2>1. Accept(q, {"DATA_FRAG"}) /\ Count(q) /\ UNCHANGED <<gen, tx_seq, job>>
    BY DEF RecvFragment
  <2>2. Head(wire[q]).type = "DATA_FRAG"
    BY <2>1 DEF Accept
  <2>3. QED
    BY <2>1, <2>2, ReadTakes
<1>3. PICK r : r = [rcv[q] EXCEPT !.asm = Append(rcv[q].asm, Head(wire[q]).data)]
  OBVIOUS
<1>4. /\ Len(rcv[q].asm) + 1 < MaxFrags
      /\ rcv' = [rcv EXCEPT ![q] = r] /\ UNCHANGED <<ended, got>>
  BY <1>1, <1>3 DEF RecvFragment
<1>5. Apart(q)
  BY <1>1, <1>4, OtherFacts DEF Apart
<1>6. OnePort'
  BY <1>1, <1>2, <1>5, PythonOnePort DEF Takes
<1>7. QED
  BY <1>2, <1>3, <1>4, <1>6, TakesFragmentKeeps

LEMMA RecvDataKeepsIt ==
    ASSUME IInv, NEW q \in Peers, RecvData(q), Elsewhere, Python(q) PROVE Kept
<1>1. Typed /\ rcv \in [Peers -> RcvStates]
  BY StatesTyped DEF IInv
<1>2. Takes(q) /\ Head(wire[q]).type = "DATA" /\ ~rcv[q].pong
  <2>1. Accept(q, {"DATA"}) /\ Count(q) /\ UNCHANGED <<gen, tx_seq, job>>
    BY DEF RecvData
  <2>2. Head(wire[q]).type = "DATA"
    BY <2>1 DEF Accept
  <2>3. QED
    BY <2>1, <2>2, ReadTakes
<1>3. /\ got' = [got EXCEPT ![Other(q)] =
                   Append(got[Other(q)], Append(rcv[q].asm, Head(wire[q]).data))]
      /\ rcv' = [rcv EXCEPT ![q] = Reading] /\ UNCHANGED ended
  BY DEF RecvData
<1>4. Apart(q)
  BY <1>1, <1>3, OtherFacts DEF Apart
<1>5. OnePort'
  BY <1>1, <1>2, <1>4, PythonOnePort DEF Takes
<1>6. QED
  BY <1>2, <1>3, <1>5, TakesMessageKeeps

LEMMA BreakKeeps ==
    ASSUME IInv, NEW q \in Peers, Break(q), Elsewhere, Python(q) PROVE Kept
<1>1. Typed /\ "broken" \in Reasons
  BY DEF IInv, Reasons
<1>2. /\ ended[q] = "no" /\ wire[q] # <<>> /\ wire' = [wire EXCEPT ![q] = Tail(wire[q])]
      /\ End(q, "broken") /\ Unfit(q, Head(wire[q]))
      /\ UNCHANGED <<script, gen, tx_seq, rx_seq, job, rcv, interrupts, salts, sent, got>>
  BY DEF Break, Read, Free, Unfit
<1>3. Broke(q)
  BY <1>2 DEF Broke
<1>4. Apart(q)
  BY <1>1, <1>2, EndFacts, OtherFacts DEF Apart
<1>5. OnePort'
  BY <1>1, <1>2, <1>4, PythonOnePort
<1>6. QED
  BY <1>2, <1>3, <1>5, BrokeKeeps

LEMMA PythonKeeps ==
    ASSUME IInv, NEW p \in Peers, Sending(p) \/ Receiving(p), Elsewhere, Python(p) PROVE Kept
<1>1. CASE Sending(p)
  BY <1>1, StartSendKeeps, StartRekeyKeeps, StartPingKeeps, StartByeKeeps, StartPongKeeps,
     ResumeKeeps, NextFragmentKeeps, FinishKeeps, DisconnectedKeeps, CancelKeeps DEF Sending
<1>2. CASE Receiving(p)
  BY <1>2, BreakKeeps, RecvByeKeeps, RecvPingKeeps, RecvPongKeeps, RecvRekeyKeeps,
     RecvFragmentKeeps, RecvDataKeepsIt, RecvEofKeeps, RecvTimeoutKeeps DEF Receiving
<1>3. QED
  BY <1>1, <1>2

-----------------------------------------------------------------------------
(* The device in C                                                           *)

LEMMA BIsPeer == "B" \in Peers /\ "A" \in Peers /\ Other("B") = "A"
                 /\ \A p \in Peers : p # "B" => p = "A"
<1>1. "B" \in Peers /\ "A" \in Peers /\ \A p \in Peers : p # "B" => p = "A"
  BY DEF Peers
<1>2. QED
  BY <1>1, OtherFacts

Device == port = "c" /\ UNCHANGED port

(* The number of frames a call under way has read. *)
LEMMA InCallFacts ==
    ASSUME Typed, Device, ended["B"] = "no"
    PROVE  /\ attempts # NotCalled /\ attempts < MaxAttempts => attempts \in 0 .. MaxAttempts - 1
           /\ job["B"].op = "pong" => attempts \in 0 .. MaxAttempts - 1 /\ rcv["B"].asm = <<>>
           /\ rcv["B"].ctrl <= CtrlLimit /\ NotCalled \notin Nat
<1>1. MaxAttempts \in Nat /\ NotCalled \notin Nat
  BY CTcpSessionAssumption DEF NotCalled
<1>2. /\ attempts \in {NotCalled} \union 0 .. MaxAttempts
      /\ rcv["B"].pong => attempts \in 0 .. MaxAttempts - 1
      /\ job["B"].op = "pong" => rcv["B"].pong
      /\ rcv["B"].ctrl <= CtrlLimit
  BY DEF Typed, OnePort, Device
<1>3. rcv["B"].pong => rcv["B"].asm = <<>>
  BY StatesTyped, BIsPeer
<1>4. QED
  BY <1>1, <1>2, <1>3

LEMMA Counting ==
    ASSUME Typed, Device, ended["B"] = "no", attempts \in 0 .. MaxAttempts - 1,
           rcv["B"].asm = <<>>, job'["B"].op # "pong", CountControl
    PROVE  /\ rcv' \in [Peers -> RcvStates] /\ ended' \in [Peers -> Reasons]
           /\ rcv'["B"].asm = <<>> /\ (rcv'["B"].pong => rcv["B"].pong)
           /\ Apart("B") /\ ended'["B"] \in {"no", "flood"}
           /\ OnePort'
<1>1. /\ rcv \in [Peers -> RcvStates] /\ ended \in [Peers -> Reasons] /\ rcv["B"].ctrl \in Nat
      /\ rcv["B"] \in RcvStates
  BY StatesTyped, RcvFacts, BIsPeer
<1>2. /\ MaxAttempts \in Nat /\ CtrlLimit \in Nat /\ attempts \in Nat
      /\ attempts + 1 \in 0 .. MaxAttempts /\ attempts \in 0 .. MaxAttempts
  <2>1. MaxAttempts \in Nat /\ CtrlLimit \in Nat
    BY CTcpSessionAssumption, TcpSessionAssumption
  <2>2. QED
    BY <2>1
<1>3. CASE Return
  <2>1. /\ attempts' = NotCalled /\ rcv' = [rcv EXCEPT !["B"] = Reading] /\ UNCHANGED ended
    BY <1>3 DEF Return
  <2>2. /\ rcv' \in [Peers -> RcvStates] /\ rcv'["B"] = Reading
        /\ \A s \in Peers : s # "B" => rcv'[s] = rcv[s]
    BY <2>1, RcvChanges, ReadingTyped, BIsPeer
  <2>3. Apart("B")
    BY <2>1, <2>2, BIsPeer DEF Apart
  <2>4. OnePort'
    BY <1>2, <2>1, <2>2, ReadingTyped DEF OnePort, Device
  <2>5. QED
    BY <1>1, <2>1, <2>2, <2>3, <2>4, ReadingTyped
<1>4. CASE Fail("flood")
  <2>1. End("B", "flood") /\ "flood" \in Reasons /\ UNCHANGED <<rcv, attempts>>
    BY <1>4 DEF Fail, Reasons
  <2>2. /\ ended' \in [Peers -> Reasons] /\ ended'["B"] = "flood"
        /\ \A r \in Peers : r # "B" => ended'[r] = ended[r]
    BY <2>1, EndFacts, BIsPeer
  <2>3. Apart("B")
    BY <2>1, <2>2, BIsPeer DEF Apart
  <2>4. OnePort'
    BY <1>2, <2>1, <2>2 DEF OnePort, Device
  <2>5. QED
    BY <1>1, <2>1, <2>2, <2>3, <2>4
<1>5. CASE rcv["B"].ctrl + 1 <= CtrlLimit
           /\ Continue([rcv["B"] EXCEPT !.ctrl = @ + 1, !.pong = FALSE])
  <2>1. PICK c : c = rcv["B"].ctrl + 1
    OBVIOUS
  <2>2. c \in Nat /\ c <= CtrlLimit
    BY <1>1, <1>5, <2>1
  <2>3. PICK s : s = [rcv["B"] EXCEPT !.ctrl = c]
    OBVIOUS
  <2>4. s \in RcvStates /\ s.asm = rcv["B"].asm /\ s.ctrl = c
    BY <1>1, <2>2, <2>3, RcvFacts, BIsPeer DEF RcvStates
  <2>5. PICK r : r = [s EXCEPT !.pong = FALSE]
    OBVIOUS
  <2>6. r \in RcvStates /\ r.asm = rcv["B"].asm /\ ~r.pong /\ r.ctrl = c
    BY <2>4, <2>5 DEF RcvStates
  <2>7. /\ rcv' = [rcv EXCEPT !["B"] = r] /\ UNCHANGED ended /\ attempts' = attempts + 1
    BY <1>5, <2>1, <2>3, <2>5 DEF Continue
  <2>8. /\ rcv' \in [Peers -> RcvStates] /\ rcv'["B"] = r
        /\ \A t \in Peers : t # "B" => rcv'[t] = rcv[t]
    BY <2>6, <2>7, RcvChanges, BIsPeer
  <2>9. Apart("B")
    BY <2>7, <2>8, BIsPeer DEF Apart
  <2>10. OnePort'
    BY <1>2, <2>2, <2>6, <2>7, <2>8 DEF OnePort, Device
  <2>11. QED
    BY <1>1, <2>6, <2>7, <2>8, <2>9, <2>10
<1>6. QED
  <2>1. Return \/ Fail("flood")
        \/ (~(rcv["B"].ctrl + 1 > CtrlLimit)
            /\ Continue([rcv["B"] EXCEPT !.ctrl = @ + 1, !.pong = FALSE]))
    BY DEF CountControl
  <2>2. ~(rcv["B"].ctrl + 1 > CtrlLimit) => rcv["B"].ctrl + 1 <= CtrlLimit
    BY <1>1, <1>2
  <2>3. QED
    BY <1>3, <1>4, <1>5, <2>1, <2>2

LEMMA CReadTakes ==
    ASSUME Typed, Device, NEW types, CAccept(types), UNCHANGED job,
           IF Head(wire["B"]).type = "REKEY" THEN Rotate("B", Head(wire["B"]).data)
           ELSE Count("B") /\ UNCHANGED <<gen, tx_seq>>
    PROVE  /\ Takes("B") /\ Head(wire["B"]).type \in types /\ ~rcv["B"].pong
           /\ attempts \in 0 .. MaxAttempts - 1 /\ job'["B"].op = "none" /\ ended["B"] = "no"
<1>1. /\ ended["B"] = "no" /\ job["B"] = Idle /\ attempts # NotCalled /\ attempts < MaxAttempts
      /\ ~rcv["B"].pong /\ Takes("B") /\ Head(wire["B"]).type \in types
  BY DEF CAccept, CRead, InCall, Takes
<1>2. job'["B"].op = "none"
  BY <1>1 DEF Idle
<1>3. QED
  BY <1>1, <1>2, InCallFacts

LEMMA CControlKeeps ==
    ASSUME IInv, Device, Takes("B"), Head(wire["B"]).type \in {"PONG", "REKEY"},
           ~rcv["B"].pong, attempts \in 0 .. MaxAttempts - 1, job'["B"].op = "none",
           rcv["B"].asm = <<>>, CountControl, UNCHANGED got
    PROVE  Kept
<1>1. Typed
  BY DEF IInv
<1>2. ended["B"] = "no"
  BY DEF Takes
<1>3. /\ rcv' \in [Peers -> RcvStates] /\ ended' \in [Peers -> Reasons]
      /\ rcv'["B"].asm = <<>> /\ (rcv'["B"].pong => rcv["B"].pong)
      /\ Apart("B") /\ ended'["B"] \in {"no", "flood"} /\ OnePort'
  BY <1>1, <1>2, Counting
<1>4. ended'["B"] # "broken" /\ Head(wire["B"]).type \notin DataTypes
  BY <1>3 DEF DataTypes
<1>5. QED
  BY <1>3, <1>4, BIsPeer, TakesControlKeeps

LEMMA CRecvPongKeeps == ASSUME IInv, Device, CRecvPong PROVE Kept
<1>1. Typed
  BY DEF IInv
<1>2. CAccept({"PONG"}) /\ Count("B") /\ UNCHANGED <<gen, tx_seq, job, got>>
      /\ rcv["B"].asm = <<>> /\ CountControl
  BY DEF CRecvPong
<1>3. Head(wire["B"]).type = "PONG"
  BY <1>2 DEF CAccept
<1>4. QED
  BY <1>1, <1>2, <1>3, CReadTakes, CControlKeeps

LEMMA CRecvRekeyKeeps == ASSUME IInv, Device, CRecvRekey PROVE Kept
<1>1. Typed
  BY DEF IInv
<1>2. CAccept({"REKEY"}) /\ Rotate("B", Head(wire["B"]).data) /\ UNCHANGED <<job, got>>
      /\ rcv["B"].asm = <<>> /\ CountControl
  BY DEF CRecvRekey
<1>3. Head(wire["B"]).type = "REKEY"
  BY <1>2 DEF CAccept
<1>4. QED
  BY <1>1, <1>2, <1>3, CReadTakes, CControlKeeps

LEMMA CRecvPingKeeps == ASSUME IInv, Device, CRecvPing PROVE Kept
<1>1. Typed
  BY DEF IInv
<1>2. /\ CAccept({"PING"}) /\ Count("B") /\ UNCHANGED <<gen, tx_seq, job, ended, got, attempts>>
      /\ rcv["B"].asm = <<>> /\ rcv' = [rcv EXCEPT !["B"].pong = TRUE]
  BY DEF CRecvPing
<1>3. Head(wire["B"]).type = "PING"
  BY <1>2 DEF CAccept
<1>4. /\ Takes("B") /\ attempts \in 0 .. MaxAttempts - 1 /\ job'["B"].op = "none"
      /\ ended["B"] = "no"
  BY <1>1, <1>2, <1>3, CReadTakes
<1>5. PICK r : r = [rcv["B"] EXCEPT !.pong = TRUE]
  OBVIOUS
<1>6. r \in RcvStates /\ r.asm = <<>> /\ r.ctrl = rcv["B"].ctrl
  BY <1>1, <1>2, <1>5, RcvFacts, BIsPeer DEF RcvStates
<1>7. rcv' = [rcv EXCEPT !["B"] = r]
  BY <1>2, <1>5
<1>8. /\ rcv' \in [Peers -> RcvStates] /\ rcv'["B"] = r
      /\ \A s \in Peers : s # "B" => rcv'[s] = rcv[s]
  BY <1>1, <1>6, <1>7, RcvChanges, BIsPeer
<1>9. Apart("B")
  BY <1>2, <1>8, BIsPeer DEF Apart
<1>10. OnePort'
  <2>1. rcv'["B"].ctrl <= CtrlLimit
    BY <1>1, <1>4, <1>6, <1>8, InCallFacts
  <2>2. QED
    BY <1>1, <1>2, <1>4, <2>1 DEF OnePort, Device, Typed
<1>11. ended' \in [Peers -> Reasons] /\ ended'["B"] # "broken"
  BY <1>1, <1>2, <1>4, StatesTyped
<1>12. QED
  BY <1>2, <1>3, <1>4, <1>6, <1>8, <1>9, <1>10, <1>11, TakesControlKeeps, BIsPeer DEF DataTypes

LEMMA CRecvByeKeeps == ASSUME IInv, Device, CRecvBye PROVE Kept
<1>1. Typed
  BY DEF IInv
<1>2. /\ CAccept({"BYE"}) /\ Count("B") /\ UNCHANGED <<gen, tx_seq, job, got, rcv, attempts>>
      /\ End("B", "bye") /\ "bye" \in Reasons
  BY DEF CRecvBye, Fail, Reasons
<1>3. Head(wire["B"]).type = "BYE"
  BY <1>2 DEF CAccept
<1>4. Takes("B") /\ job'["B"].op = "none" /\ ended["B"] = "no" /\ ~rcv["B"].pong
  BY <1>1, <1>2, <1>3, CReadTakes
<1>5. /\ ended' \in [Peers -> Reasons] /\ ended'["B"] = "bye"
      /\ \A r \in Peers : r # "B" => ended'[r] = ended[r]
  BY <1>1, <1>2, EndFacts, BIsPeer
<1>6. Apart("B") /\ rcv' \in [Peers -> RcvStates]
  BY <1>1, <1>2, <1>5, BIsPeer, StatesTyped DEF Apart
<1>7. OnePort'
  BY <1>1, <1>2, <1>4, <1>5 DEF OnePort, Device, Typed
<1>8. QED
  BY <1>2, <1>3, <1>4, <1>5, <1>6, <1>7, TakesControlKeeps, BIsPeer DEF DataTypes

LEMMA CRecvFragmentKeeps == ASSUME IInv, Device, CRecvFragment PROVE Kept
<1>1. Typed
  BY DEF IInv
<1>2. /\ CAccept({"DATA_FRAG"}) /\ Count("B") /\ UNCHANGED <<gen, tx_seq, job, got>>
      /\ Len(rcv["B"].asm) + 1 < MaxFrags
      /\ Continue([rcv["B"] EXCEPT !.asm = Append(@, Head(wire["B"]).data)])
  BY DEF CRecvFragment
<1>3. Head(wire["B"]).type = "DATA_FRAG"
  BY <1>2 DEF CAccept
<1>4. /\ Takes("B") /\ attempts \in 0 .. MaxAttempts - 1 /\ job'["B"].op = "none"
      /\ ended["B"] = "no" /\ ~rcv["B"].pong
  BY <1>1, <1>2, <1>3, CReadTakes
<1>5. PICK r : r = [rcv["B"] EXCEPT !.asm = Append(rcv["B"].asm, Head(wire["B"]).data)]
  OBVIOUS
<1>6. rcv' = [rcv EXCEPT !["B"] = r] /\ UNCHANGED ended /\ attempts' = attempts + 1
  BY <1>2, <1>5 DEF Continue
<1>7. attempts + 1 \in 0 .. MaxAttempts /\ MaxAttempts \in Nat
  <2>1. MaxAttempts \in Nat
    BY CTcpSessionAssumption
  <2>2. QED
    BY <1>4, <2>1
<1>8. r.ctrl = rcv["B"].ctrl
  BY <1>1, <1>5, RcvFacts, BIsPeer DEF RcvStates
<1>9. ASSUME r \in RcvStates, ~r.pong PROVE OnePort'
  <2>1. rcv'["B"] = r
    BY <1>1, <1>6, StatesTyped, BIsPeer
  <2>2. r.ctrl <= CtrlLimit
    BY <1>1, <1>4, <1>8, InCallFacts
  <2>3. QED
    BY <1>4, <1>6, <1>7, <1>9, <2>1, <2>2 DEF OnePort, Device
<1>10. QED
  BY <1>2, <1>3, <1>4, <1>5, <1>6, <1>9, TakesFragmentKeeps, BIsPeer

LEMMA CRecvDataKeeps == ASSUME IInv, Device, CRecvData PROVE Kept
<1>1. Typed
  BY DEF IInv
<1>2. /\ CAccept({"DATA"}) /\ Count("B") /\ UNCHANGED <<gen, tx_seq, job, ended>>
      /\ got' = [got EXCEPT !["A"] = Append(got["A"], Append(rcv["B"].asm, Head(wire["B"]).data))]
      /\ rcv' = [rcv EXCEPT !["B"] = Reading] /\ attempts' = NotCalled
  BY DEF CRecvData, Return
<1>3. Head(wire["B"]).type = "DATA"
  BY <1>2 DEF CAccept
<1>4. /\ Takes("B") /\ job'["B"].op = "none"
  BY <1>1, <1>2, <1>3, CReadTakes
<1>5. rcv'["B"] = Reading
  BY <1>1, <1>2, StatesTyped, BIsPeer
<1>6. OnePort'
  BY <1>2, <1>4, <1>5, ReadingTyped, TcpSessionAssumption DEF OnePort, Device
<1>7. QED
  BY <1>2, <1>3, <1>4, <1>6, TakesMessageKeeps, BIsPeer

(* The device gives up. *)
LEMMA FailFacts ==
    ASSUME Typed, Device, NEW why \in Reasons \ {"no"}, Fail(why), InCall, UNCHANGED job
    PROVE  /\ ended' \in [Peers -> Reasons] /\ ended'["B"] = why
           /\ \A r \in Peers : r # "B" => ended'[r] = ended[r]
           /\ OnePort' /\ UNCHANGED <<rcv, attempts>>
<1>1. End("B", why) /\ UNCHANGED <<rcv, attempts>>
  BY DEF Fail
<1>2. /\ ended' \in [Peers -> Reasons] /\ ended'["B"] = why
      /\ \A r \in Peers : r # "B" => ended'[r] = ended[r]
  BY <1>1, EndFacts, BIsPeer
<1>3. job'["B"].op = "none"
  BY DEF InCall, Idle
<1>4. OnePort'
  BY <1>1, <1>2, <1>3 DEF OnePort, Device, Typed
<1>5. QED
  BY <1>1, <1>2, <1>4

(* The device goes on, returns or gives up, without reading. *)
LEMMA CRestKeeps ==
    ASSUME IInv, Device, ended["B"] = "no",
           UNCHANGED <<script, gen, tx_seq, rx_seq, wire, interrupts, salts, sent, got>>,
           job' = job \/ (job' = [job EXCEPT !["B"] = Idle] /\ Running("B") /\ job["B"].op = "pong"),
           rcv' \in [Peers -> RcvStates], ended' \in [Peers -> Reasons],
           rcv'["B"].asm = rcv["B"].asm, rcv'["B"].pong => rcv["B"].pong,
           Apart("B"), ended'["B"] # "broken", OnePort'
    PROVE  Kept
<1>1. Typed /\ job \in [Peers -> Jobs]
  BY StatesTyped DEF IInv
<1>2. \A r \in Peers :
          /\ rcv'[r].asm = rcv[r].asm /\ (rcv'[r].pong => rcv[r].pong)
          /\ ended'[r] = ended[r] \/ (ended[r] = "no" /\ ended'[r] # "broken")
  BY BIsPeer DEF Apart
<1>3. CASE job' = job
  <2>1. job' \in [Peers -> Jobs] /\ \A r \in Peers : JobKept(r)
    BY <1>1, <1>3 DEF JobKept
  <2>2. QED
    BY <1>2, <1>3, <2>1, RestKeeps
<1>4. CASE job' = [job EXCEPT !["B"] = Idle] /\ Running("B") /\ job["B"].op = "pong"
  <2>1. /\ job' \in [Peers -> Jobs]
        /\ \A r \in Peers : JobKept(r) /\ (r # "B" => job'[r] = job[r])
    BY <1>1, <1>4, JobEnds, BIsPeer
  <2>2. job["B"].type # "DATA_FRAG"
    BY <1>1, <1>4, JobFacts, BIsPeer DEF DataTypes
  <2>3. \A r \in Peers :
          /\ job'[r].op = "none" /\ job[r].op # "none" =>
               job[r].type # "DATA_FRAG" /\ job[r].op # "rekey"
          /\ job'[r].op = "none" \/ ~job'[r].paused => job[r].op = "none" \/ ~job[r].paused
    BY <1>4, <2>1, <2>2 DEF Running
  <2>4. QED
    BY <1>2, <2>1, <2>3, RestKeeps
<1>5. QED
  BY <1>3, <1>4

LEMMA CRecvKeeps == ASSUME IInv, Device, CRecv PROVE Kept
<1>1. Typed /\ rcv \in [Peers -> RcvStates] /\ ended \in [Peers -> Reasons]
  BY StatesTyped DEF IInv
<1>2. ended["B"] = "no" /\ job["B"] = Idle /\ attempts = NotCalled /\ attempts' = 0
      /\ UNCHANGED vars
  BY DEF CRecv
<1>3. UNCHANGED <<script, gen, tx_seq, rx_seq, wire, interrupts, salts, sent, got>>
      /\ UNCHANGED <<job, rcv, ended>>
  BY <1>2 DEF vars
<1>4. 0 \in 0 .. MaxAttempts /\ NotCalled \notin 0 .. MaxAttempts - 1
  BY CTcpSessionAssumption DEF NotCalled
<1>5. job["B"].op = "none"
  BY <1>2 DEF Idle
<1>6. OnePort'
  BY <1>1, <1>2, <1>3, <1>4, <1>5 DEF Typed, OnePort, Device
<1>7. Apart("B")
  BY <1>3 DEF Apart
<1>8. QED
  BY <1>1, <1>2, <1>3, <1>6, <1>7, CRestKeeps

LEMMA CSpentKeeps == ASSUME IInv, Device, CSpent PROVE Kept
<1>1. Typed /\ rcv \in [Peers -> RcvStates] /\ ended \in [Peers -> Reasons]
  BY StatesTyped DEF IInv
<1>2. /\ InCall /\ ended["B"] = "no" /\ job["B"] = Idle
      /\ UNCHANGED <<script, gen, tx_seq, rx_seq, wire, interrupts, salts, sent, got>>
      /\ UNCHANGED job
  BY DEF CSpent, InCall
<1>3. CASE rcv["B"].asm = <<>> /\ Return
  <2>1. /\ attempts' = NotCalled /\ rcv' = [rcv EXCEPT !["B"] = Reading] /\ UNCHANGED ended
    BY <1>3 DEF Return
  <2>2. /\ rcv' \in [Peers -> RcvStates] /\ rcv'["B"] = Reading
        /\ \A s \in Peers : s # "B" => rcv'[s] = rcv[s]
    BY <1>1, <2>1, RcvChanges, ReadingTyped, BIsPeer
  <2>3. Apart("B")
    BY <2>1, <2>2, BIsPeer DEF Apart
  <2>4. job'["B"].op = "none"
    BY <1>2 DEF Idle
  <2>5. OnePort'
    BY <2>1, <2>2, <2>4, ReadingTyped, TcpSessionAssumption DEF OnePort, Device
  <2>6. QED
    BY <1>1, <1>2, <1>3, <2>1, <2>2, <2>3, <2>5, ReadingTyped, CRestKeeps
<1>4. CASE Fail("flood")
  <2>1. "flood" \in Reasons \ {"no"}
    BY DEF Reasons
  <2>2. /\ ended' \in [Peers -> Reasons] /\ ended'["B"] = "flood"
        /\ \A r \in Peers : r # "B" => ended'[r] = ended[r]
        /\ OnePort' /\ UNCHANGED <<rcv, attempts>>
    BY <1>1, <1>2, <1>4, <2>1, FailFacts
  <2>3. Apart("B")
    BY <2>2, BIsPeer DEF Apart
  <2>4. QED
    BY <1>1, <1>2, <2>2, <2>3, CRestKeeps
<1>5. QED
  BY <1>3, <1>4 DEF CSpent

LEMMA CRecvEofKeeps == ASSUME IInv, Device, CRecvEof PROVE Kept
<1>1. Typed /\ rcv \in [Peers -> RcvStates]
  BY StatesTyped DEF IInv
<1>2. /\ InCall /\ ended["B"] = "no" /\ Fail("eof") /\ "eof" \in Reasons \ {"no"}
      /\ UNCHANGED <<script, gen, tx_seq, rx_seq, wire, interrupts, salts, sent, got>>
      /\ UNCHANGED job
  BY DEF CRecvEof, InCall, Reasons
<1>3. /\ ended' \in [Peers -> Reasons] /\ ended'["B"] = "eof"
      /\ \A r \in Peers : r # "B" => ended'[r] = ended[r]
      /\ OnePort' /\ UNCHANGED <<rcv, attempts>>
  BY <1>1, <1>2, FailFacts
<1>4. Apart("B")
  BY <1>3, BIsPeer DEF Apart
<1>5. QED
  BY <1>1, <1>2, <1>3, <1>4, CRestKeeps

LEMMA CStallKeeps == ASSUME IInv, Device, CStall PROVE Kept
<1>1. Typed
  BY DEF IInv
<1>2. /\ InCall /\ ended["B"] = "no" /\ Fail("broken") /\ "broken" \in Reasons \ {"no"}
      /\ Stuck("B")
      /\ UNCHANGED <<script, gen, tx_seq, rx_seq, wire, job, interrupts, salts, sent, got>>
  BY BIsPeer DEF CStall, InCall, Reasons, Stuck
<1>3. OnePort' /\ UNCHANGED rcv
  BY <1>1, <1>2, FailFacts
<1>4. Broke("B")
  BY <1>2, <1>3 DEF Broke, Fail
<1>5. QED
  BY <1>2, <1>3, <1>4, BrokeKeeps, BIsPeer

LEMMA CBreakKeeps == ASSUME IInv, Device, CBreak PROVE Kept
<1>1. Typed
  BY DEF IInv
<1>2. /\ InCall /\ ended["B"] = "no" /\ Fail("broken") /\ "broken" \in Reasons \ {"no"}
      /\ wire["B"] # <<>> /\ wire' = [wire EXCEPT !["B"] = Tail(wire["B"])]
      /\ Unfit("B", Head(wire["B"]))
      /\ UNCHANGED <<script, gen, tx_seq, rx_seq, job, interrupts, salts, sent, got>>
  BY DEF CBreak, CRead, InCall, Reasons, Unfit
<1>3. OnePort' /\ UNCHANGED rcv
  BY <1>1, <1>2, FailFacts
<1>4. Broke("B")
  BY <1>2, <1>3 DEF Broke, Fail
<1>5. QED
  BY <1>2, <1>3, <1>4, BrokeKeeps, BIsPeer

LEMMA CFinishPongKeeps == ASSUME IInv, Device, CFinishPong PROVE Kept
<1>1. Typed
  BY DEF IInv
<1>2. /\ ended["B"] = "no" /\ Running("B") /\ job["B"].op = "pong"
      /\ job' = [job EXCEPT !["B"] = Idle] /\ CountControl
      /\ UNCHANGED <<script, gen, tx_seq, rx_seq, wire, interrupts, salts, sent, got>>
  BY DEF CFinishPong
<1>3. attempts \in 0 .. MaxAttempts - 1 /\ rcv["B"].asm = <<>>
  BY <1>1, <1>2, InCallFacts
<1>4. job'["B"].op # "pong"
  BY <1>1, <1>2, JobEnds, BIsPeer
<1>5. /\ rcv' \in [Peers -> RcvStates] /\ ended' \in [Peers -> Reasons]
      /\ rcv'["B"].asm = <<>> /\ (rcv'["B"].pong => rcv["B"].pong)
      /\ Apart("B") /\ ended'["B"] \in {"no", "flood"} /\ OnePort'
  BY <1>1, <1>2, <1>3, <1>4, Counting
<1>6. QED
  BY <1>2, <1>3, <1>5, CRestKeeps

LEMMA DeviceKeeps ==
    ASSUME IInv, DeviceB, CStart \/ CStartPong \/ CWrite \/ CDisconnected \/ CReceiving
    PROVE  Kept
<1>1. Device
  BY DEF DeviceB, Device
<1>2. CASE CReceiving
  BY <1>1, <1>2, CRecvKeeps, CSpentKeeps, CBreakKeeps, CRecvPongKeeps, CRecvRekeyKeeps,
     CRecvPingKeeps, CFinishPongKeeps, CRecvByeKeeps, CRecvFragmentKeeps, CRecvDataKeeps,
     CRecvEofKeeps, CStallKeeps DEF CReceiving
<1>3. CASE CStart \/ CStartPong \/ CWrite \/ CDisconnected
  <2>1. Elsewhere /\ "B" \in Peers
    BY <1>1, <1>3, BIsPeer DEF CStart, CStartPong, CWrite, CDisconnected, Elsewhere, Device
  <2>2. CASE CStart
    BY <2>1, <2>2, StartSendKeeps, StartRekeyKeeps, StartPingKeeps, StartByeKeeps DEF CStart
  <2>3. CASE CStartPong
    BY <2>1, <2>3, StartPongKeeps DEF CStartPong
  <2>4. CASE CWrite
    BY <2>1, <2>4, ResumeKeeps, NextFragmentKeeps, FinishKeeps DEF CWrite
  <2>5. CASE CDisconnected
    BY <2>1, <2>5, DisconnectedKeeps DEF CDisconnected
  <2>6. QED
    BY <1>3, <2>2, <2>3, <2>4, <2>5
<1>4. QED
  BY <1>2, <1>3

LEMMA NextKeeps == ASSUME IInv, CNext PROVE Kept
<1>1. CASE (Sending("A") \/ Receiving("A")) /\ UNCHANGED <<port, attempts>>
  <2>1. Python("A") /\ Elsewhere
    BY <1>1 DEF Python, Elsewhere
  <2>2. QED
    BY <1>1, <2>1, PythonKeeps, BIsPeer
<1>2. CASE PythonB /\ (Sending("B") \/ Receiving("B"))
  <2>1. Python("B") /\ Elsewhere
    BY <1>2 DEF Python, Elsewhere, PythonB
  <2>2. QED
    BY <1>2, <2>1, PythonKeeps, BIsPeer
<1>3. QED
  BY <1>1, <1>2, DeviceKeeps DEF CNext

-----------------------------------------------------------------------------
(* The invariant                                                             *)

LEMMA InitScripts ==
    ASSUME CInit
    PROVE  /\ script \in [Peers -> Seq(Operations)] /\ interrupts \in BOOLEAN
           /\ \A p \in Peers : Sends(script[p]) <= MaxMsgs
           /\ ~interrupts => script \in Scripts \union CScripts
<1>1. AreScripts({script})
  BY ScriptsAssumption, CScriptsAssumption DEF CInit, Init, InitWith, AreScripts
<1>2. interrupts \in BOOLEAN /\ (~interrupts => script \in Scripts \union CScripts)
  BY DEF CInit, Init, InitWith
<1>3. QED
  BY <1>1, <1>2 DEF AreScripts

LEMMA InitTyped == ASSUME CInit PROVE Typed /\ Counted
<1>1. /\ gen = [p \in Peers |-> <<>>] /\ tx_seq = [p \in Peers |-> 0]
      /\ rx_seq = [p \in Peers |-> 0] /\ wire = [p \in Peers |-> <<>>]
      /\ job = [p \in Peers |-> Idle] /\ rcv = [p \in Peers |-> Reading]
      /\ ended = [p \in Peers |-> "no"] /\ salts = 0
      /\ sent = [p \in Peers |-> <<>>] /\ got = [p \in Peers |-> <<>>]
      /\ port \in {"python", "c"} /\ attempts = NotCalled
  BY DEF CInit, Init, InitWith
<1>2. Keyed
  BY <1>1 DEF Keyed
<1>3. Carried
  BY <1>1 DEF Carried
<1>4. Idle \in Jobs /\ Idle.op = "none"
  BY DEF Jobs, Idle
<1>5. "no" \in Reasons
  BY DEF Reasons
<1>6. Working
  BY <1>1, <1>4, <1>5, InitScripts, ReadingTyped DEF Working
<1>7. Paced
  <2>1. \A p \in Peers : Len(wire[Other(p)]) = 0
    BY <1>1, OtherFacts
  <2>2. 0 <= Cap /\ 0 <= Cap + 1
    BY TcpSessionAssumption
  <2>3. QED
    BY <2>1, <2>2 DEF Paced
<1>8. Told
  BY <1>1 DEF Told
<1>9. OnePort
  <2>1. /\ rcv["B"].pong = FALSE /\ job["B"].op = "none" /\ rcv["B"].ctrl = 0
    BY <1>1, <1>4, ReadingTyped, BIsPeer
  <2>2. QED
    BY <1>1, <2>1, TcpSessionAssumption DEF OnePort
<1>10. Counted
  <2>1. ASSUME NEW p \in Peers PROVE Len(sent[p]) + Sends(script[p]) <= MaxMsgs
    <3>1. Sends(script[p]) <= MaxMsgs /\ script[p] \in Seq(Operations) /\ Len(sent[p]) = 0
      BY <1>1, InitScripts
    <3>2. Sends(script[p]) \in Nat
      BY <3>1, SendsFacts
    <3>3. QED
      BY <3>1, <3>2
  <2>2. QED
    BY <2>1 DEF Counted
<1>11. QED
  BY <1>2, <1>3, <1>6, <1>7, <1>8, <1>9, <1>10 DEF Typed

LEMMA InitIInv == CInit => IInv
<1>1. SUFFICES ASSUME CInit PROVE IInv
  OBVIOUS
<1>2. Typed /\ Counted
  BY <1>1, InitTyped
<1>3. \A p \in Peers : /\ gen[p] = <<>> /\ tx_seq[p] = 0 /\ rx_seq[p] = 0 /\ wire[p] = <<>>
                       /\ job[p].op = "none" /\ rcv[p].asm = <<>> /\ ~rcv[p].pong
                       /\ ended[p] = "no" /\ sent[p] = <<>> /\ got[p] = <<>>
  BY <1>1 DEF CInit, Init, InitWith, Idle, Reading
<1>4. ASSUME NEW p \in Peers PROVE Composed(p) /\ Ordered(p) /\ Ends(p)
  <2>1. Composed(p) /\ Ends(p)
    BY <1>3 DEF Composed, Ends
  <2>2. PICK ss : ss = Stream(p)
    OBVIOUS
  <2>3. /\ DOMAIN ss = {1} /\ ss[1] = <<>>
    BY <1>3, <2>2, OtherFacts DEF Stream
  <2>4. InOrder(ss) /\ \A d : ~Holds(ss, d)
    BY <2>3 DEF InOrder, Holds
  <2>5. QED
    BY <1>3, <2>1, <2>2, <2>4, OtherFacts DEF Ordered
<1>5. Lined
  BY <1>4 DEF Lined
<1>6. Flows
  <2>1. ASSUME NEW q \in Peers PROVE Flowing(q)
    <3>1. PICK p : p = Other(q) /\ p \in Peers
      BY OtherFacts
    <3>2. ReadUpTo(q) = <<1, 0>> /\ WrittenUpTo(p) = <<1, 0>> /\ wire[q] = <<>>
      BY <1>3, <3>1 DEF ReadUpTo, WrittenUpTo
    <3>3. Path(MessageMoves, ReadUpTo(q), wire[q], WrittenUpTo(p))
      BY <3>2, PathEnds
    <3>4. QED
      BY <1>3, <3>1, <3>3 DEF Flowing
  <2>2. QED
    BY <2>1 DEF Flows
<1>7. ASSUME NEW q \in Peers PROVE Agreeing(q)
  <2>1. PICK p : p = Other(q) /\ p \in Peers
    BY OtherFacts
  <2>2. Reads(q) = <<<<>>, 0>> /\ Writes(p) = <<<<>>, 0>> /\ wire[q] = <<>>
    BY <1>3, <2>1 DEF Reads, Writes
  <2>3. Path(KeyMoves, Reads(q), wire[q], Writes(p))
    BY <2>2, PathEnds
  <2>4. QED
    BY <2>1, <2>3 DEF Agreeing
<1>8. Agrees
  <2>1. SUFFICES ASSUME RekeysAreQuiet, ~interrupts PROVE NoRekey \/ \E q \in Peers : Listens(q)
    BY <1>3 DEF Agrees
  <2>2. QuietScript(script)
    BY <1>1, <2>1, InitScripts DEF RekeysAreQuiet
  <2>3. \A q \in Peers : \A type : ~Carries(q, type)
    BY <1>3 DEF Carries
  <2>4. CASE \A p \in Peers : \A i \in DOMAIN script[p] : script[p][i].op # "rekey"
    BY <1>3, <1>7, <2>3, <2>4 DEF NoRekey, Calls
  <2>5. ASSUME NEW q \in Peers, script[q] = <<>>,
               \A i \in DOMAIN script[Other(q)] : script[Other(q)][i].op # "ping"
        PROVE  Listens(q)
    BY <1>3, <1>7, <2>3, <2>5, OtherFacts DEF Listens, Calls
  <2>6. QED
    BY <2>2, <2>4, <2>5 DEF QuietScript
<1>9. QED
  BY <1>2, <1>5, <1>6, <1>8 DEF IInv

LEMMA NextIInv == IInv /\ [CNext]_cvars => IInv'
<1>1. ASSUME IInv, CNext PROVE IInv'
  <2>1. Typed /\ Lined /\ Flows /\ Agrees /\ Typed' /\ Step /\ Counted'
    BY <1>1, NextKeeps DEF IInv, Kept
  <2>2. Lined'
    BY <2>1, LinedKept
  <2>3. Flows'
    BY <2>1, FlowsKept
  <2>4. Agrees'
    BY <2>1, AgreesKept
  <2>5. QED
    BY <2>1, <2>2, <2>3, <2>4 DEF IInv
<1>2. ASSUME IInv, UNCHANGED cvars PROVE IInv'
  <2>1. UNCHANGED <<script, gen, tx_seq, rx_seq, wire, job>>
        /\ UNCHANGED <<rcv, ended, interrupts, salts, sent, got>> /\ UNCHANGED <<port, attempts>>
    BY <1>2 DEF cvars, vars
  <2>2. Typed'
    BY <1>2, <2>1 DEF IInv, Typed, Keyed, Carried, Working, Paced, Told, OnePort
  <2>3. Rested
    BY <2>1 DEF Rested, JobKept
  <2>4. Typed /\ Lined /\ Flows /\ Agrees /\ Step /\ Counted'
    BY <1>2, <2>1, <2>3 DEF IInv, Step, Counted
  <2>5. QED
    BY <2>2, <2>4, LinedKept, FlowsKept, AgreesKept DEF IInv
<1>3. QED
  BY <1>1, <1>2

(* The invariant holds in every behaviour of either port. *)
THEOREM Invariant == CSpec => []IInv
  BY InitIInv, NextIInv, PTL DEF CSpec

-----------------------------------------------------------------------------
(* What follows from it                                                      *)

LEMMA GotFacts ==
    ASSUME Typed, Lined, NEW p \in Peers
    PROVE  Len(got[p]) <= Len(sent[p])
<1>1. /\ got[p] \in Seq(Seq(Fragments)) /\ sent[p] \in Seq(Seq(Fragments))
      /\ Len(got[p]) \in Nat /\ Len(sent[p]) \in Nat
      /\ \A k \in DOMAIN got[p] : k \in DOMAIN Stream(p) /\ Stream(p)[k] = got[p][k]
                                  /\ got[p][k] \in Seq(Fragments)
  BY StreamTyped
<1>2. CASE Len(got[p]) = 0
  BY <1>1, <1>2
<1>3. CASE Len(got[p]) # 0
  <2>1. PICK k : k = Len(got[p])
    OBVIOUS
  <2>2. k = Len(got[p]) /\ k \in DOMAIN got[p] /\ k \in Nat
    BY <1>1, <1>3, <2>1
  <2>3. PICK m : m = got[p][k] /\ m \in Seq(Fragments) /\ m # <<>>
    BY <1>1, <2>2 DEF Lined, Ends
  <2>4. PICK i : i = Len(m) /\ i \in DOMAIN m
    BY <2>3
  <2>5. PICK d : d = m[i] /\ d[2] >= k
    BY <2>2, <2>3, <2>4 DEF Lined, Ends
  <2>6. Holds(Stream(p), d)
    BY <1>1, <2>2, <2>3, <2>4, <2>5 DEF Holds
  <2>7. d[2] \in DOMAIN sent[p]
    BY <2>6 DEF Lined, Ordered, Emitted
  <2>8. QED
    BY <1>1, <2>2, <2>5, <2>7
<1>4. QED
  BY <1>2, <1>3

LEMMA TypedFacts == IInv => CTypeOK
<1>1. SUFFICES ASSUME IInv PROVE CTypeOK
  OBVIOUS
<1>2. Typed /\ Lined
  BY <1>1 DEF IInv
<1>3. ASSUME NEW p \in Peers
      PROVE  /\ tx_seq[p] \in Nat /\ rx_seq[p] \in Nat
             /\ gen[p] \in Seq(1 .. salts)
             /\ Len(wire[p]) <= Cap + 1 \/ interrupts
             /\ Len(rcv[p].asm) < MaxFrags
             /\ job[p] # Idle => job[p].paused \in BOOLEAN
             /\ Len(got[p]) <= Len(sent[p])
  <2>1. tx_seq[p] \in Nat /\ rx_seq[p] \in Nat
    BY <1>2 DEF Typed, Keyed
  <2>2. gen[p] \in Seq(1 .. salts)
    <3>1. gen[p] \in Seq(Salts) /\ salts \in Nat /\ \A i \in DOMAIN gen[p] : gen[p][i] <= salts
      BY <1>2 DEF Typed, Keyed
    <3>2. \A i \in DOMAIN gen[p] : gen[p][i] \in 1 .. salts
      BY <3>1 DEF Salts
    <3>3. QED
      BY <3>1, <3>2
  <2>3. Len(wire[p]) <= Cap + 1 \/ interrupts
    <3>1. Other(p) \in Peers /\ Other(Other(p)) = p
      BY OtherFacts
    <3>2. QED
      BY <1>2, <3>1 DEF Typed, Paced
  <2>4. Len(rcv[p].asm) < MaxFrags
    BY <1>2, RcvFacts
  <2>5. job[p] # Idle => job[p].paused \in BOOLEAN
    BY <1>2, JobFacts
  <2>6. QED
    BY <1>2, <2>1, <2>2, <2>3, <2>4, <2>5, GotFacts
<1>4. TypeOK
  BY <1>2, <1>3, StatesTyped DEF TypeOK
<1>5. port = "c" /\ ended["B"] = "no" => rcv["B"].ctrl \in 0 .. CtrlLimit
  <2>1. rcv["B"].ctrl \in Nat /\ CtrlLimit \in Nat
    BY <1>2, RcvFacts, BIsPeer, TcpSessionAssumption
  <2>2. QED
    BY <1>2, <2>1 DEF Typed, OnePort
<1>6. QED
  BY <1>2, <1>4, <1>5 DEF CTypeOK, Typed, OnePort

(* The types of a session over TCP, Python with Python or with the device in *)
(* C: among them that a stream holds at most one frame more than its         *)
(* high-water mark, that a partial message stays below the most fragments a  *)
(* message may have, and that no more messages are received than were sent.  *)
THEOREM TypeCorrect == CSpec => []CTypeOK
  BY Invariant, TypedFacts, PTL

LEMMA OrderFacts == IInv => FragmentsInOrder
<1>1. SUFFICES ASSUME IInv, NEW p \in Peers PROVE InOrder(got[p])
  BY DEF FragmentsInOrder
<1>2. Typed /\ InOrder(Stream(p))
  BY <1>1 DEF IInv, Lined, Ordered
<1>3. \A k \in DOMAIN got[p] : k \in DOMAIN Stream(p) /\ Stream(p)[k] = got[p][k]
  BY <1>2, StreamTyped
<1>4. QED
  BY <1>2, <1>3 DEF InOrder

(* Whatever is cancelled, cut short by a timeout or torn on the way, the     *)
(* fragments that the two applications are given come in the order they were *)
(* sent, none twice.                                                         *)
THEOREM InSendingOrder == CSpec => []FragmentsInOrder
  BY Invariant, OrderFacts, PTL

(* If nothing is interrupted, and keys are rotated only while the other side *)
(* only listens and is not asked to answer a PING, no frame ever fails to    *)
(* fit the state of its receiver.                                            *)
THEOREM NeverBroken == ASSUME RekeysAreQuiet PROVE CSpec => []StaysUp
<1>1. IInv => StaysUp
  BY DEF IInv, Agrees, StaysUp
<1>2. QED
  BY <1>1, Invariant, PTL

-----------------------------------------------------------------------------
(* The session is a channel, if nothing is interrupted                       *)

(* The messages that the two applications may send. *)
LEMMA SentIsMessage ==
    ASSUME IInv, Typed', Counted', NEW p \in Peers, NEW n \in 1 .. MaxFrags, NEW m,
           m = Message(p, Len(sent[p]) + 1, n), sent' = [sent EXCEPT ![p] = Append(sent[p], m)],
           ~interrupts, ~interrupts', UNCHANGED got
    PROVE  Chan!Send(p)
<1>1. /\ sent \in [Peers -> Seq(Seq(Fragments))] /\ sent[p] \in Seq(Seq(Fragments))
      /\ Len(sent[p]) \in Nat
  BY DEF IInv, Typed, Told
<1>2. PICK k : k = Len(sent[p]) + 1 /\ k \in Nat /\ k >= 1
  BY <1>1
<1>3. sent'[p] = Append(sent[p], m)
  BY <1>1
<1>4. Len(sent'[p]) = k
  <2>1. m \in Seq(Fragments)
    BY <1>2, MessageFacts
  <2>2. QED
    BY <1>1, <1>2, <1>3, <2>1
<1>5. Sends(script'[p]) \in Nat /\ Len(sent'[p]) + Sends(script'[p]) <= MaxMsgs
  <2>1. script'[p] \in Seq(Operations) /\ Len(sent'[p]) + Sends(script'[p]) <= MaxMsgs
    BY DEF Typed, Working, Counted
  <2>2. \A s \in Seq(Operations) : Sends(s) \in Nat
    BY SendsFacts
  <2>3. QED
    BY <2>1, <2>2
<1>6. k \in 1 .. MaxMsgs
  BY <1>2, <1>4, <1>5, ScriptsAssumption
<1>7. m = Message(p, k, n)
  BY <1>2
<1>8. m \in {Message(t[1], t[2], t[3]) : t \in Peers \X (1 .. MaxMsgs) \X (1 .. MaxFrags)}
  <2>1. PICK t : t = <<p, k, n>>
    OBVIOUS
  <2>2. t \in Peers \X (1 .. MaxMsgs) \X (1 .. MaxFrags) /\ m = Message(t[1], t[2], t[3])
    BY <1>6, <1>7, <2>1
  <2>3. QED
    BY <2>2
<1>9. Uninterrupted(got)' = Uninterrupted(got)
  BY DEF Uninterrupted
<1>10. Uninterrupted(sent)' = [Uninterrupted(sent) EXCEPT ![p] = Append(Uninterrupted(sent)[p], m)]
  BY DEF Uninterrupted
<1>11. QED
  BY <1>8, <1>9, <1>10, Zenon DEF Chan!Send

LEMMA GivenIsSent ==
    ASSUME IInv, Typed', Lined', Flows', NEW q \in Peers, TookMessage(q), ~interrupts, ~interrupts'
    PROVE  Chan!Receive(Other(q))
<1>1. PICK p : p = Other(q) /\ p \in Peers /\ q = Other(p)
  BY OtherFacts
<1>2. PICK m : m = Append(rcv[q].asm, Head(wire[q]).data)
  OBVIOUS
<1>3. got' = [got EXCEPT ![p] = Append(got[p], m)] /\ UNCHANGED sent
  BY <1>1, <1>2 DEF TookMessage, Took
<1>4. /\ got[p] \in Seq(Seq(Fragments)) /\ m \in Seq(Fragments) /\ Len(got[p]) \in Nat
      /\ got'[p] = Append(got[p], m) /\ sent[p] \in Seq(Seq(Fragments)) /\ Len(sent[p]) \in Nat
  <2>1. got \in [Peers -> Seq(Seq(Fragments))] /\ sent \in [Peers -> Seq(Seq(Fragments))]
    BY DEF IInv, Typed, Told
  <2>2. got'[p] = Append(got[p], m)
    BY <1>1, <1>3, <2>1
  <2>3. m \in Seq(Fragments)
    <3>1. Head(wire[q]) \in Frames /\ Typed
      BY WireFacts DEF IInv, TookMessage, Took
    <3>2. Head(wire[q]).data \in Fragments
      BY <3>1, FrameFacts DEF TookMessage, DataTypes
    <3>3. QED
      BY <1>2, <3>1, <3>2, RcvFacts
  <2>4. QED
    BY <1>1, <2>1, <2>2, <2>3
<1>5. PICK k : k = Len(got[p]) + 1
  OBVIOUS
<1>6. k \in DOMAIN got'[p] /\ got'[p][k] = m
  BY <1>4, <1>5
<1>7. k \in DOMAIN sent[p] /\ sent[p][k] = m
  <2>1. \A l \in DOMAIN got'[p] : l \in DOMAIN sent'[p] /\ got'[p][l] = sent'[p][l]
    <3>1. Flowing(q)'
      BY DEF Flows
    <3>2. QED
      BY <1>1, <3>1, OtherFacts DEF Flowing
  <2>2. QED
    BY <1>3, <1>6, <2>1
<1>8. Len(got[p]) < Len(sent[p])
  BY <1>4, <1>5, <1>7
<1>9. got' = [got EXCEPT ![p] = Append(got[p], sent[p][Len(got[p]) + 1])]
  BY <1>3, <1>5, <1>7
<1>10. /\ Uninterrupted(sent) = sent /\ Uninterrupted(sent)' = Uninterrupted(sent)
       /\ Uninterrupted(got) = got /\ Uninterrupted(got)' = got'
  BY <1>3 DEF Uninterrupted
<1>11. Chan!Receive(p)
  BY <1>8, <1>9, <1>10 DEF Chan!Receive
<1>12. QED
  BY <1>1, <1>11

(* Whatever else is done leaves the channel as it is. *)
LEMMA StepOfChannel ==
    ASSUME IInv, Typed', Lined', Flows', Counted', Step
    PROVE  [Chan!Next]_<<Uninterrupted(sent), Uninterrupted(got)>>
<1>1. interrupts' = interrupts
  BY InterruptsStay
<1>2. CASE interrupts
  <2>1. /\ Uninterrupted(sent) = [p \in Peers |-> <<>>]
        /\ Uninterrupted(got) = [p \in Peers |-> <<>>]
        /\ Uninterrupted(sent)' = [p \in Peers |-> <<>>]
        /\ Uninterrupted(got)' = [p \in Peers |-> <<>>]
    BY <1>1, <1>2 DEF Uninterrupted
  <2>2. QED
    BY <2>1
<1>3. CASE ~interrupts
  <2>1. ASSUME UNCHANGED <<sent, got>>
        PROVE  UNCHANGED <<Uninterrupted(sent), Uninterrupted(got)>>
    BY <1>1, <2>1 DEF Uninterrupted
  <2>2. ASSUME NEW p \in Peers, NEW f, WroteFirst(p, f)
        PROVE  Chan!Next
    <3>1. PICK n \in 1 .. MaxFrags :
                 sent' = [sent EXCEPT ![p] = Append(sent[p], Message(p, Len(sent[p]) + 1, n))]
      BY <2>2 DEF WroteFirst
    <3>2. UNCHANGED got
      BY <2>2 DEF WroteFirst, Wrote
    <3>3. Chan!Send(p)
      BY <1>1, <1>3, <3>1, <3>2, SentIsMessage
    <3>4. QED
      BY <3>3 DEF Chan!Next
  <2>3. ASSUME NEW q \in Peers, TookMessage(q)
        PROVE  Chan!Next
    <3>1. Chan!Receive(Other(q)) /\ Other(q) \in Peers
      BY <1>1, <1>3, <2>3, GivenIsSent, OtherFacts
    <3>2. QED
      BY <3>1 DEF Chan!Next
  <2>4. CASE \/ \E p \in Peers : \E f : WroteControl(p, f) \/ WroteNext(p, f)
             \/ \E q \in Peers : TookControl(q) \/ TookFragment(q) \/ Broke(q)
             \/ \E p \in Peers : Turned(p)
             \/ Rested
    <3>1. UNCHANGED <<sent, got>>
      BY <2>4 DEF WroteControl, WroteNext, Wrote, TookControl, TookFragment, Took, Broke,
                  Turned, Rested
    <3>2. QED
      BY <2>1, <3>1
  <2>5. QED
    BY <1>3, <2>2, <2>3, <2>4 DEF Step, Interrupted
<1>4. QED
  BY <1>2, <1>3

(* Without interruptions the session implements the channel: what an         *)
(* application receives are the messages its peer sent, whole, once and in   *)
(* order, whether the device runs the Python session or the C core.          *)
THEOREM Refinement == CSpec => ImplementsChannel
<1>1. CInit => Chan!Init
  <2>1. SUFFICES ASSUME CInit PROVE Chan!Init
    OBVIOUS
  <2>2. sent = [p \in Peers |-> <<>>] /\ got = [p \in Peers |-> <<>>]
    BY <2>1 DEF CInit, Init, InitWith
  <2>3. QED
    BY <2>2 DEF Chan!Init, Uninterrupted
<1>2. IInv /\ [CNext]_cvars => [Chan!Next]_<<Uninterrupted(sent), Uninterrupted(got)>>
  <2>1. ASSUME IInv, CNext
        PROVE  [Chan!Next]_<<Uninterrupted(sent), Uninterrupted(got)>>
    <3>1. Typed' /\ Step /\ Counted' /\ Typed /\ Lined /\ Flows
      BY <2>1, NextKeeps DEF Kept, IInv
    <3>2. Lined' /\ Flows'
      BY <3>1, LinedKept, FlowsKept
    <3>3. QED
      BY <2>1, <3>1, <3>2, StepOfChannel
  <2>2. ASSUME UNCHANGED cvars
        PROVE  UNCHANGED <<Uninterrupted(sent), Uninterrupted(got)>>
    BY <2>2 DEF cvars, vars, Uninterrupted
  <2>3. QED
    BY <2>1, <2>2
<1>3. QED
  BY <1>1, <1>2, Invariant, PTL DEF CSpec, ImplementsChannel, Chan!Spec
=============================================================================
