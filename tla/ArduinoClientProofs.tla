------------------------ MODULE ArduinoClientProofs ------------------------
(* A session of USMPClient can always be used, its transport contexts are    *)
(* never leaked nor used after they were freed, the server's watchdog spares *)
(* it, and its messages and the news of it reach the sketch, for any number  *)
(* of contexts, timers and bounds and any sketches.                          *)
EXTENDS ArduinoClient, SequenceTheorems, TLAPS

StackFrames == Handlers \union Handshakes \union {"drain", "read", "dispatch", "return"}
Frames == Messages \union {"PING", "LAST"}

(* A handshake, and a handler that reports a loss, is only ever the next to  *)
(* run; the tail of maintain() is the last.                                  *)
Tops == Handshakes \union {"onDisconnect"}

DispatchLast(st) == \A i \in DOMAIN st : st[i] = "dispatch" => i = Len(st)

Stacked ==
    /\ DispatchLast(stack)
    /\ stack # <<>> => Range(Tail(stack)) \cap Tops = {}

Shaking == stack # <<>> /\ Head(stack) \in Handshakes

(* The client owns what it uses: as long as it has a context, in own, link   *)
(* points to it and no other is on the heap; without one it is not           *)
(* initialized and there is neither a session nor a handshake; and what is   *)
(* established has keys and an armed socket. *)
Owned ==
    /\ link = None => ~established /\ ~Shaking
    /\ ~strayed =>
         /\ own # None => link = own
         /\ initialized \/ established \/ Shaking => own # None
         /\ established => keyed /\ heap[link] = "armed"
         /\ \A c \in Contexts : heap[c] # "free" <=> c = own
         /\ ~misuse

IInv == TypeOK /\ Stacked /\ Owned

(* The type of what the calls change, and of the rest but the stack.         *)
Core ==
    /\ established \in BOOLEAN /\ keyed \in BOOLEAN /\ initialized \in BOOLEAN
    /\ full \in BOOLEAN /\ net \in BOOLEAN /\ peer \in BOOLEAN /\ unread \in BOOLEAN
    /\ hasty \in BOOLEAN /\ steady \in BOOLEAN /\ strayed \in BOOLEAN /\ misuse \in BOOLEAN
    /\ link \in Contexts \union {None} /\ own \in Contexts \union {None}
    /\ heap \in [Contexts -> {"free", "dialled", "armed"}]
    /\ backoff \in 1 .. Longest /\ since \in 0 .. Longest
    /\ idle \in 0 .. KeepAlive /\ quiet \in 0 .. Timeout + 1
    /\ answer \in {"coming", "doubtful", "lost"}
    /\ buf \in Messages \union {None} /\ owed \subseteq Messages
    /\ Len(inbox) <= InboxCap /\ inbox \in Seq(Frames)

Program ==
    /\ begun \in BOOLEAN /\ looped \in BOOLEAN /\ told \in BOOLEAN
    /\ held \in Messages \union {None}
    /\ sketch \in Sketches

LEMMA TypeParts == TypeOK <=> Core /\ Program /\ stack \in Seq(StackFrames)
BY DEF TypeOK, Core, Program, StackFrames, Frames

LEMMA TypePartsNext ==
    ASSUME Core', Program', stack' \in Seq(StackFrames) PROVE TypeOK'
BY DEF TypeOK, Core, Program, StackFrames, Frames

LEMMA Constants ==
    /\ None \notin Contexts /\ None \notin Messages
    /\ BackoffCap \in Nat \ {0} /\ KeepAlive \in Nat \ {0} /\ Timeout \in Nat
    /\ KeepAlive < Timeout /\ InboxCap \in Nat \ {0}
BY ArduinoAssumption DEF ArduinoAssumption

LEMMA Pushed ==
    ASSUME NEW k \in Seq(StackFrames), NEW f \in StackFrames, NEW g \in StackFrames
    PROVE  /\ <<f>> \o k \in Seq(StackFrames) /\ <<f, g>> \o k \in Seq(StackFrames)
           /\ <<f>> \in Seq(StackFrames) /\ <<f, g>> \in Seq(StackFrames)
<1>1. <<f>> \in Seq(StackFrames) /\ <<f, g>> \in Seq(StackFrames)
  OBVIOUS
<1> QED
  BY <1>1

LEMMA Empty == \A S : <<>> \in Seq(S) /\ Len(<<>>) = 0
OBVIOUS

LEMMA InitIInv == Init => IInv
<1> SUFFICES ASSUME Init PROVE IInv
  OBVIOUS
<1>1. Core
  <2>1. inbox \in Seq(Frames) /\ Len(inbox) <= InboxCap
    BY Constants, Empty DEF Init
  <2>2. backoff \in 1 .. Longest /\ since \in 0 .. Longest /\ idle \in 0 .. KeepAlive
        /\ quiet \in 0 .. Timeout + 1
    BY Constants DEF Init, Longest
  <2> QED
    BY <2>1, <2>2 DEF Init, Core
<1>2. Owned
  BY Constants DEF Init, Owned, Shaking
<1>3. Stacked
  BY DEF Init, Stacked, DispatchLast
<1> QED
  <2>1. Program /\ stack \in Seq(StackFrames)
    BY Empty DEF Init, Program
  <2> QED
    BY <1>1, <1>2, <1>3, <2>1, TypeParts DEF IInv

-----------------------------------------------------------------------------
(* Types                                                                     *)

LEMMA Losing ==
    ASSUME IInv, Loses
    PROVE  /\ ~established' /\ established' \in BOOLEAN /\ hasty' \in BOOLEAN
           /\ inbox' \in Seq(Frames) /\ Len(inbox') <= InboxCap
<1>1. established' = FALSE /\ inbox' = <<>> /\ hasty' = IF established THEN Due ELSE hasty
  BY DEF Loses
<1>2. hasty \in BOOLEAN
  BY TypeParts DEF IInv, Core
<1>3. Due \in BOOLEAN
  BY Zenon DEF Due
<1>4. hasty' \in BOOLEAN
  BY <1>1, <1>2, <1>3, Zenon
<1>5. inbox' \in Seq(Frames) /\ Len(inbox') <= InboxCap
  <2>1. Len(inbox') = 0 /\ inbox' \in Seq(Frames)
    BY <1>1, Empty
  <2> QED
    BY <2>1, Constants
<1> QED
  BY <1>1, <1>4, <1>5

LEMMA ForgettingTyped ==
    ASSUME IInv, \/ Forgets
                 \/ UNCHANGED <<peer, heard, steady>>
    PROVE  /\ peer' \in BOOLEAN /\ unread' \in BOOLEAN /\ steady' \in BOOLEAN
           /\ quiet' \in 0 .. Timeout + 1
<1>1. CASE Forgets
  <2>1. peer' \in BOOLEAN /\ unread' \in BOOLEAN /\ steady' \in BOOLEAN /\ quiet' = 0
    BY <1>1, Zenon DEF Forgets
  <2>2. 0 \in 0 .. Timeout + 1
    BY Constants
  <2> QED
    BY <2>1, <2>2, Zenon
<1>2. CASE UNCHANGED <<peer, heard, steady>>
  BY <1>2, TypeParts DEF IInv, Core, heard
<1> QED
  BY <1>1, <1>2

LEMMA Misusing == ASSUME misuse' = (misuse \/ Freed(link)) PROVE misuse' \in BOOLEAN
BY Zenon DEF Freed

LEMMA EmitsTyped ==
    ASSUME IInv, Emits, inbox' \in Seq(Frames), Len(inbox') <= InboxCap PROVE Core'
<1>1. misuse' \in BOOLEAN /\ unread' \in BOOLEAN
  BY Misusing, TypeParts DEF IInv, Core, Emits
<1>2. idle' \in 0 .. KeepAlive
  BY Constants DEF Emits
<1>3. UNCHANGED <<established, hasty, keyed, link, own, heap, initialized, backoff, since, full,
                  buf, owed, net, peer, quiet, answer, steady, strayed>>
  BY DEF Emits, session, context, timer, rx
<1> QED
  BY <1>1, <1>2, <1>3, TypeParts DEF IInv, Core

LEMMA EmitFailsTyped == ASSUME IInv, EmitFails PROVE Core'
<1>1. Loses /\ misuse' \in BOOLEAN
  BY Misusing DEF EmitFails
<1>2. idle' \in 0 .. KeepAlive
  BY Constants DEF EmitFails
<1>3. UNCHANGED <<keyed, link, own, heap, initialized, backoff, since, full, buf, owed,
                  net, peer, unread, quiet, answer, steady, strayed>>
  BY DEF EmitFails, context, timer, rx, heard
<1> QED
  BY <1>1, <1>2, <1>3, Losing, TypeParts DEF IInv, Core

LEMMA RedialsTyped ==
    ASSUME IInv, Redials \/ RedialFails,
           strayed' \in BOOLEAN, backoff' \in 1 .. Longest, since' \in 0 .. Longest
    PROVE  Core'
<1>1. /\ established' \in BOOLEAN /\ hasty' \in BOOLEAN /\ keyed' \in BOOLEAN
      /\ inbox' \in Seq(Frames) /\ Len(inbox') <= InboxCap
      /\ heap' \in [Contexts -> {"free", "dialled", "armed"}] /\ misuse' \in BOOLEAN
  <2>1. CASE HangsUp
    <3>1. Loses /\ keyed' = FALSE /\ misuse' \in BOOLEAN
      BY <2>1, Misusing DEF HangsUp
    <3>2. heap' \in [Contexts -> {"free", "dialled", "armed"}]
      BY <2>1, TypeParts DEF HangsUp, IInv, Core
    <3> QED
      BY <3>1, <3>2, Losing
  <2>2. CASE keyed' = FALSE /\ UNCHANGED <<established, hasty, inbox, heap, misuse>>
    BY <2>2, TypeParts DEF IInv, Core
  <2> QED
    BY <2>1, <2>2 DEF Redials, RedialFails
<1>2. answer' \in {"coming", "doubtful", "lost"}
  BY TypeParts DEF IInv, Core, Redials, RedialFails, Expected
<1>3. UNCHANGED <<link, own, initialized, idle, full, buf, owed, net, peer, unread, quiet, steady>>
  BY DEF Redials, RedialFails, rx, heard
<1> QED
  BY <1>1, <1>2, <1>3, TypeParts DEF IInv, Core

LEMMA SendTyped == ASSUME IInv, NEW k, NEW said, Send(k, said) PROVE Core'
<1>1. CASE Emits /\ UNCHANGED inbox
  BY <1>1, EmitsTyped, TypeParts DEF IInv, Core
<1>2. CASE EmitFails
  BY <1>2, EmitFailsTyped
<1>3. CASE UNCHANGED <<session, timer, idle, rx, server, heard, answer, flags>>
  BY <1>3, TypeParts DEF IInv, Core, session, context, timer, rx, server, heard, flags
<1> QED
  BY <1>1, <1>2, <1>3 DEF Send

LEMMA CloseTyped == ASSUME IInv, NEW k, Close(k) PROVE Core'
<1>1. Loses /\ keyed' = FALSE /\ misuse' \in BOOLEAN
  BY Misusing DEF Close
<1>2. \/ Forgets
      \/ UNCHANGED <<peer, heard, steady>>
  BY DEF Close
<1>3. /\ strayed' \in BOOLEAN /\ own' = None /\ full' = FALSE /\ owed' = {}
      /\ initialized' = FALSE /\ heap' \in [Contexts -> {"free", "dialled", "armed"}]
  <2>1. strayed' \in BOOLEAN
    BY Zenon DEF Close, Closed
  <2> QED
    BY <2>1, TypeParts DEF Close, IInv, Core
<1>4. UNCHANGED <<link, backoff, since, idle, buf, net, answer>>
  BY DEF Close, timer
<1> QED
  BY <1>1, <1>2, <1>3, <1>4, Losing, ForgettingTyped, TypeParts DEF IInv, Core

LEMMA CallTyped ==
    ASSUME IInv, NEW c, NEW k \in Seq(StackFrames), NEW said \in BOOLEAN, Call(c, k, said)
    PROVE  Core' /\ stack' \in Seq(StackFrames) /\ told' \in BOOLEAN
<1>1. CASE Send(k, said)
  <2>1. stack' \in Seq(StackFrames) /\ told' \in BOOLEAN
    BY <1>1, Pushed DEF Send, StackFrames, Handlers
  <2> QED
    BY <1>1, <2>1, SendTyped
<1>2. CASE Read(k, said)
  <2>1. stack' \in Seq(StackFrames) /\ told' \in BOOLEAN
    BY <1>2, Pushed DEF Read, StackFrames
  <2>2. Core'
    BY <1>2, TypeParts DEF Read, IInv, Core, session, context, timer, rx, server, heard, flags
  <2> QED
    BY <2>1, <2>2
<1>3. CASE Reconnect(k, said)
  <2>1. stack' \in Seq(StackFrames) /\ told' \in BOOLEAN
    BY <1>3, Pushed DEF Reconnect, StackFrames, Handshakes
  <2>2. strayed' \in BOOLEAN
    BY <1>3, Zenon DEF Reconnect, Closed
  <2>3. backoff' \in 1 .. Longest /\ since' \in 0 .. Longest
    BY <1>3, TypeParts DEF Reconnect, IInv, Core, timer
  <2> QED
    BY <1>3, <2>1, <2>2, <2>3, RedialsTyped DEF Reconnect
<1>4. CASE Close(k)
  <2>1. stack' = k /\ told' = FALSE
    BY <1>4 DEF Close
  <2> QED
    BY <1>4, <2>1, CloseTyped
<1> QED
  BY <1>1, <1>2, <1>3, <1>4 DEF Call

(* A step that runs the head of the stack, or leaves it alone.               *)
LEMMA Popped ==
    ASSUME IInv, stack # <<>>
    PROVE  Tail(stack) \in Seq(StackFrames) /\ Head(stack) \in StackFrames
BY TypeParts DEF IInv

LEMMA BeginTyped == ASSUME IInv, BeginFailsToDial \/ BeginDials PROVE TypeOK'
<1> USE TypeParts, TypePartsNext DEF IInv
<1>1. Program'
  BY DEF BeginFailsToDial, BeginDials, Begins, Program
<1>2. strayed' \in BOOLEAN
  BY Zenon DEF BeginFailsToDial, BeginDials, Begins
<1>3. UNCHANGED <<initialized, backoff, since, idle, full, buf, owed, net, peer, unread, quiet,
                  steady, misuse>>
  BY DEF BeginFailsToDial, BeginDials, Begins, timer, rx, heard
<1>4. CASE BeginFailsToDial
  <2>1. own' \in Contexts \union {None}
        /\ UNCHANGED <<established, hasty, keyed, link, heap, inbox, stack, answer>>
    BY <1>4 DEF BeginFailsToDial, Core
  <2> QED
    BY <1>1, <1>2, <1>3, <2>1 DEF Core
<1>5. CASE BeginDials
  <2>1. /\ link' \in Contexts /\ own' \in Contexts
        /\ heap' \in [Contexts -> {"free", "dialled", "armed"}]
    BY <1>5 DEF BeginDials, Core
  <2>2. Loses /\ keyed' = FALSE /\ answer' \in {"coming", "doubtful", "lost"}
    BY <1>5 DEF BeginDials, Expected
  <2>3. stack' \in Seq(StackFrames)
    BY <1>5, Pushed, Empty DEF BeginDials, StackFrames, Handshakes
  <2> QED
    BY <1>1, <1>2, <1>3, <2>1, <2>2, <2>3, Losing DEF Core
<1> QED
  BY <1>4, <1>5

LEMMA MaintainTyped == ASSUME IInv, Maintain PROVE TypeOK'
<1> USE TypeParts, TypePartsNext DEF IInv
<1>1. Round /\ Program' /\ stack = <<>> /\ strayed' \in BOOLEAN
  BY DEF Maintain, MaintainWaits, MaintainReconnects, MaintainPings, MaintainReads, Round, Idle,
         Program, Core
<1>2. CASE MaintainWaits
  <2>1. Core'
    BY <1>1, <1>2 DEF MaintainWaits, Round, Core, session, context, timer, rx, server, heard
  <2> QED
    BY <1>1, <1>2, <2>1 DEF MaintainWaits
<1>3. CASE MaintainReconnects
  <2>1. backoff' \in 1 .. Longest /\ since' \in 0 .. Longest
    <3>1. since' = 0 /\ backoff' \in {backoff, Longer}
      BY <1>3 DEF MaintainReconnects
    <3>2. backoff \in 1 .. Longest
      BY DEF Core
    <3> QED
      BY <3>1, <3>2, Constants DEF Longest, Longer
  <2>2. stack' \in Seq(StackFrames)
    BY <1>1, <1>3, Pushed, Empty DEF MaintainReconnects, StackFrames, Handshakes
  <2> QED
    BY <1>1, <1>3, <2>1, <2>2, RedialsTyped DEF MaintainReconnects
<1>4. CASE MaintainPings
  <2>1. stack' \in Seq(StackFrames)
    BY <1>4, Pushed, Empty DEF MaintainPings, StackFrames, Handlers
  <2>2. CASE Emits /\ UNCHANGED inbox
    <3>1. Core'
      BY <2>2, EmitsTyped DEF Core
    <3> QED
      BY <1>1, <2>1, <3>1
  <2>3. CASE EmitFails
    BY <1>1, <2>1, <2>3, EmitFailsTyped
  <2> QED
    BY <1>4, <2>2, <2>3 DEF MaintainPings
<1>5. CASE MaintainReads
  <2>1. stack' \in Seq(StackFrames)
    BY <1>5, Pushed, Empty DEF MaintainReads, StackFrames
  <2>2. Core'
    BY <1>1, <1>5 DEF MaintainReads, Round, Core, session, context, timer, rx, server, heard
  <2> QED
    BY <1>1, <2>1, <2>2
<1> QED
  BY <1>2, <1>3, <1>4, <1>5 DEF Maintain

LEMMA HandshakeTyped ==
    ASSUME IInv, BeginSucceeds \/ RedialSucceeds \/ HandshakeFails PROVE TypeOK'
<1> USE TypeParts, TypePartsNext DEF IInv
<1>1. /\ stack # <<>> /\ answer' = "coming" /\ UNCHANGED <<sketch, begun, looped, held>>
      /\ Tail(stack) \in Seq(StackFrames)
  BY Popped DEF BeginSucceeds, RedialSucceeds, HandshakeFails, HandshakeSucceeds, HandshakeEnds,
                InHandshake, Running
<1>2. CASE BeginSucceeds \/ RedialSucceeds
  <2>1. Established /\ UNCHANGED <<buf, told>>
    BY <1>2 DEF BeginSucceeds, RedialSucceeds, HandshakeSucceeds
  <2>2. /\ established' = TRUE /\ keyed' = TRUE /\ hasty' = FALSE /\ peer' = TRUE
        /\ unread' = FALSE /\ steady' = TRUE /\ idle' = 0 /\ quiet' = 0 /\ inbox' = <<>>
        /\ heap' \in [Contexts -> {"free", "dialled", "armed"}]
        /\ UNCHANGED <<link, own, net, strayed, misuse>>
    BY <2>1 DEF Established, Core
  <2>3. /\ initialized' \in BOOLEAN /\ full' \in BOOLEAN /\ owed' \subseteq Messages
        /\ stack' \in Seq(StackFrames)
    BY <1>1, <1>2, Pushed DEF BeginSucceeds, RedialSucceeds, StackFrames, Handlers, Core
  <2>4. backoff' \in 1 .. Longest /\ since' \in 0 .. Longest
    <3>1. backoff' \in {1, backoff} /\ since' \in {0, Longest, since}
      BY <1>2 DEF BeginSucceeds, RedialSucceeds
    <3>2. backoff \in 1 .. Longest /\ since \in 0 .. Longest
      BY DEF Core
    <3> QED
      BY <3>1, <3>2, Constants DEF Longest
  <2>5. inbox' \in Seq(Frames) /\ Len(inbox') <= InboxCap /\ idle' \in 0 .. KeepAlive
        /\ quiet' \in 0 .. Timeout + 1
    BY <2>2, Empty, Constants
  <2>6. Core'
    BY <1>1, <2>1, <2>2, <2>3, <2>4, <2>5 DEF Core
  <2>7. Program'
    BY <1>1, <2>1 DEF Program
  <2> QED
    BY <2>3, <2>6, <2>7
<1>3. CASE HandshakeFails
  <2>1. backoff' \in 1 .. Longest
    <3>1. backoff' \in {backoff, Longer}
      BY <1>3 DEF HandshakeFails
    <3>2. backoff \in 1 .. Longest
      BY DEF Core
    <3> QED
      BY <3>1, <3>2, Constants DEF Longest, Longer
  <2>2. stack' = Tail(stack)
        /\ UNCHANGED <<established, hasty, keyed, link, own, heap, initialized, since, idle, full,
                       buf, owed, net, peer, inbox, unread, quiet, steady, strayed, misuse>>
    BY <1>3 DEF HandshakeFails, session, context, rx, server, heard, flags
  <2>3. told' \in BOOLEAN
    BY <1>3, Zenon DEF HandshakeFails
  <2>4. Core'
    BY <1>1, <2>1, <2>2 DEF Core
  <2>5. Program'
    BY <1>1, <2>3 DEF Program
  <2> QED
    BY <1>1, <2>2, <2>4, <2>5
<1> QED
  BY <1>2, <1>3

LEMMA HandlerTyped == ASSUME IInv, Handler PROVE TypeOK'
<1> USE TypeParts, TypePartsNext DEF IInv
<1> DEFINE after == IF Head(stack) = "onMessage" THEN <<"return">> \o Tail(stack) ELSE Tail(stack)
           said == CASE Head(stack) = "onConnect" -> TRUE
                     [] Head(stack) = "onDisconnect" -> FALSE
                     [] OTHER -> told
<1>1. after \in Seq(StackFrames) /\ said \in BOOLEAN
  <2>1. said \in {TRUE, FALSE, told} /\ told \in BOOLEAN
    BY DEF Program
  <2> QED
    BY <2>1, Popped, Pushed DEF Handler, Running, StackFrames
<1>2. sketch' \in Sketches /\ begun' \in BOOLEAN /\ looped' \in BOOLEAN
  BY DEF Handler, Program
<1>3. CASE /\ stack' = after /\ told' = said
           /\ UNCHANGED <<session, timer, idle, rx, server, heard, answer, flags, held>>
  <2>1. Core'
    BY <1>3 DEF Core, session, context, timer, rx, server, heard, flags
  <2>2. Program'
    BY <1>1, <1>2, <1>3 DEF Program
  <2> QED
    BY <1>1, <1>3, <2>1, <2>2
<1>4. CASE \E c \in sketch.calls[Head(stack)] :
             Call(c, after, said) /\ held' = IF c = "read" THEN None ELSE held
  <2>1. Core' /\ stack' \in Seq(StackFrames) /\ told' \in BOOLEAN
    BY <1>1, <1>4, CallTyped
  <2>2. held' \in Messages \union {None}
    BY <1>4 DEF Program
  <2> QED
    BY <1>2, <2>1, <2>2 DEF Program
<1> QED
  BY <1>3, <1>4 DEF Handler

LEMMA RunsTyped == ASSUME IInv, Runs PROVE TypeOK'
<1> USE TypeParts, TypePartsNext DEF IInv
<1>1. CASE DrainEnds \/ TakeMessage \/ Return
  <2>1. Tail(stack) \in Seq(StackFrames)
    BY <1>1, Popped DEF DrainEnds, TakeMessage, Return, At, Running
  <2>2. stack' \in Seq(StackFrames)
    BY <1>1, <2>1 DEF DrainEnds, TakeMessage, Return
  <2>3. Core'
    <3>1. full' \in BOOLEAN /\ owed' \subseteq Messages
      BY <1>1 DEF DrainEnds, TakeMessage, Return, Core, rx
    <3>2. UNCHANGED <<session, timer, idle, buf, server, heard, answer, flags>>
      BY <1>1 DEF DrainEnds, TakeMessage, Return, rx
    <3> QED
      BY <3>1, <3>2 DEF Core, session, context, timer, server, heard, flags
  <2>4. Program'
    BY <1>1 DEF DrainEnds, TakeMessage, Return, Program, app
  <2> QED
    BY <2>2, <2>3, <2>4
<1>2. CASE DrainMessage
  <2>1. Tail(stack) \in Seq(StackFrames)
    BY <1>2, Popped DEF DrainMessage, At, Running
  <2>2. Tail(inbox) \in Seq(Frames) /\ Len(Tail(inbox)) <= InboxCap
    BY <1>2, Constants DEF DrainMessage, Drains, Core
  <2>3. Core'
    <3>1. full' = TRUE /\ buf' \in Messages /\ owed' \subseteq Messages /\ inbox' = Tail(inbox)
      BY <1>2 DEF DrainMessage, Core
    <3>2. UNCHANGED <<session, timer, idle, net, peer, heard, answer, flags>>
      BY <1>2 DEF DrainMessage
    <3> QED
      BY <2>2, <3>1, <3>2 DEF Core, session, context, timer, heard, flags
  <2> QED
    BY <1>2, <2>1, <2>3 DEF DrainMessage, Program, app
<1>3. CASE DrainPing
  <2>1. Tail(stack) \in Seq(StackFrames) /\ stack \in Seq(StackFrames)
    BY <1>3, Popped DEF DrainPing, At, Running
  <2>2. Tail(inbox) \in Seq(Frames) /\ Len(Tail(inbox)) <= InboxCap
    BY <1>3, Constants DEF DrainPing, Drains, Core
  <2>3. stack' \in Seq(StackFrames)
    BY <1>3, <2>1, Pushed DEF DrainPing, StackFrames, Handlers
  <2>4. Core'
    BY <1>3, <2>2, EmitsTyped, EmitFailsTyped DEF DrainPing
  <2>5. Program'
    BY <1>3 DEF DrainPing, Program, app
  <2> QED
    BY <2>3, <2>4, <2>5
<1>4. CASE DrainLost
  <2>1. Tail(stack) \in Seq(StackFrames)
    BY <1>4, Popped DEF DrainLost, At, Running
  <2>2. stack' \in Seq(StackFrames)
    BY <1>4, <2>1, Pushed DEF DrainLost, StackFrames, Handlers
  <2>3. Core'
    <3>1. Loses /\ UNCHANGED <<context, timer, idle, rx, net, peer, heard, answer, flags>>
      BY <1>4 DEF DrainLost
    <3> QED
      BY <3>1, Losing DEF Core, context, timer, rx, heard, flags
  <2>4. Program'
    BY <1>4 DEF DrainLost, Program, app
  <2> QED
    BY <2>2, <2>3, <2>4
<1>5. CASE Dispatch
  <2>1. Tail(stack) \in Seq(StackFrames)
    BY <1>5, Popped DEF Dispatch, At, Running
  <2>2. stack' \in Seq(StackFrames)
    BY <1>5, <2>1, Pushed DEF Dispatch, StackFrames, Handlers
  <2>3. full' \in BOOLEAN /\ owed' \subseteq Messages
    BY <1>5 DEF Dispatch, Core
  <2>4. UNCHANGED <<session, timer, idle, buf, server, heard, answer, flags>>
    BY <1>5 DEF Dispatch
  <2>5. Core'
    BY <2>3, <2>4 DEF Core, session, context, timer, server, heard, flags
  <2>6. Program'
    BY <1>5 DEF Dispatch, Core, Program
  <2> QED
    BY <2>2, <2>5, <2>6
<1>6. CASE Handler
  BY <1>6, HandlerTyped
<1>7. CASE BeginSucceeds \/ RedialSucceeds \/ HandshakeFails
  BY <1>7, HandshakeTyped
<1> QED
  BY <1>1, <1>2, <1>3, <1>4, <1>5, <1>6, <1>7 DEF Runs

LEMMA LoopTyped == ASSUME IInv, Loop PROVE TypeOK'
<1> USE TypeParts, TypePartsNext DEF IInv
<1>1. Core' /\ stack' \in Seq(StackFrames) /\ told' \in BOOLEAN
  BY Empty, CallTyped DEF Loop, Program
<1>2. Program'
  BY <1>1 DEF Loop, Program
<1> QED
  BY <1>1, <1>2

LEMMA WorldTyped ==
    ASSUME IInv,
           \/ NetFails \/ NetHeals \/ ServerSends \/ ServerReads
           \/ ServerLeaves \/ Watchdog \/ Tick
    PROVE  TypeOK'
<1> USE TypeParts, TypePartsNext DEF IInv
<1>0. Program' /\ stack' = stack /\ UNCHANGED <<established, hasty, context, backoff, rx, misuse, strayed>>
  BY DEF NetFails, NetHeals, ServerSends, ServerReads, ServerLeaves, Watchdog, Tick, Program, app,
         session, timer, flags
<1>1. CASE NetFails \/ NetHeals
  <2>1. answer' \in {"coming", "doubtful", "lost"} /\ net' \in BOOLEAN /\ steady' \in BOOLEAN
    BY <1>1 DEF NetFails, NetHeals, Core, flags
  <2>2. UNCHANGED <<since, idle, peer, inbox, heard>>
    BY <1>1 DEF NetFails, NetHeals, timer
  <2>3. Core'
    BY <1>0, <2>1, <2>2 DEF Core, context, rx, heard
  <2> QED
    BY <1>0, <2>3
<1>2. CASE ServerSends
  <2>0. /\ inbox \in Seq(Frames) /\ Len(inbox) < InboxCap
        /\ \E f \in Frames : inbox' = Append(inbox, f)
    BY <1>2 DEF ServerSends, Core, Frames
  <2>1. inbox' \in Seq(Frames) /\ Len(inbox') <= InboxCap
    BY ONLY <2>0, Constants
  <2>2. UNCHANGED <<since, idle, net, peer, heard, answer, steady>>
    BY <1>2 DEF ServerSends, timer, flags
  <2>3. Core'
    BY <1>0, <2>1, <2>2 DEF Core, context, rx, heard
  <2> QED
    BY <1>0, <2>3
<1>3. CASE ServerReads
  <2>1. unread' \in BOOLEAN /\ quiet' \in 0 .. Timeout + 1
    <3>1. unread' = FALSE /\ quiet' = 0
      BY <1>3 DEF ServerReads
    <3>2. 0 \in 0 .. Timeout + 1
      BY Constants
    <3> QED
      BY <3>1, <3>2, Zenon
  <2>2. UNCHANGED <<since, idle, server, answer, steady>>
    BY <1>3 DEF ServerReads, timer, flags
  <2>3. Core'
    BY <1>0, <2>1, <2>2 DEF Core, context, rx, server
  <2> QED
    BY <1>0, <2>3
<1>4. CASE ServerLeaves \/ Watchdog
  <2>0. /\ inbox \in Seq(Frames) /\ Len(inbox) <= InboxCap /\ "LAST" \in Frames
        /\ \/ inbox' = inbox
           \/ Len(inbox) < InboxCap /\ inbox' = Append(inbox, "LAST")
    BY <1>4 DEF ServerLeaves, Watchdog, Core, Frames
  <2>1. inbox' \in Seq(Frames) /\ Len(inbox') <= InboxCap
    BY ONLY <2>0, Constants
  <2>2. Forgets /\ UNCHANGED <<since, idle, net, answer>>
    BY <1>4 DEF ServerLeaves, Watchdog, timer
  <2>3. Core'
    BY <1>0, <2>1, <2>2, ForgettingTyped DEF Core, context, rx
  <2> QED
    BY <1>0, <2>3
<1>5. CASE Tick
  <2>0. \A most \in Nat : \A n \in 0 .. most : UpTo(n, most) \in 0 .. most
    BY DEF UpTo
  <2>a. Longest \in Nat /\ KeepAlive \in Nat /\ Timeout + 1 \in Nat
    BY Constants DEF Longest
  <2>b. /\ since \in 0 .. Longest /\ idle \in 0 .. KeepAlive /\ quiet \in 0 .. Timeout + 1
        /\ since' = UpTo(since, Longest) /\ idle' \in {idle, UpTo(idle, KeepAlive)}
        /\ quiet' \in {quiet, UpTo(quiet, Timeout + 1)}
    BY <1>5 DEF Tick, Core
  <2>1. since' \in 0 .. Longest /\ idle' \in 0 .. KeepAlive /\ quiet' \in 0 .. Timeout + 1
    BY ONLY <2>0, <2>a, <2>b
  <2>2. UNCHANGED <<server, unread, answer>>
    BY <1>5 DEF Tick
  <2>c. steady' \in BOOLEAN
    BY <1>5, Zenon DEF Tick
  <2>3. Core'
    BY <1>0, <2>1, <2>2, <2>c DEF Core, context, rx, server
  <2> QED
    BY <1>0, <2>3
<1> QED
  BY <1>1, <1>2, <1>3, <1>4, <1>5

LEMMA NextTyped == ASSUME IInv, [Next]_vars PROVE TypeOK'
<1>1. CASE UNCHANGED vars
  BY <1>1 DEF IInv, TypeOK, vars, session, context, timer, rx, server, heard, app, flags
<1>2. CASE Next
  BY <1>2, BeginTyped, MaintainTyped, RunsTyped, LoopTyped, WorldTyped DEF Next
<1> QED
  BY <1>1, <1>2

-----------------------------------------------------------------------------
(* What is on the stack                                                      *)

Stacks == Seq(StackFrames)

LEMMA Under ==
    ASSUME NEW k \in Stacks, NEW f \in StackFrames
    PROVE  LET st == <<f>> \o k
           IN  /\ st \in Stacks /\ st # <<>> /\ Len(st) = Len(k) + 1
               /\ Head(st) = f /\ Tail(st) = k
               /\ st[1] = f /\ \A i \in 1 .. Len(k) : st[i + 1] = k[i]
               /\ DOMAIN st = 1 .. Len(st) /\ DOMAIN k = 1 .. Len(k)
BY DEF Stacks

LEMMA Above ==
    ASSUME NEW st \in Stacks, st # <<>>
    PROVE  /\ Tail(st) \in Stacks /\ Len(Tail(st)) = Len(st) - 1 /\ Head(st) = st[1]
           /\ Head(st) \in StackFrames /\ st = <<Head(st)>> \o Tail(st)
BY DEF Stacks

LEMMA Pairs == ASSUME NEW f \in StackFrames, NEW g \in StackFrames PROVE <<f, g>> = <<f>> \o <<g>>
<1>1. PICK s : s = <<f, g>>
  OBVIOUS
<1>2. PICK t : t = <<f>> \o <<g>>
  OBVIOUS
<1>3. s \in Seq(StackFrames) /\ Len(s) = 2 /\ s[1] = f /\ s[2] = g
  BY <1>1
<1>4. t \in Seq(StackFrames) /\ Len(t) = 2 /\ t[1] = f /\ t[2] = g
  BY <1>2
<1>5. \A i \in 1 .. Len(s) : s[i] = t[i]
  BY <1>3, <1>4
<1>6. s = t
  BY <1>3, <1>4, <1>5, SeqEqual
<1> QED
  BY <1>1, <1>2, <1>6

LEMMA TwoUnder ==
    ASSUME NEW k \in Stacks, NEW f \in StackFrames, NEW g \in StackFrames
    PROVE  <<f, g>> \o k = <<f>> \o (<<g>> \o k) /\ <<g>> \o k \in Stacks
<1>1. <<f>> \in Seq(StackFrames) /\ <<g>> \in Seq(StackFrames) /\ k \in Seq(StackFrames)
      /\ <<f, g>> = <<f>> \o <<g>>
  <2>1. <<f>> \in Seq(StackFrames) /\ <<g>> \in Seq(StackFrames) /\ k \in Seq(StackFrames)
    BY Pushed DEF Stacks
  <2>2. <<f, g>> = <<f>> \o <<g>>
    BY Pairs
  <2> QED
    BY <2>1, <2>2
<1>2. (<<f>> \o <<g>>) \o k = <<f>> \o (<<g>> \o k)
  BY <1>1, ConcatAssociative
<1> QED
  BY <1>1, <1>2 DEF Stacks

LEMMA RangeUnder ==
    ASSUME NEW k \in Stacks, NEW f \in StackFrames
    PROVE  Range(<<f>> \o k) = {f} \union Range(k)
<1> DEFINE st == <<f>> \o k
<1>1. /\ st[1] = f /\ \A i \in 1 .. Len(k) : st[i + 1] = k[i]
      /\ DOMAIN st = 1 .. Len(k) + 1 /\ DOMAIN k = 1 .. Len(k) /\ Len(k) \in Nat
  BY Under DEF Stacks
<1> HIDE DEF st
<1>2. ASSUME NEW i \in DOMAIN st PROVE st[i] \in {f} \union Range(k)
  <2>1. CASE i = 1
    BY <1>1, <2>1
  <2>2. CASE i # 1
    <3>1. i - 1 \in DOMAIN k /\ (i - 1) + 1 = i
      BY <1>1, <2>2
    <3> QED
      BY <1>1, <3>1 DEF Range
  <2> QED
    BY <2>1, <2>2
<1>3. ASSUME NEW i \in DOMAIN k PROVE k[i] \in Range(st)
  <2>1. i + 1 \in DOMAIN st /\ st[i + 1] = k[i]
    BY <1>1
  <2> QED
    BY <2>1 DEF Range
<1>4. f \in Range(st)
  <2>1. 1 \in DOMAIN st
    BY <1>1
  <2> QED
    BY <1>1, <2>1 DEF Range
<1>5. Range(st) = {f} \union Range(k)
  BY <1>2, <1>3, <1>4 DEF Range
<1> QED
  BY <1>5 DEF st

LEMMA RangeAbove ==
    ASSUME NEW st \in Stacks, st # <<>>
    PROVE  Range(st) = {Head(st)} \union Range(Tail(st))
<1>1. PICK f \in StackFrames, k \in Stacks : f = Head(st) /\ k = Tail(st) /\ st = <<f>> \o k
  BY Above
<1> QED
  BY <1>1, RangeUnder

LEMMA RangeEmpty == <<>> \in Stacks /\ Range(<<>>) = {}
BY DEF Stacks, Range

(* A call leaves what was there, below what it adds.                         *)
Adds(k) ==
    \/ stack' = k
    \/ stack' = <<"onDisconnect">> \o k
    \/ stack' = <<"drain", "read">> \o k
    \/ stack' = <<"reconnect">> \o k

LEMMA CallAdds == ASSUME NEW c, NEW k, NEW said, Call(c, k, said) PROVE Adds(k)
BY DEF Call, Send, Read, Reconnect, Close, Adds

LEMMA StackTyped == ASSUME IInv PROVE stack \in Stacks
BY TypeParts DEF IInv, Stacks

LEMMA DispatchUnder ==
    ASSUME NEW k \in Stacks, DispatchLast(k), NEW f \in StackFrames, f # "dispatch"
    PROVE  DispatchLast(<<f>> \o k)
<1> DEFINE st == <<f>> \o k
<1> SUFFICES ASSUME NEW i \in DOMAIN st, st[i] = "dispatch" PROVE i = Len(st)
  BY DEF DispatchLast
<1>1. /\ st[1] = f /\ Len(st) = Len(k) + 1 /\ DOMAIN st = 1 .. Len(st)
      /\ Len(k) \in Nat /\ DOMAIN k = 1 .. Len(k)
      /\ \A j \in 1 .. Len(k) : st[j + 1] = k[j]
  BY Under DEF Stacks
<1> HIDE DEF st
<1>2. i # 1 /\ i \in Nat
  BY <1>1
<1>3. PICK j \in 1 .. Len(k) : j + 1 = i
  <2>1. i - 1 \in 1 .. Len(k) /\ (i - 1) + 1 = i
    BY <1>1, <1>2
  <2> QED
    BY <2>1
<1> QED
  BY <1>1, <1>3 DEF DispatchLast

LEMMA DispatchAbove ==
    ASSUME NEW st \in Stacks, DispatchLast(st), st # <<>>
    PROVE  DispatchLast(Tail(st)) /\ (Head(st) = "dispatch" => Tail(st) = <<>>)
<1>1. /\ Len(Tail(st)) = Len(st) - 1 /\ DOMAIN st = 1 .. Len(st) /\ Len(st) \in Nat \ {0}
      /\ Tail(st) \in Stacks /\ DOMAIN Tail(st) = 1 .. Len(Tail(st)) /\ Head(st) = st[1]
      /\ \A i \in 1 .. Len(st) - 1 : Tail(st)[i] = st[i + 1]
  BY DEF Stacks
<1>2. DispatchLast(Tail(st))
  <2> SUFFICES ASSUME NEW i \in DOMAIN Tail(st), Tail(st)[i] = "dispatch" PROVE i = Len(Tail(st))
    BY DEF DispatchLast
  <2>1. i \in 1 .. Len(st) - 1 /\ i + 1 \in 1 .. Len(st)
    BY <1>1
  <2> QED
    BY <1>1, <2>1 DEF DispatchLast
<1>3. ASSUME Head(st) = "dispatch" PROVE Tail(st) = <<>>
  <2>1. Len(Tail(st)) = 0
    BY <1>1, <1>3 DEF DispatchLast
  <2> QED
    BY <1>1, <2>1, EmptySeq DEF Stacks
<1> QED
  BY <1>2, <1>3

LEMMA DispatchEmpty == <<>> \in Stacks /\ DispatchLast(<<>>)
BY DEF Stacks, DispatchLast

LEMMA DispatchTwoUnder ==
    ASSUME NEW k \in Stacks, DispatchLast(k),
           NEW f \in StackFrames \ {"dispatch"}, NEW g \in StackFrames \ {"dispatch"}
    PROVE  DispatchLast(<<f, g>> \o k)
<1>1. <<g>> \o k \in Stacks /\ DispatchLast(<<g>> \o k)
  BY TwoUnder, DispatchUnder
<1>2. DispatchLast(<<f>> \o (<<g>> \o k))
  BY <1>1, DispatchUnder
<1> QED
  BY <1>2, TwoUnder

(* What may be below a frame that is pushed.                                 *)
Lower(k) == k \in Stacks /\ DispatchLast(k) /\ Range(k) \cap Tops = {}

LEMMA LowerEmpty == Lower(<<>>)
BY DispatchEmpty, RangeEmpty DEF Lower

LEMMA LowerAbove ==
    ASSUME NEW st \in Stacks, Lower(st), st # <<>> PROVE Lower(Tail(st)) /\ Head(st) \notin Tops
BY Above, DispatchAbove, RangeAbove DEF Lower

LEMMA LowerUnder ==
    ASSUME NEW k, Lower(k), NEW f \in StackFrames \ {"dispatch"}, f \notin Tops
    PROVE  Lower(<<f>> \o k)
<1>1. k \in Stacks
  BY DEF Lower
<1> QED
  BY <1>1, DispatchUnder, RangeUnder, Under DEF Lower

LEMMA LowerStacked == ASSUME Lower(stack') PROVE Stacked' /\ ~Shaking'
<1>1. PICK st \in Stacks : st = stack'
  BY DEF Lower
<1>2. Lower(st)
  BY <1>1
<1>3. st # <<>> => Lower(Tail(st)) /\ Head(st) \notin Tops
  BY <1>2, LowerAbove
<1> QED
  BY <1>1, <1>2, <1>3 DEF Stacked, Lower, Shaking, Tops

LEMMA UnderStacked ==
    ASSUME NEW k, Lower(k), NEW f \in StackFrames \ {"dispatch"}, stack' = <<f>> \o k
    PROVE  Stacked' /\ (Shaking' => f \in Handshakes)
<1>1. k \in Stacks
  BY DEF Lower
<1>2. stack' # <<>> /\ Head(stack') = f /\ Tail(stack') = k
  BY <1>1, Under
<1>3. DispatchLast(stack')
  BY <1>1, DispatchUnder DEF Lower
<1> QED
  BY <1>2, <1>3 DEF Stacked, Lower, Shaking

LEMMA AddsStacked ==
    ASSUME NEW k, Lower(k), Adds(k)
    PROVE  Stacked' /\ (Shaking' => stack' = <<"reconnect">> \o k)
<1>1. {"onDisconnect", "drain", "read", "reconnect"} \subseteq StackFrames \ {"dispatch"}
      /\ {"drain", "read"} \cap Tops = {} /\ "onDisconnect" \notin Handshakes
  BY DEF StackFrames, Handlers, Handshakes, Tops
<1>2. k \in Stacks
  BY DEF Lower
<1>3. CASE stack' = k
  BY <1>3, LowerStacked
<1>4. CASE stack' = <<"onDisconnect">> \o k
  BY <1>1, <1>4, UnderStacked
<1>5. CASE stack' = <<"drain", "read">> \o k
  <2>1. Lower(<<"read">> \o k)
    BY <1>1, LowerUnder
  <2>2. Lower(<<"drain">> \o (<<"read">> \o k))
    BY <1>1, <2>1, LowerUnder
  <2>3. stack' = <<"drain">> \o (<<"read">> \o k)
    BY <1>1, <1>2, <1>5, TwoUnder
  <2> QED
    BY <2>2, <2>3, LowerStacked
<1>6. CASE stack' = <<"reconnect">> \o k
  BY <1>1, <1>6, UnderStacked
<1> QED
  BY <1>3, <1>4, <1>5, <1>6 DEF Adds

(* What is below the head; what a handler leaves below its calls.            *)
LEMMA TailLower == ASSUME IInv, stack # <<>> PROVE Lower(Tail(stack))
<1>1. stack \in Stacks
  BY StackTyped
<1> QED
  BY <1>1, Above, DispatchAbove DEF IInv, Stacked, Lower

After == IF Head(stack) = "onMessage" THEN <<"return">> \o Tail(stack) ELSE Tail(stack)

LEMMA AfterLower == ASSUME IInv, stack # <<>> PROVE Lower(After)
<1>1. "return" \in StackFrames \ {"dispatch"} /\ "return" \notin Tops
  BY DEF StackFrames, Tops, Handshakes
<1> QED
  BY <1>1, TailLower, LowerUnder DEF After

Said == CASE Head(stack) = "onConnect" -> TRUE
          [] Head(stack) = "onDisconnect" -> FALSE
          [] OTHER -> told

LEMMA HandlerSteps ==
    ASSUME Handler
    PROVE  /\ stack # <<>> /\ Head(stack) \in Handlers /\ UNCHANGED <<sketch, begun, looped>>
           /\ \/ /\ stack' = After /\ told' = Said
                 /\ UNCHANGED <<session, timer, idle, rx, server, heard, answer, flags, held>>
              \/ \E c \in sketch.calls[Head(stack)] :
                   Call(c, After, Said) /\ held' = IF c = "read" THEN None ELSE held
BY Zenon DEF Handler, Running, After, Said

(* How a step changes the stack.                                             *)
LEMMA NextStack ==
    ASSUME IInv, [Next]_vars
    PROVE  \/ UNCHANGED stack
           \/ BeginDials \/ MaintainReconnects
           \/ stack' = <<"onDisconnect">> /\ stack = <<>>
           \/ stack' = <<"drain", "dispatch">> /\ stack = <<>>
           \/ stack # <<>> /\ stack' = Tail(stack)
           \/ stack # <<>> /\ Adds(Tail(stack))
           \/ stack # <<>> /\ stack' = <<"onConnect">> \o Tail(stack)
           \/ stack # <<>> /\ stack' = <<"onReconnect", "onConnect">> \o Tail(stack)
           \/ stack # <<>> /\ stack' = <<"onMessage">> \o Tail(stack)
           \/ stack # <<>> /\ Adds(After)
           \/ stack = <<>> /\ Adds(<<>>)
<1>1. CASE BeginFailsToDial \/ Maintain \/ Loop
  BY <1>1, CallAdds DEF BeginFailsToDial, Maintain, MaintainWaits, MaintainPings, MaintainReads,
     Round, Idle, Loop
<1>2. CASE BeginSucceeds \/ RedialSucceeds \/ HandshakeFails
  BY <1>2 DEF BeginSucceeds, RedialSucceeds, HandshakeFails, HandshakeSucceeds, HandshakeEnds,
     InHandshake, Running
<1>3. CASE DrainEnds \/ DrainMessage \/ DrainPing \/ DrainLost \/ TakeMessage \/ Dispatch \/ Return
  BY <1>3 DEF DrainEnds, DrainMessage, DrainPing, DrainLost, TakeMessage, Dispatch, Return, At,
     Running, Adds
<1>4. CASE Handler
  <2>1. stack # <<>> /\ (stack' = After \/ \E c, said : Call(c, After, said))
    BY <1>4, HandlerSteps, Zenon
  <2>2. Adds(After)
    BY <2>1, CallAdds, Zenon DEF Adds
  <2> QED
    BY <2>1, <2>2, Zenon
<1>5. CASE \/ NetFails \/ NetHeals \/ ServerSends \/ ServerReads \/ ServerLeaves \/ Watchdog
           \/ Tick \/ UNCHANGED vars
  BY <1>5 DEF NetFails, NetHeals, ServerSends, ServerReads, ServerLeaves, Watchdog, Tick, vars
<1> QED
  BY <1>1, <1>2, <1>3, <1>4, <1>5 DEF Next, Runs

LEMMA NextStacked ==
    ASSUME IInv, [Next]_vars
    PROVE  /\ Stacked'
           /\ \/ UNCHANGED stack \/ ~Shaking'
              \/ BeginDials \/ MaintainReconnects
              \/ stack # <<>> /\ stack' = <<"reconnect">> \o After
              \/ stack # <<>> /\ stack' = <<"reconnect">> \o Tail(stack)
              \/ stack = <<>> /\ stack' = <<"reconnect">> \o <<>>
<1>1. {"onDisconnect", "onConnect", "onReconnect", "onMessage", "drain"} \union Handshakes
        \subseteq StackFrames \ {"dispatch"}
      /\ ({"onDisconnect", "onConnect", "onReconnect", "onMessage"} \cap Handshakes = {})
      /\ "onConnect" \notin Tops
  BY DEF StackFrames, Handlers, Handshakes, Tops
<1>2. CASE UNCHANGED stack
  BY <1>2 DEF IInv, Stacked
<1>3. CASE BeginDials \/ MaintainReconnects
  <2>1. stack' = stack \/ (stack' \in {<<"begin">>, <<"maintain">>})
    BY <1>3 DEF BeginDials, MaintainReconnects
  <2>2. ASSUME NEW f \in Handshakes, stack' = <<f>> PROVE Stacked'
    <3>1. stack' = <<f>> \o <<>>
      BY <2>2
    <3> QED
      BY <1>1, <2>2, <3>1, LowerEmpty, UnderStacked
  <2>3. "begin" \in Handshakes /\ "maintain" \in Handshakes
    BY DEF Handshakes
  <2> QED
    BY <1>2, <1>3, <2>1, <2>2, <2>3
<1>4. CASE stack' = <<"onDisconnect">> /\ stack = <<>>
  <2>1. stack' = <<"onDisconnect">> \o <<>>
    BY <1>4
  <2> QED
    BY <1>1, <2>1, LowerEmpty, UnderStacked
<1>5. CASE stack' = <<"drain", "dispatch">> /\ stack = <<>>
  <2>1. Len(stack') = 2 /\ stack'[1] = "drain" /\ DOMAIN stack' = 1 .. 2 /\ stack' # <<>>
        /\ Head(stack') = "drain" /\ Tail(stack') = <<"dispatch">>
    BY <1>5
  <2>2. Range(<<"dispatch">>) = {"dispatch"}
    BY DEF Range
  <2>3. DispatchLast(stack')
    BY <2>1 DEF DispatchLast
  <2>4. {"dispatch"} \cap Tops = {} /\ "drain" \notin Handshakes
    BY DEF Tops, Handshakes
  <2> QED
    BY <2>1, <2>2, <2>3, <2>4 DEF Stacked, Shaking
<1>6. CASE stack # <<>> /\ stack' = Tail(stack)
  BY <1>6, TailLower, LowerStacked
<1>7. CASE stack # <<>> /\ Adds(Tail(stack))
  BY <1>7, TailLower, AddsStacked
<1>8. CASE stack # <<>> /\ stack' \in {<<"onConnect">> \o Tail(stack), <<"onMessage">> \o Tail(stack)}
  BY <1>1, <1>8, TailLower, UnderStacked
<1>9. CASE stack # <<>> /\ stack' = <<"onReconnect", "onConnect">> \o Tail(stack)
  <2>1. Lower(Tail(stack)) /\ Tail(stack) \in Stacks
    BY <1>9, TailLower DEF Lower
  <2>2. Lower(<<"onConnect">> \o Tail(stack))
    BY <1>1, <2>1, LowerUnder
  <2>3. stack' = <<"onReconnect">> \o (<<"onConnect">> \o Tail(stack))
    BY <1>1, <1>9, <2>1, TwoUnder
  <2> QED
    BY <1>1, <2>2, <2>3, UnderStacked
<1>10. CASE stack # <<>> /\ Adds(After)
  BY <1>10, AfterLower, AddsStacked
<1>11. CASE stack = <<>> /\ Adds(<<>>)
  BY <1>11, LowerEmpty, AddsStacked
<1> QED
  BY NextStack, <1>2, <1>3, <1>4, <1>5, <1>6, <1>7, <1>8, <1>9, <1>10, <1>11

-----------------------------------------------------------------------------
(* What the client owns                                                      *)

(* Without the sketch's straying nothing live is ever taken for freed.       *)
LEMMA LinkIsLive ==
    ASSUME IInv, ~strayed, own # None
    PROVE  ~Freed(link) /\ link = own /\ link \in Contexts
BY DEF IInv, TypeOK, Owned, Freed

LEMMA EmitsOwned == ASSUME IInv, Emits, ~Shaking' PROVE Owned'
<1>1. misuse' = (misuse \/ Freed(link))
      /\ UNCHANGED <<established, keyed, link, own, heap, initialized, strayed>>
  BY DEF Emits, session, context
<1>2. established
  BY DEF Emits
<1> QED
  BY <1>1, <1>2, LinkIsLive DEF IInv, Owned

LEMMA EmitFailsOwned == ASSUME IInv, EmitFails, ~Shaking' PROVE Owned'
<1>1. misuse' = (misuse \/ Freed(link)) /\ ~established'
      /\ UNCHANGED <<keyed, link, own, heap, initialized, strayed>>
  BY Losing DEF EmitFails, context
<1>2. established
  BY DEF EmitFails
<1> QED
  BY <1>1, <1>2, LinkIsLive DEF IInv, Owned

(* A redial, of a client that has a context if there is one to redial.       *)
LEMMA RedialsOwned ==
    ASSUME IInv, Redials \/ (RedialFails /\ ~Shaking'),
           strayed \/ strayed' \/ (own = None => link = None),
           strayed => strayed'
    PROVE  Owned'
<1>1. UNCHANGED <<link, own, initialized>>
  BY DEF Redials, RedialFails
<1>2. CASE link = None
  <2>1. ~Shaking' /\ UNCHANGED <<established, heap, misuse>>
    BY <1>2 DEF Redials, RedialFails
  <2> QED
    BY <1>1, <1>2, <2>1 DEF IInv, Owned
<1>3. CASE link # None
  <2>1. HangsUp
    BY <1>3 DEF Redials, RedialFails
  <2>2. /\ ~established' /\ misuse' = (misuse \/ Freed(link))
        /\ heap' = IF Freed(link) THEN heap ELSE [heap EXCEPT ![link] = "dialled"]
    BY <2>1, Losing DEF HangsUp
  <2>3. ASSUME ~strayed'
        PROVE  /\ own # None /\ link = own /\ ~misuse'
               /\ heap' = [heap EXCEPT ![link] = "dialled"]
    <3>1. ~strayed /\ own # None /\ ~misuse
      BY <1>3, <2>3 DEF IInv, Owned
    <3> QED
      BY <2>2, <3>1, LinkIsLive
  <2>4. heap \in [Contexts -> {"free", "dialled", "armed"}]
        /\ (~strayed' => \A c \in Contexts : heap[c] # "free" <=> c = own)
    BY DEF IInv, TypeOK, Owned
  <2>5. ~strayed' => \A c \in Contexts : heap'[c] # "free" <=> c = own
    BY <2>3, <2>4
  <2> QED
    BY <1>1, <1>3, <2>2, <2>3, <2>5 DEF Owned
<1> QED
  BY <1>2, <1>3

LEMMA CloseOwned == ASSUME IInv, NEW k, Close(k), ~Shaking' PROVE Owned'
<1>1. /\ ~established' /\ ~initialized' /\ own' = None /\ link' = link
      /\ misuse' = (misuse \/ Freed(link)) /\ strayed' = (strayed \/ Closed)
      /\ heap' = IF own = None THEN heap ELSE [heap EXCEPT ![own] = "free"]
  BY Losing DEF Close
<1>2. ASSUME ~strayed' PROVE ~misuse' /\ \A c \in Contexts : heap'[c] = "free"
  <2>1. /\ ~strayed /\ (own # None \/ link = None) /\ ~misuse
        /\ \A c \in Contexts : heap[c] # "free" <=> c = own
        /\ heap \in [Contexts -> {"free", "dialled", "armed"}]
    BY <1>1, <1>2 DEF IInv, Owned, Closed, TypeOK
  <2>2. ~Freed(link)
    BY <2>1, LinkIsLive DEF Freed
  <2> QED
    BY <1>1, <2>1, <2>2, Constants
<1> QED
  BY <1>1, <1>2, Constants DEF Owned

(* The calls of the sketch and its handlers.                                 *)
LEMMA CallOwned == ASSUME IInv, NEW c, NEW k, NEW said, Lower(k), Call(c, k, said) PROVE Owned'
<1>1. CASE ~Shaking'
  <2>1. CASE Send(k, said)
    <3>1. CASE UNCHANGED <<session, flags>>
      BY <1>1, <3>1 DEF IInv, Owned, session, context, flags
    <3> QED
      BY <1>1, <2>1, <3>1, EmitsOwned, EmitFailsOwned DEF Send
  <2>2. CASE Read(k, said)
    BY <1>1, <2>2 DEF Read, IInv, Owned, session, context, flags
  <2>3. CASE Reconnect(k, said)
    <3>1. strayed' = (strayed \/ Closed) /\ (Redials \/ RedialFails)
      BY <2>3 DEF Reconnect
    <3> QED
      BY <1>1, <3>1, RedialsOwned DEF Closed
  <2>4. CASE Close(k)
    BY <1>1, <2>4, CloseOwned
  <2> QED
    BY <2>1, <2>2, <2>3, <2>4 DEF Call
<1>2. CASE Shaking'
  <2>1. k \in Stacks /\ stack' = <<"reconnect">> \o k
    BY <1>2, CallAdds, AddsStacked DEF Lower
  <2>2. Head(stack') = "reconnect"
    BY <2>1, Under DEF StackFrames, Handshakes
  <2>3. ASSUME NEW f \in {"drain", "onDisconnect"} PROVE stack' # <<f>> \o k
    BY <2>1, <2>2, Under DEF StackFrames, Handlers
  <2>4. stack' # k
    BY <1>2, LowerStacked
  <2>5. ~Send(k, said) /\ ~Close(k)
    BY <2>3, <2>4 DEF Send, Close
  <2>6. ~Read(k, said)
    <3>1. "drain" \in StackFrames /\ "read" \in StackFrames
      BY DEF StackFrames
    <3>2. <<"drain", "read">> \o k = <<"drain">> \o (<<"read">> \o k) /\ <<"read">> \o k \in Stacks
      BY <2>1, <3>1, TwoUnder
    <3>3. Head(<<"drain", "read">> \o k) = "drain"
      BY <3>1, <3>2, Under
    <3> QED
      BY <2>2, <3>3 DEF Read
  <2>7. strayed' = (strayed \/ Closed) /\ Redials
    BY <2>4, <2>5, <2>6 DEF Call, Reconnect
  <2> QED
    BY <2>7, RedialsOwned DEF Closed
<1> QED
  BY <1>1, <1>2

LEMMA HandshakeOwned ==
    ASSUME IInv, BeginSucceeds \/ RedialSucceeds \/ HandshakeFails, ~Shaking' PROVE Owned'
<1>1. Shaking
  BY DEF BeginSucceeds, RedialSucceeds, HandshakeFails, HandshakeSucceeds, HandshakeEnds,
         InHandshake, Running, Shaking
<1>2. CASE HandshakeFails
  BY <1>1, <1>2 DEF HandshakeFails, IInv, Owned, session, context, flags
<1>3. CASE BeginSucceeds \/ RedialSucceeds
  <2>1. /\ keyed' = TRUE /\ heap' = [heap EXCEPT ![link] = "armed"]
        /\ UNCHANGED <<link, own, strayed, misuse>>
    BY <1>3 DEF BeginSucceeds, RedialSucceeds, HandshakeSucceeds, Established
  <2>2. link # None /\ heap \in [Contexts -> {"free", "dialled", "armed"}]
    BY <1>1 DEF IInv, TypeOK, Owned
  <2>3. ~strayed => /\ own # None /\ link = own /\ link \in Contexts /\ ~misuse
                    /\ \A c \in Contexts : heap[c] # "free" <=> c = own
    BY <1>1, LinkIsLive DEF IInv, Owned
  <2> QED
    BY <2>1, <2>2, <2>3 DEF Owned
<1> QED
  BY <1>2, <1>3

LEMMA BeginOwned == ASSUME IInv, BeginFailsToDial \/ BeginDials PROVE Owned'
<1>1. /\ stack = <<>> /\ strayed' = (strayed \/ own # None)
      /\ UNCHANGED <<initialized, misuse>>
  BY DEF BeginFailsToDial, BeginDials, Begins, Idle
<1>2. ASSUME ~strayed'
      PROVE  /\ own = None /\ ~established /\ ~initialized /\ ~misuse
             /\ \A c \in Contexts : heap[c] # "free" <=> c = own
  <2>1. ~strayed /\ own = None
    BY <1>1, <1>2
  <2> QED
    BY <2>1 DEF IInv, Owned
<1>3. CASE BeginFailsToDial
  <2>1. own' \in {own, None} /\ UNCHANGED <<established, keyed, link, heap, stack>>
    BY <1>3 DEF BeginFailsToDial
  <2> QED
    BY <1>1, <1>2, <2>1 DEF IInv, Owned, Shaking
<1>4. CASE BeginDials
  <2>1. PICK c \in Contexts :
          /\ heap[c] = "free" /\ own' = c /\ link' = c
          /\ heap' = [heap EXCEPT ![c] = "dialled"]
    BY <1>4 DEF BeginDials
  <2>2. ~established'
    BY <1>4, Losing DEF BeginDials
  <2>3. heap \in [Contexts -> {"free", "dialled", "armed"}]
    BY DEF IInv, TypeOK
  <2> QED
    BY <1>1, <1>2, <2>1, <2>2, <2>3, Constants DEF Owned
<1> QED
  BY <1>3, <1>4

LEMMA NextOwned == ASSUME IInv, [Next]_vars PROVE Owned'
<1>1. CASE UNCHANGED <<established, keyed, link, own, heap, initialized, strayed, misuse>>
           /\ (~Shaking' \/ UNCHANGED stack)
  BY <1>1 DEF IInv, Owned, Shaking
<1>2. CASE BeginFailsToDial \/ BeginDials
  BY <1>2, BeginOwned
<1>3. CASE MaintainReconnects
  <2>1. /\ stack = <<>> /\ initialized /\ strayed' = strayed
        /\ \/ Redials
           \/ RedialFails /\ UNCHANGED stack
    BY <1>3 DEF MaintainReconnects, Round, Idle
  <2>2. UNCHANGED stack => ~Shaking'
    BY <2>1 DEF Shaking
  <2>3. ~strayed => own # None
    BY <2>1 DEF IInv, Owned
  <2> QED
    BY <2>1, <2>2, <2>3, RedialsOwned
<1>4. CASE MaintainWaits \/ MaintainPings \/ MaintainReads
  <2>1. stack = <<>> /\ strayed' = strayed
    BY <1>4 DEF MaintainWaits, MaintainPings, MaintainReads, Round, Idle
  <2>2. ~Shaking'
    BY <1>4, <2>1 DEF MaintainWaits, MaintainPings, MaintainReads, Shaking, Handshakes
  <2>3. CASE MaintainWaits \/ MaintainReads
    BY <1>1, <2>1, <2>2, <2>3 DEF MaintainWaits, MaintainReads, session, context
  <2> QED
    BY <1>4, <2>2, <2>3, EmitsOwned, EmitFailsOwned DEF MaintainPings
<1>5. CASE Handler
  <2>1. stack # <<>> /\ Lower(After)
    BY <1>5, HandlerSteps, AfterLower
  <2>2. CASE stack' = After /\ UNCHANGED <<session, flags>>
    BY <1>1, <2>1, <2>2, LowerStacked DEF session, context, flags
  <2>3. CASE \E c : Call(c, After, Said)
    BY <2>1, <2>3, CallOwned
  <2> QED
    BY <1>5, <2>2, <2>3, HandlerSteps
<1>6. CASE Loop
  <2>1. PICK c : Call(c, <<>>, told)
    BY <1>6 DEF Loop
  <2> QED
    BY <2>1, LowerEmpty, CallOwned
<1>7. CASE \/ BeginSucceeds \/ RedialSucceeds \/ HandshakeFails
           \/ DrainEnds \/ DrainMessage \/ DrainPing \/ DrainLost
           \/ TakeMessage \/ Dispatch \/ Return
  <2>1. stack # <<>> /\ Lower(Tail(stack))
    BY <1>7, TailLower
    DEF BeginSucceeds, RedialSucceeds, HandshakeFails, HandshakeSucceeds, HandshakeEnds, InHandshake,
        DrainEnds, DrainMessage, DrainPing, DrainLost, TakeMessage, Dispatch, Return, At, Running
  <2>2. \/ stack' = stack /\ Head(stack) = "drain"
        \/ stack' = Tail(stack)
        \/ \E f \in {"onDisconnect", "onConnect", "onMessage"} : stack' = <<f>> \o Tail(stack)
        \/ stack' = <<"onReconnect", "onConnect">> \o Tail(stack)
    BY <1>7
    DEF BeginSucceeds, RedialSucceeds, HandshakeFails,
        DrainEnds, DrainMessage, DrainPing, DrainLost, TakeMessage, Dispatch, Return, At
  <2>3. ~Shaking'
    <3>1. {"onDisconnect", "onConnect", "onMessage", "onReconnect"} \subseteq StackFrames \ {"dispatch"}
          /\ {"onDisconnect", "onConnect", "onMessage", "onReconnect", "drain"} \cap Handshakes = {}
          /\ "onConnect" \notin Tops
      BY DEF StackFrames, Handlers, Handshakes, Tops
    <3>2. CASE stack' = <<"onReconnect", "onConnect">> \o Tail(stack)
      <4>1. Lower(<<"onConnect">> \o Tail(stack))
        BY <2>1, <3>1, LowerUnder
      <4>2. stack' = <<"onReconnect">> \o (<<"onConnect">> \o Tail(stack))
        BY <2>1, <3>1, <3>2, TwoUnder DEF Lower
      <4> QED
        BY <3>1, <4>1, <4>2, UnderStacked
    <3>3. CASE \E f \in {"onDisconnect", "onConnect", "onMessage"} : stack' = <<f>> \o Tail(stack)
      BY <2>1, <3>1, <3>3, UnderStacked
    <3>4. CASE stack' = Tail(stack)
      BY <2>1, <3>4, LowerStacked
    <3>5. CASE stack' = stack /\ Head(stack) = "drain"
      BY <3>1, <3>5 DEF Shaking
    <3> QED
      BY <2>2, <3>2, <3>3, <3>4, <3>5
  <2>4. CASE DrainEnds \/ DrainMessage \/ TakeMessage \/ Dispatch \/ Return
    BY <1>1, <2>3, <2>4 DEF DrainEnds, DrainMessage, TakeMessage, Dispatch, Return, session, context,
       flags
  <2>5. CASE DrainPing
    BY <2>3, <2>5, EmitsOwned, EmitFailsOwned DEF DrainPing
  <2>6. CASE DrainLost
    BY <2>3, <2>6, Losing DEF DrainLost, IInv, Owned, context, flags
  <2>7. CASE BeginSucceeds \/ RedialSucceeds \/ HandshakeFails
    BY <2>3, <2>7, HandshakeOwned
  <2> QED
    BY <1>7, <2>4, <2>5, <2>6, <2>7
<1>8. CASE \/ NetFails \/ NetHeals \/ ServerSends \/ ServerReads \/ ServerLeaves \/ Watchdog
           \/ Tick \/ UNCHANGED vars
  BY <1>1, <1>8 DEF NetFails, NetHeals, ServerSends, ServerReads, ServerLeaves, Watchdog, Tick, vars,
     session, context, flags
<1> QED
  BY <1>2, <1>3, <1>4, <1>5, <1>6, <1>7, <1>8 DEF Next, Maintain, Runs

-----------------------------------------------------------------------------

LEMMA NextIInv == IInv /\ [Next]_vars => IInv'
BY NextTyped, NextStacked, NextOwned DEF IInv

LEMMA Invariance == Spec => []IInv
BY InitIInv, NextIInv, PTL DEF Spec

(* The state keeps its type: back-off, timers and buffers stay within their  *)
(* bounds, whatever the sketch calls and whatever the server sends.          *)
THEOREM TypeCorrect == Spec => []TypeOK
<1>1. IInv => TypeOK
  BY DEF IInv
<1> QED
  BY <1>1, Invariance, PTL

(* A session that counts as established is armed with its keys, and both     *)
(* copies of the transport are the live one, after a begin() that failed     *)
(* too; unless the sketch called begin() while it had a context, or used a   *)
(* closed client (USMP.cpp:70-102, 177-196, 223-239).                        *)
THEOREM UsableSessions == Spec => []SessionUsable
<1>1. IInv => SessionUsable
  BY DEF IInv, Owned, SessionUsable
<1> QED
  BY <1>1, Invariance, PTL

(* No other sequence of begin, close, losses and reconnections leaks a       *)
(* context of the heap, or touches one that was freed (USMP.cpp:78, 223-239).*)
THEOREM OwnedContexts == Spec => []ContextsOwned
<1>1. IInv => ContextsOwned
  BY DEF IInv, Owned, ContextsOwned
<1> QED
  BY <1>1, Invariance, PTL

-----------------------------------------------------------------------------
(* The watchdog                                                              *)

(* No time passes for the server that has not passed for the client, and in  *)
(* each round maintain() sends a PING when it is due: while the network      *)
(* holds, and the server reads what arrives, it heard of the client no       *)
(* longer ago than it last sent. *)
Attended ==
    /\ steady => net
    /\ initialized /\ established /\ peer /\ steady =>
         /\ quiet <= IF unread THEN KeepAlive ELSE idle
         /\ looped => idle < KeepAlive

LEMMA InitAttended == Init => Attended
BY DEF Init, Attended

LEMMA TimersTyped ==
    ASSUME IInv
    PROVE  idle \in 0 .. KeepAlive /\ quiet \in 0 .. Timeout + 1 /\ unread \in BOOLEAN
           /\ KeepAlive \in Nat \ {0} /\ Timeout \in Nat /\ KeepAlive < Timeout
BY Constants DEF IInv, TypeOK

LEMMA EmitsAttended ==
    ASSUME IInv, Attended, Emits
    PROVE  Attended' /\ (initialized' /\ established' /\ peer' /\ steady' => idle' < KeepAlive)
<1>1. /\ idle' = 0 /\ UNCHANGED <<established, initialized, net, peer, quiet, steady>>
      /\ net /\ peer => unread'
  BY DEF Emits, Reached, session, context
<1> QED
  BY <1>1, TimersTyped DEF Attended

LEMMA EmitFailsAttended == ASSUME IInv, Attended, EmitFails PROVE Attended' /\ ~established'
<1>1. ~established' /\ UNCHANGED <<net, steady>>
  BY Losing DEF EmitFails
<1> QED
  BY <1>1 DEF Attended

LEMMA RedialsAttended ==
    ASSUME IInv, Attended, Redials \/ RedialFails PROVE Attended' /\ ~established'
<1>1. UNCHANGED <<net, steady>>
  BY DEF Redials, RedialFails
<1>2. ~established'
  BY Losing DEF Redials, RedialFails, HangsUp, IInv, Owned
<1> QED
  BY <1>1, <1>2 DEF Attended

LEMMA CallAttended ==
    ASSUME IInv, Attended, NEW c, NEW k, NEW said, Call(c, k, said), UNCHANGED looped \/ ~looped'
    PROVE  Attended'
<1>1. CASE Send(k, said)
  <2>1. CASE UNCHANGED <<session, idle, server, heard, flags>>
    BY <2>1 DEF Attended, session, context, server, heard, flags
  <2> QED
    BY <1>1, <2>1, EmitsAttended, EmitFailsAttended DEF Send
<1>2. CASE Read(k, said)
  BY <1>2 DEF Read, Attended, session, context, server, heard, flags
<1>3. CASE Reconnect(k, said)
  BY <1>3, RedialsAttended DEF Reconnect
<1>4. CASE Close(k)
  <2>1. ~established' /\ net' = net /\ (steady' => steady)
    BY <1>4, Losing DEF Close, Forgets
  <2> QED
    BY <2>1 DEF Attended
<1> QED
  BY <1>1, <1>2, <1>3, <1>4 DEF Call

LEMMA MaintainAttended == ASSUME IInv, Attended, Maintain PROVE Attended'
<1>1. CASE MaintainWaits
  <2>1. UNCHANGED <<established, initialized, net, peer, steady>> /\ (~initialized \/ ~established)
    BY <1>1 DEF MaintainWaits, session, context, server
  <2> QED
    BY <2>1 DEF Attended
<1>2. CASE MaintainReconnects
  BY <1>2, RedialsAttended DEF MaintainReconnects
<1>3. CASE MaintainPings
  BY <1>3, EmitsAttended, EmitFailsAttended DEF MaintainPings
<1>4. CASE MaintainReads
  BY <1>4 DEF MaintainReads, Attended, session, context, server, heard
<1> QED
  BY <1>1, <1>2, <1>3, <1>4 DEF Maintain

LEMMA RunsAttended == ASSUME IInv, Attended, Runs PROVE Attended'
<1>1. CASE DrainEnds \/ DrainMessage \/ TakeMessage \/ Dispatch \/ Return \/ HandshakeFails
  <2>1. UNCHANGED <<established, initialized, net, peer, steady, unread, quiet, idle, looped>>
    BY <1>1 DEF DrainEnds, DrainMessage, TakeMessage, Dispatch, Return, HandshakeFails, HandshakeEnds,
       session, context, server, heard, flags, app
  <2> QED
    BY <2>1 DEF Attended
<1>2. CASE DrainPing
  BY <1>2, EmitsAttended, EmitFailsAttended DEF DrainPing
<1>3. CASE DrainLost
  <2>1. ~established' /\ UNCHANGED <<net, steady>>
    BY <1>3, Losing DEF DrainLost, flags
  <2> QED
    BY <2>1 DEF Attended
<1>4. CASE BeginSucceeds \/ RedialSucceeds
  <2>1. net' /\ unread' = FALSE /\ quiet' = 0 /\ idle' = 0
    BY <1>4 DEF BeginSucceeds, RedialSucceeds, HandshakeSucceeds, Established
  <2> QED
    BY <2>1, TimersTyped DEF Attended
<1>5. CASE Handler
  <2>1. UNCHANGED looped
    BY <1>5, HandlerSteps
  <2>2. CASE UNCHANGED <<session, idle, server, heard, flags>>
    BY <2>1, <2>2 DEF Attended, session, context, server, heard, flags
  <2>3. CASE \E c : Call(c, After, Said)
    BY <2>1, <2>3, CallAttended
  <2> QED
    BY <1>5, <2>2, <2>3, HandlerSteps
<1> QED
  BY <1>1, <1>2, <1>3, <1>4, <1>5 DEF Runs

LEMMA NextAttended == ASSUME IInv, Attended, [Next]_vars PROVE Attended'
<1>1. CASE BeginFailsToDial
  <2>1. ~looped' /\ UNCHANGED <<established, initialized, net, peer, steady, unread, quiet, idle>>
    BY <1>1 DEF BeginFailsToDial, Begins, heard
  <2> QED
    BY <2>1 DEF Attended
<1>2. CASE BeginDials
  <2>1. ~established' /\ UNCHANGED <<net, steady>>
    BY <1>2, Losing DEF BeginDials, Begins
  <2> QED
    BY <2>1 DEF Attended
<1>3. CASE Loop
  BY <1>3, CallAttended DEF Loop
<1>4. CASE NetFails \/ ServerLeaves \/ Watchdog
  <2>1. ~steady'
    BY <1>4 DEF NetFails, ServerLeaves, Watchdog, Forgets
  <2> QED
    BY <2>1 DEF Attended
<1>5. CASE NetHeals \/ ServerSends
  BY <1>5 DEF NetHeals, ServerSends, Attended, session, context, server, heard, app, flags
<1>6. CASE ServerReads
  <2>1. unread' = FALSE /\ quiet' = 0
        /\ UNCHANGED <<established, initialized, net, peer, steady, idle, looped>>
    BY <1>6 DEF ServerReads, session, context, server, app, flags
  <2> QED
    BY <2>1, TimersTyped DEF Attended
<1>7. CASE Tick
  <2>1. /\ looped /\ ~looped' /\ (steady' => steady /\ ~unread) /\ unread' = unread
        /\ UNCHANGED <<established, initialized, net, peer>>
        /\ established => idle' = UpTo(idle, KeepAlive)
        /\ peer => quiet' = UpTo(quiet, Timeout + 1)
    BY <1>7 DEF Tick, session, context, server
  <2>2. ASSUME initialized, established, peer, steady, ~unread PROVE quiet' <= idle'
    <3>1. quiet <= idle /\ idle < KeepAlive
      BY <2>1, <2>2 DEF Attended
    <3>2. idle \in Nat /\ quiet \in Nat /\ KeepAlive \in Nat /\ Timeout \in Nat
      BY TimersTyped
    <3>3. idle' = idle + 1
      BY <2>1, <2>2, <3>1 DEF UpTo
    <3>4. quiet' \in {quiet, quiet + 1, Timeout + 1} /\ quiet' <= quiet + 1
      <4>1. CASE quiet < Timeout + 1
        BY <2>1, <2>2, <3>2, <4>1 DEF UpTo
      <4>2. CASE ~(quiet < Timeout + 1)
        BY <2>1, <2>2, <3>2, <4>2 DEF UpTo
      <4> QED
        BY <4>1, <4>2
    <3> QED
      BY <3>1, <3>2, <3>3, <3>4
  <2>3. steady' => net'
    BY <2>1 DEF Attended
  <2> QED
    BY <2>1, <2>2, <2>3 DEF Attended
<1>8. CASE UNCHANGED vars
  BY <1>8 DEF vars, session, context, server, heard, app, flags, Attended
<1> QED
  BY <1>1, <1>2, <1>3, <1>4, <1>5, <1>6, <1>7, <1>8, MaintainAttended, RunsAttended DEF Next

(* The server's watchdog leaves a session alone that the client has, as long *)
(* as begin() has succeeded, the network holds and the server's application  *)
(* reads what arrives (USMP.cpp:177-217, _server.py:99-123).                 *)
THEOREM SparedByWatchdog == Spec => []WatchdogSpares
<1>1. IInv /\ Attended => WatchdogSpares
  <2> SUFFICES ASSUME IInv, Attended, initialized, established, peer, steady PROVE quiet <= Timeout
    BY DEF WatchdogSpares
  <2> QED
    BY TimersTyped DEF Attended
<1> QED
  BY <1>1, Invariance, InitAttended, NextAttended, PTL DEF Spec

-----------------------------------------------------------------------------
(* Messages                                                                  *)

(* What is left to run for a sketch that works on a message: its onMessage   *)
(* below everything else, and nothing that reads another.                    *)
Working(st) ==
    /\ st # <<>> /\ st[Len(st)] \in {"onMessage", "return"}
    /\ \A i \in DOMAIN st : st[i] # "drain"

(* A message is owed for as long as it is in the buffer, and held there.     *)
Owes == owed = IF full THEN {buf} ELSE {}

Holding == held # None => buf = held /\ Working(stack)

LEMMA NextOwes == ASSUME IInv, Owes, [Next]_vars PROVE Owes'
<1> USE DEF Owes
<1>0. CASE UNCHANGED rx
  BY <1>0 DEF rx
<1>1. ASSUME NEW c, NEW k, NEW said, Call(c, k, said) PROVE Owes'
  <2>1. CASE Close(k)
    BY <2>1 DEF Close
  <2> QED
    BY <1>0, <1>1, <2>1 DEF Call, Send, Emits, EmitFails, Read, Reconnect, Redials, RedialFails
<1>2. CASE BeginFailsToDial \/ BeginDials
  BY <1>0, <1>2 DEF BeginFailsToDial, BeginDials, Begins
<1>3. CASE Maintain
  BY <1>0, <1>3 DEF Maintain, MaintainWaits, MaintainReconnects, MaintainPings, MaintainReads,
     Emits, EmitFails, Redials, RedialFails
<1>4. CASE Runs
  <2>1. CASE DrainEnds \/ DrainPing \/ DrainLost \/ Return \/ HandshakeFails
    BY <1>0, <2>1 DEF DrainEnds, DrainPing, DrainLost, Return, HandshakeFails, Emits, EmitFails
  <2>2. CASE DrainMessage
    BY <2>2 DEF DrainMessage, Drains
  <2>3. CASE TakeMessage
    BY <2>3 DEF TakeMessage
  <2>4. CASE Dispatch
    BY <2>4 DEF Dispatch
  <2>5. CASE Handler
    BY <1>0, <1>1, <2>5, HandlerSteps
  <2>6. CASE BeginSucceeds \/ RedialSucceeds
    BY <2>6 DEF BeginSucceeds, RedialSucceeds, HandshakeSucceeds
  <2> QED
    BY <1>4, <2>1, <2>2, <2>3, <2>4, <2>5, <2>6 DEF Runs
<1>5. CASE Loop
  BY <1>1, <1>5 DEF Loop
<1>6. CASE NetFails \/ NetHeals \/ ServerSends \/ ServerReads \/ ServerLeaves \/ Watchdog \/ Tick
  BY <1>0, <1>6 DEF NetFails, NetHeals, ServerSends, ServerReads, ServerLeaves, Watchdog, Tick
<1>7. CASE UNCHANGED vars
  BY <1>0, <1>7 DEF vars
<1> QED
  BY <1>2, <1>3, <1>4, <1>5, <1>6, <1>7 DEF Next

LEMMA WorkingUnder ==
    ASSUME NEW k \in Stacks, Working(k), NEW f \in StackFrames, f # "drain"
    PROVE  Working(<<f>> \o k)
<1> DEFINE st == <<f>> \o k
<1>1. /\ st # <<>> /\ st[1] = f /\ Len(st) = Len(k) + 1 /\ DOMAIN st = 1 .. Len(st)
      /\ Len(k) \in Nat \ {0} /\ DOMAIN k = 1 .. Len(k)
      /\ \A j \in 1 .. Len(k) : st[j + 1] = k[j]
  BY Under, EmptySeq DEF Stacks, Working
<1> HIDE DEF st
<1>2. st[Len(st)] = k[Len(k)]
  BY <1>1
<1>3. ASSUME NEW i \in DOMAIN st PROVE st[i] # "drain"
  <2>1. CASE i = 1
    BY <1>1, <2>1
  <2>2. CASE i # 1
    <3>1. i - 1 \in 1 .. Len(k) /\ (i - 1) + 1 = i
      BY <1>1, <2>2
    <3> QED
      BY <1>1, <3>1 DEF Working
  <2> QED
    BY <2>1, <2>2
<1>4. Working(st)
  BY <1>1, <1>2, <1>3 DEF Working
<1> QED
  BY <1>4 DEF st

LEMMA WorkingAbove ==
    ASSUME NEW st \in Stacks, Working(st)
    PROVE  /\ Tail(st) # <<>> => Working(Tail(st))
           /\ Tail(st) = <<>> => Head(st) \in {"onMessage", "return"}
           /\ Head(st) # "drain"
<1>1. /\ Len(Tail(st)) = Len(st) - 1 /\ DOMAIN st = 1 .. Len(st) /\ Len(st) \in Nat \ {0}
      /\ Tail(st) \in Stacks /\ DOMAIN Tail(st) = 1 .. Len(Tail(st)) /\ Head(st) = st[1]
      /\ \A i \in 1 .. Len(st) - 1 : Tail(st)[i] = st[i + 1]
  BY DEF Stacks, Working
<1>2. ASSUME Tail(st) # <<>> PROVE Working(Tail(st))
  <2>1. Len(Tail(st)) \in Nat \ {0}
    BY <1>1, <1>2, EmptySeq DEF Stacks
  <2>2. Tail(st)[Len(Tail(st))] = st[Len(st)]
    BY <1>1, <2>1
  <2>3. ASSUME NEW i \in DOMAIN Tail(st) PROVE Tail(st)[i] # "drain"
    <3>1. i \in 1 .. Len(st) - 1 /\ i + 1 \in 1 .. Len(st)
      BY <1>1
    <3> QED
      BY <1>1, <3>1 DEF Working
  <2> QED
    BY <1>2, <2>2, <2>3 DEF Working
<1>3. ASSUME Tail(st) = <<>> PROVE Head(st) \in {"onMessage", "return"}
  <2>1. Len(st) = 1
    BY <1>1, <1>3
  <2> QED
    BY <1>1, <2>1 DEF Working
<1> QED
  BY <1>1, <1>2, <1>3 DEF Working

(* What a call other than read() leaves to run.                              *)
LEMMA WorkingAdded ==
    ASSUME NEW k \in Stacks, Working(k), NEW c, c # "read", NEW said, Call(c, k, said)
    PROVE  Working(stack') /\ buf' = buf
<1>1. buf' = buf
  BY DEF Call, Send, Reconnect, Close, Emits, EmitFails, Redials, RedialFails, rx
<1>2. {"onDisconnect", "reconnect"} \subseteq StackFrames \ {"drain"}
  BY DEF StackFrames, Handlers, Handshakes
<1>3. \/ stack' = k \/ stack' = <<"onDisconnect">> \o k \/ stack' = <<"reconnect">> \o k
  BY DEF Call, Send, Reconnect, Close
<1> QED
  BY <1>1, <1>2, <1>3, WorkingUnder

(* A step that pops the head, or puts a handler or two in its place.         *)
LEMMA WorkingPopped ==
    ASSUME stack \in Stacks, stack # <<>>, held # None => Working(stack),
           Head(stack) \notin {"onMessage", "return"}
    PROVE  held # None =>
             /\ Working(Tail(stack)) /\ Tail(stack) \in Stacks
             /\ \A f \in Handlers : Working(<<f>> \o Tail(stack))
             /\ Working(<<"onReconnect", "onConnect">> \o Tail(stack))
<1> SUFFICES ASSUME held # None
             PROVE  /\ Working(Tail(stack)) /\ Tail(stack) \in Stacks
                    /\ \A f \in Handlers : Working(<<f>> \o Tail(stack))
                    /\ Working(<<"onReconnect", "onConnect">> \o Tail(stack))
  OBVIOUS
<1>1. Working(Tail(stack)) /\ Tail(stack) \in Stacks
  BY WorkingAbove, Above
<1>2. Handlers \subseteq StackFrames \ {"drain"} /\ "onReconnect" \in Handlers /\ "onConnect" \in Handlers
  BY DEF StackFrames, Handlers
<1>3. \A f \in Handlers : Working(<<f>> \o Tail(stack))
  BY <1>1, <1>2, WorkingUnder
<1>4. /\ <<"onConnect">> \o Tail(stack) \in Stacks
      /\ <<"onReconnect", "onConnect">> \o Tail(stack)
           = <<"onReconnect">> \o (<<"onConnect">> \o Tail(stack))
  BY <1>1, <1>2, TwoUnder
<1> QED
  BY <1>1, <1>2, <1>3, <1>4, WorkingUnder

LEMMA NextHolding == ASSUME IInv, Holding, [Next]_vars PROVE Holding'
<1>1. stack \in Stacks
  BY StackTyped
<1>2. SUFFICES ASSUME held' # None PROVE buf' = held' /\ Working(stack')
  BY DEF Holding
<1>3. CASE UNCHANGED <<held, stack, buf>>
  BY <1>2, <1>3 DEF Holding
<1>4. CASE held' = held /\ stack = <<>>
  BY <1>2, <1>4 DEF Holding, Working
<1>5. CASE At("drain") /\ held' = held
  <2>1. held = None
    BY <1>1, <1>5, WorkingAbove DEF Holding, At
  <2> QED
    BY <1>2, <1>5, <2>1
<1>6. CASE TakeMessage \/ BeginSucceeds \/ RedialSucceeds \/ HandshakeFails
  <2>1. /\ stack # <<>> /\ held' = held /\ buf' = buf
        /\ Head(stack) \in Handshakes \union {"read"}
    BY <1>6 DEF TakeMessage, At, Running, app, BeginSucceeds, RedialSucceeds, HandshakeFails,
       HandshakeSucceeds, HandshakeEnds, InHandshake, rx
  <2>2. Head(stack) \notin {"onMessage", "return"} /\ "onConnect" \in Handlers
    BY <2>1 DEF Handshakes, Handlers
  <2>3. /\ Working(Tail(stack)) /\ Working(<<"onConnect">> \o Tail(stack))
        /\ Working(<<"onReconnect", "onConnect">> \o Tail(stack))
    BY <1>1, <1>2, <2>1, <2>2, WorkingPopped DEF Holding
  <2> QED
    BY <1>2, <1>6, <2>1, <2>3 DEF Holding, TakeMessage, BeginSucceeds, RedialSucceeds, HandshakeFails
<1>7. CASE Dispatch
  <2>1. stack # <<>> /\ Head(stack) = "dispatch" /\ Tail(stack) = <<>> /\ buf' = buf
    BY <1>1, <1>7, DispatchAbove DEF Dispatch, At, Running, IInv, Stacked
  <2>2. held = None
    BY <1>1, <2>1, WorkingAbove DEF Holding
  <2>3. held' = buf /\ stack' = <<"onMessage">> \o <<>>
    BY <1>2, <1>7, <2>1, <2>2 DEF Dispatch
  <2>4. Working(<<"onMessage">> \o <<>>)
    <3>1. <<"onMessage">> \o <<>> = <<"onMessage">>
      OBVIOUS
    <3>2. Working(<<"onMessage">>)
      BY DEF Working
    <3> QED
      BY <3>1, <3>2
  <2> QED
    BY <2>1, <2>3, <2>4
<1>8. CASE Handler
  <2>1. /\ stack # <<>> /\ Head(stack) \in Handlers
        /\ \/ stack' = After /\ held' = held /\ buf' = buf
           \/ \E c : /\ Call(c, After, Said)
                    /\ held' = IF c = "read" THEN None ELSE held
    BY <1>8, HandlerSteps DEF rx
  <2>2. Working(stack) /\ buf = held /\ held' = held
    BY <1>2, <2>1 DEF Holding
  <2>3. Tail(stack) \in Stacks
    BY <1>1, <2>1, Above
  <2>4. After \in Stacks /\ Working(After)
    <3>1. CASE Head(stack) # "onMessage"
      <4>1. Head(stack) # "return"
        BY <2>1 DEF Handlers
      <4> QED
        BY <1>1, <2>2, <2>3, <3>1, <4>1, WorkingAbove DEF After
    <3>2. CASE Head(stack) = "onMessage" /\ Tail(stack) # <<>>
      BY <1>1, <2>2, <2>3, <3>2, WorkingAbove, WorkingUnder, Under DEF StackFrames, After
    <3>3. CASE Head(stack) = "onMessage" /\ Tail(stack) = <<>>
      <4>1. <<"return">> \o <<>> = <<"return">>
        OBVIOUS
      <4>2. <<"return">> \in Stacks /\ Working(<<"return">>)
        BY Pushed DEF Stacks, StackFrames, Working
      <4> QED
        BY <3>3, <4>1, <4>2 DEF After
    <3> QED
      BY <3>1, <3>2, <3>3
  <2>5. CASE stack' = After /\ buf' = buf
    BY <2>2, <2>4, <2>5
  <2>6. CASE \E c : Call(c, After, Said) /\ held' = IF c = "read" THEN None ELSE held
    <3>1. PICK c : Call(c, After, Said) /\ held' = IF c = "read" THEN None ELSE held
      BY <2>6
    <3>2. c # "read"
      BY <1>2, <3>1
    <3> QED
      BY <2>2, <2>4, <3>1, <3>2, WorkingAdded
  <2> QED
    BY <2>1, <2>5, <2>6
<1>9. CASE Return
  BY <1>2, <1>9 DEF Return
<1>10. CASE BeginFailsToDial \/ BeginDials \/ Maintain \/ Loop
  BY <1>4, <1>10 DEF BeginFailsToDial, BeginDials, Begins, Maintain, MaintainWaits, MaintainReconnects,
     MaintainPings, MaintainReads, Round, Idle, Loop
<1>11. CASE DrainEnds \/ DrainMessage \/ DrainPing \/ DrainLost
  BY <1>5, <1>11 DEF DrainEnds, DrainMessage, DrainPing, DrainLost, app
<1>12. CASE \/ NetFails \/ NetHeals \/ ServerSends \/ ServerReads \/ ServerLeaves \/ Watchdog
            \/ Tick \/ UNCHANGED vars
  BY <1>3, <1>12 DEF NetFails, NetHeals, ServerSends, ServerReads, ServerLeaves, Watchdog, Tick, app, rx,
     vars
<1> QED
  BY <1>6, <1>7, <1>8, <1>9, <1>10, <1>11, <1>12 DEF Next, Runs

(* A message that arrived is in the buffer until the sketch has it, and      *)
(* onMessage works on a buffer that nothing overwrites until it, or a        *)
(* handler that runs within it, calls read() (USMP.cpp:131-150, 205-213).    *)
THEOREM KeptMessages == Spec => []MessagesKept
<1>1. Init => IInv /\ Owes /\ Holding
  <2>1. Init => Owes /\ Holding
    BY DEF Init, Owes, Holding
  <2> QED
    BY <2>1, InitIInv
<1>2. IInv /\ Owes /\ Holding /\ [Next]_vars => (IInv /\ Owes /\ Holding)'
  BY NextIInv, NextOwes, NextHolding
<1>3. IInv /\ Owes /\ Holding => MessagesKept
  BY DEF Owes, Holding, MessagesKept
<1> QED
  BY <1>1, <1>2, <1>3, PTL DEF Spec

-----------------------------------------------------------------------------
(* What the sketch was told                                                  *)

(* How it is, for a sketch that is said to be connected or not and has the   *)
(* frames of k left to run: an onConnect among them is announced in vain     *)
(* only for a session lost before it.                                        *)
True(k, said) ==
    IF "onConnect" \in Range(k) THEN established \/ hasty
    ELSE /\ established => said
         /\ said => established \/ hasty

(* The handlers have said how it is, or the one that will is the next to     *)
(* run, or a call that will say so by its result.                            *)
Told ==
    /\ stack # <<>> /\ Head(stack) \in Tops => ~established
    /\ \/ True(stack, told)
       \/ /\ stack # <<>> /\ Head(stack) \in {"onDisconnect", "begin", "reconnect"}
          /\ "onConnect" \notin Range(Tail(stack))

LEMMA TellsUnder ==
    ASSUME NEW k, Lower(k), NEW f \in StackFrames
    PROVE  /\ <<f>> \o k # <<>> /\ Head(<<f>> \o k) = f /\ Tail(<<f>> \o k) = k
           /\ Range(<<f>> \o k) = {f} \union Range(k)
BY Under, RangeUnder DEF Lower

(* Nothing is left to run but k.                                             *)
LEMMA ToldNow ==
    ASSUME NEW k, Lower(k), stack' = k, True(k, told)'
    PROVE  Told'
<1>1. PICK st : st = stack'
  OBVIOUS
<1>2. st = k /\ st \in Stacks
  BY <1>1 DEF Lower
<1>3. st # <<>> => Head(st) \notin Tops
  BY <1>2, LowerAbove
<1> QED
  BY <1>1, <1>2, <1>3 DEF Told, True

(* The session is lost with k left to run: an onConnect in it is hasty.      *)
LEMMA ToldNext ==
    ASSUME NEW k, Lower(k), NEW f \in {"onDisconnect", "begin", "reconnect"},
           stack' = <<f>> \o k, ~established', "onConnect" \in Range(k) => hasty'
    PROVE  Told'
<1>1. f \in StackFrames /\ f # "onConnect"
  BY DEF StackFrames, Handlers, Handshakes
<1>2. stack' # <<>> /\ Head(stack') = f /\ Tail(stack') = k /\ Range(stack') = {f} \union Range(k)
  BY <1>1, TellsUnder
<1> QED
  BY <1>1, <1>2 DEF Told, True

(* A session is lost while those of k are due.                               *)
LEMMA LosesTold ==
    ASSUME Loses, NEW k, NEW said, True(k, said),
           Due <=> "onConnect" \in Range(k)
    PROVE  ~established' /\ ("onConnect" \in Range(k) => hasty')
BY DEF Loses, True

LEMMA RedialLoses ==
    ASSUME IInv, Redials \/ RedialFails,
           NEW k, NEW said, True(k, said), Due <=> "onConnect" \in Range(k)
    PROVE  ~established' /\ ("onConnect" \in Range(k) => hasty')
<1>1. CASE HangsUp
  BY <1>1, LosesTold DEF HangsUp
<1>2. CASE link = None /\ UNCHANGED <<established, hasty>>
  BY <1>2 DEF IInv, Owned, True
<1> QED
  BY <1>1, <1>2 DEF Redials, RedialFails

(* A call, of a sketch that was told how it is.                              *)
LEMMA CallTold ==
    ASSUME IInv, NEW c, NEW k, NEW said, Lower(k), Call(c, k, said), True(k, said),
           Due <=> "onConnect" \in Range(k)
    PROVE  Told'
<1>1. CASE Send(k, said)
  <2>1. CASE EmitFails /\ stack' = <<"onDisconnect">> \o k
    BY <2>1, LosesTold, ToldNext DEF EmitFails
  <2>2. CASE stack' = k /\ UNCHANGED session
    <3>1. told' = said /\ UNCHANGED <<established, hasty>>
      BY <1>1, <2>2 DEF Send, session
    <3>2. True(k, told)'
      BY <3>1 DEF True
    <3> QED
      BY <2>2, <3>2, ToldNow
  <2> QED
    BY <1>1, <2>1, <2>2 DEF Send, Emits
<1>2. CASE Read(k, said)
  <2>1. {"drain", "read"} \subseteq StackFrames \ {"dispatch"} /\ {"drain", "read"} \cap Tops = {}
    BY DEF StackFrames, Tops, Handshakes
  <2>2. Lower(<<"read">> \o k) /\ Range(<<"read">> \o k) = {"read"} \union Range(k)
    BY <2>1, LowerUnder, TellsUnder
  <2>3. PICK m : m = <<"drain">> \o (<<"read">> \o k)
    OBVIOUS
  <2>4. Lower(m) /\ Range(m) = {"drain", "read"} \union Range(k)
    BY <2>1, <2>2, <2>3, LowerUnder, TellsUnder
  <2>5. stack' = m
    BY <1>2, <2>1, <2>3, TwoUnder DEF Read, Lower
  <2>6. told' = said /\ UNCHANGED <<established, hasty>>
    BY <1>2 DEF Read, session
  <2>7. True(m, told)'
    BY <2>4, <2>6 DEF True
  <2> QED
    BY <2>4, <2>5, <2>7, ToldNow
<1>3. CASE Reconnect(k, said)
  <2>1. ~established' /\ ("onConnect" \in Range(k) => hasty')
    BY <1>3, RedialLoses DEF Reconnect
  <2>2. CASE stack' = <<"reconnect">> \o k
    BY <2>1, <2>2, ToldNext
  <2>3. CASE stack' = k /\ told' = FALSE
    <3>1. True(k, told)'
      BY <2>1, <2>3 DEF True
    <3> QED
      BY <2>3, <3>1, ToldNow
  <2> QED
    BY <1>3, <2>2, <2>3 DEF Reconnect
<1>4. CASE Close(k)
  <2>1. ~established' /\ ("onConnect" \in Range(k) => hasty') /\ told' = FALSE /\ stack' = k
    BY <1>4, LosesTold DEF Close
  <2>2. True(k, told)'
    BY <2>1 DEF True
  <2> QED
    BY <2>1, <2>2, ToldNow
<1> QED
  BY <1>1, <1>2, <1>3, <1>4 DEF Call

LEMMA Boundary == ASSUME stack = <<>> PROVE ~Due
BY DEF Due

LEMMA BelowHead ==
    ASSUME IInv, stack # <<>>
    PROVE  /\ Lower(Tail(stack)) /\ (Due <=> "onConnect" \in Range(Tail(stack)))
           /\ Range(stack) = {Head(stack)} \union Range(Tail(stack))
BY TailLower, StackTyped, RangeAbove DEF Due

(* With the head gone, what it does not say is as it was.                    *)
LEMMA ToldBelow ==
    ASSUME IInv, Told, stack # <<>>, Head(stack) \notin Tops \union {"onConnect"}
    PROVE  True(Tail(stack), told)
BY BelowHead DEF Told, True, Tops, Handshakes

LEMMA HandlerTold == ASSUME IInv, Told, Handler PROVE Told'
<1>1. /\ stack # <<>> /\ Head(stack) \in Handlers
      /\ \/ stack' = After /\ told' = Said /\ UNCHANGED session
         \/ \E c : Call(c, After, Said)
  BY HandlerSteps
<1>2. Lower(After) /\ (Due <=> "onConnect" \in Range(After))
      /\ ("onConnect" \in Range(After) <=> "onConnect" \in Range(Tail(stack)))
  <2>1. "return" \in StackFrames
    BY DEF StackFrames
  <2> QED
    BY <1>1, <2>1, AfterLower, BelowHead, TellsUnder DEF After
<1>3. True(After, Said)
  <2>1. CASE Head(stack) = "onConnect"
    BY <1>1, <1>2, <2>1, BelowHead DEF Told, True, Said, Tops, Handshakes
  <2>2. CASE Head(stack) = "onDisconnect"
    <3>1. Said = FALSE /\ ~established
      BY <1>1, <2>2 DEF Said, Told, Tops
    <3>2. "onConnect" \in Range(Tail(stack)) => hasty
      BY <1>1, <2>2, <3>1, BelowHead DEF Told, True
    <3> QED
      BY <1>2, <3>1, <3>2 DEF True
  <2>3. CASE Head(stack) \in {"onReconnect", "onMessage"}
    <3>1. Said = told /\ Head(stack) \notin Tops \union {"onConnect"}
      BY <2>3 DEF Said, Tops, Handshakes
    <3> QED
      BY <1>1, <1>2, <3>1, ToldBelow DEF True
  <2> QED
    BY <1>1, <2>1, <2>2, <2>3 DEF Handlers
<1>4. CASE stack' = After /\ told' = Said /\ UNCHANGED session
  <2>1. UNCHANGED <<established, hasty>>
    BY <1>4 DEF session
  <2>2. PICK m, s : m = After /\ s = Said
    OBVIOUS
  <2>3. stack' = m /\ told' = s /\ Lower(m) /\ True(m, s)
    BY <1>2, <1>3, <1>4, <2>2
  <2>4. True(m, told)'
    BY <2>1, <2>3 DEF True
  <2> QED
    BY <2>3, <2>4, ToldNow
<1>5. CASE \E c : Call(c, After, Said)
  BY <1>2, <1>3, <1>5, CallTold
<1> QED
  BY <1>1, <1>4, <1>5

LEMMA AtBoundary ==
    ASSUME IInv, Told, stack = <<>>
    PROVE  /\ Lower(<<>>) /\ Range(<<>>) = {} /\ (Due <=> "onConnect" \in Range(<<>>))
           /\ True(<<>>, told)
<1>1. Lower(<<>>) /\ Range(<<>>) = {} /\ ~Due
  BY LowerEmpty, RangeEmpty, Boundary
<1> QED
  BY <1>1 DEF Told

(* Where nothing is said and nothing happens to the session.                 *)
LEMMA ToldSame ==
    ASSUME Told, UNCHANGED <<stack, established, hasty, told>> PROVE Told'
BY DEF Told, True

LEMMA MaintainTold == ASSUME IInv, Told, Maintain PROVE Told'
<1>1. stack = <<>> /\ told' = told
  BY DEF Maintain, MaintainWaits, MaintainReconnects, MaintainPings, MaintainReads, Round, Idle
<1>2. /\ Lower(<<>>) /\ Range(<<>>) = {} /\ (Due <=> "onConnect" \in Range(<<>>))
      /\ True(<<>>, told)
  BY <1>1, AtBoundary
<1>3. CASE MaintainWaits
  BY <1>1, <1>3, ToldSame DEF MaintainWaits, session
<1>4. CASE MaintainReconnects
  <2>1. ~established /\ established \in BOOLEAN /\ (Redials \/ RedialFails)
    BY <1>4, TypeParts DEF MaintainReconnects, IInv, Core
  <2>2. Loses \/ UNCHANGED <<established, hasty>>
    BY <2>1 DEF Redials, RedialFails, HangsUp
  <2>3. ~established' /\ UNCHANGED <<established, hasty>>
    <3>1. CASE Loses
      <4>1. established' = FALSE /\ hasty' = hasty
        BY <2>1, <3>1 DEF Loses
      <4> QED
        BY <2>1, <4>1
    <3> QED
      BY <2>1, <2>2, <3>1
  <2>4. CASE UNCHANGED stack
    BY <1>1, <2>3, <2>4, ToldSame
  <2>5. CASE stack' = <<"maintain">>
    <3>1. stack' # <<>> /\ Range(stack') = {"maintain"}
      BY <2>5 DEF Range
    <3>2. True(stack, told)'
      BY <1>1, <1>2, <2>3, <3>1 DEF True
    <3> QED
      BY <2>3, <3>2 DEF Told
  <2> QED
    BY <1>4, <2>4, <2>5 DEF MaintainReconnects
<1>5. CASE EmitFails /\ stack' = <<"onDisconnect">>
  <2>1. ~established' /\ ("onConnect" \in Range(<<>>) => hasty')
    BY <1>2, <1>5 DEF EmitFails, Loses
  <2>2. stack' = <<"onDisconnect">> \o <<>>
    BY <1>5
  <2> QED
    BY <1>2, <2>1, <2>2, ToldNext
<1>6. CASE stack' = <<"drain", "dispatch">> /\ UNCHANGED <<established, hasty>>
  <2>1. stack' # <<>> /\ Head(stack') = "drain" /\ Range(stack') = {"drain", "dispatch"}
    BY <1>6 DEF Range
  <2>2. True(stack, told)'
    BY <1>1, <1>2, <1>6, <2>1 DEF True
  <2> QED
    BY <2>1, <2>2 DEF Told, Tops, Handshakes
<1> QED
  BY <1>3, <1>4, <1>5, <1>6 DEF Maintain, MaintainPings, MaintainReads, Emits, session

LEMMA BeginTold == ASSUME IInv, Told, BeginFailsToDial \/ BeginDials PROVE Told'
<1>1. stack = <<>> /\ told' = told
  BY DEF BeginFailsToDial, BeginDials, Begins, Idle
<1>2. CASE BeginFailsToDial
  BY <1>1, <1>2, ToldSame DEF BeginFailsToDial
<1>3. CASE BeginDials
  <2>1. Lower(<<>>) /\ Range(<<>>) = {} /\ ~established' /\ stack' = <<"begin">> \o <<>>
    BY <1>1, <1>3, AtBoundary DEF BeginDials, Loses
  <2> QED
    BY <2>1, ToldNext
<1> QED
  BY <1>2, <1>3

LEMMA HandshakeTold ==
    ASSUME IInv, Told, BeginSucceeds \/ RedialSucceeds \/ HandshakeFails PROVE Told'
<1>1. stack # <<>> /\ Head(stack) \in Handshakes
  BY DEF BeginSucceeds, RedialSucceeds, HandshakeFails, HandshakeSucceeds, HandshakeEnds,
         InHandshake, Running
<1>2. /\ Lower(Tail(stack)) /\ Range(stack) = {Head(stack)} \union Range(Tail(stack))
      /\ {"onConnect", "onReconnect"} \subseteq StackFrames \ ({"dispatch"} \union Tops)
      /\ "maintain" \notin {"onDisconnect", "begin", "reconnect", "onConnect"}
      /\ Head(stack) \in Tops /\ "onConnect" \notin Handshakes
  BY <1>1, BelowHead DEF StackFrames, Handlers, Handshakes, Tops
<1>3. PICK k : k = Tail(stack)
  OBVIOUS
<1>4. Lower(<<"onConnect">> \o k) /\ Range(<<"onConnect">> \o k) = {"onConnect"} \union Range(k)
  BY <1>2, <1>3, LowerUnder, TellsUnder
<1>5. CASE BeginSucceeds
  <2>1. stack' = <<"onConnect">> \o k /\ established'
    BY <1>3, <1>5 DEF BeginSucceeds, HandshakeSucceeds, Established
  <2>2. PICK m : m = <<"onConnect">> \o k
    OBVIOUS
  <2>3. Lower(m) /\ stack' = m /\ True(m, told)'
    BY <1>4, <2>1, <2>2 DEF True
  <2> QED
    BY <2>3, ToldNow
<1>6. CASE RedialSucceeds
  <2>1. stack' = <<"onReconnect", "onConnect">> \o k /\ established'
    BY <1>3, <1>6 DEF RedialSucceeds, HandshakeSucceeds, Established
  <2>2. PICK m : m = <<"onReconnect">> \o (<<"onConnect">> \o k)
    OBVIOUS
  <2>3. stack' = m
    BY <1>2, <1>3, <2>1, <2>2, TwoUnder DEF Lower
  <2>4. Lower(m) /\ "onConnect" \in Range(m)
    BY <1>2, <1>4, <2>2, LowerUnder, TellsUnder
  <2>5. True(m, told)'
    BY <2>1, <2>4 DEF True
  <2> QED
    BY <2>3, <2>4, <2>5, ToldNow
<1>7. CASE HandshakeFails
  <2>1. /\ stack' = k /\ told' = (told /\ Head(stack) = "maintain")
        /\ UNCHANGED <<established, hasty>>
    BY <1>3, <1>7 DEF HandshakeFails, session
  <2>2. ~established
    BY <1>1, <1>2 DEF Told
  <2>3. CASE Head(stack) = "maintain"
    <3>1. True(stack, told)
      BY <1>2, <2>3 DEF Told
    <3>2. True(k, told)
      BY <1>2, <1>3, <2>3, <3>1 DEF True
    <3>3. told' <=> told
      BY <2>1, <2>3
    <3>4. True(k, told)'
      BY <2>1, <3>2, <3>3 DEF True
    <3> QED
      BY <1>2, <1>3, <2>1, <3>4, ToldNow
  <2>4. CASE Head(stack) # "maintain"
    <3>1. ~told'
      BY <2>1, <2>4
    <3>2. "onConnect" \in Range(k) => hasty
      BY <1>2, <1>3, <2>2 DEF Told, True
    <3>3. True(k, told)'
      BY <2>1, <2>2, <3>1, <3>2 DEF True
    <3> QED
      BY <1>2, <1>3, <2>1, <3>3, ToldNow
  <2> QED
    BY <2>3, <2>4
<1> QED
  BY <1>5, <1>6, <1>7

LEMMA DrainTold ==
    ASSUME IInv, Told,
           DrainEnds \/ DrainMessage \/ DrainPing \/ DrainLost \/ TakeMessage \/ Dispatch \/ Return
    PROVE  Told'
<1>1. stack # <<>> /\ Head(stack) \in {"drain", "read", "dispatch", "return"} /\ told' = told
  BY DEF DrainEnds, DrainMessage, DrainPing, DrainLost, TakeMessage, Dispatch, Return, At, Running, app
<1>2. Lower(Tail(stack)) /\ (Due <=> "onConnect" \in Range(Tail(stack))) /\ True(Tail(stack), told)
  <2>1. Head(stack) \notin Tops \union {"onConnect"}
    BY <1>1 DEF Tops, Handshakes
  <2> QED
    BY <1>1, <2>1, BelowHead, ToldBelow
<1>3. PICK k, said : k = Tail(stack) /\ said = told
  OBVIOUS
<1>4. Lower(k) /\ True(k, said) /\ (Due <=> "onConnect" \in Range(k)) /\ told' = said
  BY <1>1, <1>2, <1>3
<1>5. CASE stack' = k /\ UNCHANGED <<established, hasty>>
  <2>1. True(k, told)'
    BY <1>4, <1>5 DEF True
  <2> QED
    BY <1>4, <1>5, <2>1, ToldNow
<1>6. CASE Loses /\ stack' = <<"onDisconnect">> \o k
  BY <1>4, <1>6, LosesTold, ToldNext
<1>7. CASE UNCHANGED <<stack, established, hasty>>
  BY <1>1, <1>7, ToldSame
<1>8. CASE stack' = <<"onMessage">> \o k /\ UNCHANGED <<established, hasty>>
  <2>1. "onMessage" \in StackFrames \ {"dispatch"} /\ "onMessage" \notin Tops
    BY DEF StackFrames, Handlers, Handshakes, Tops
  <2>2. PICK m : m = <<"onMessage">> \o k
    OBVIOUS
  <2>3. Lower(m) /\ Range(m) = {"onMessage"} \union Range(k) /\ stack' = m
    BY <1>4, <1>8, <2>1, <2>2, LowerUnder, TellsUnder
  <2>4. True(m, told)'
    BY <1>4, <1>8, <2>3 DEF True
  <2> QED
    BY <2>3, <2>4, ToldNow
<1>9. CASE DrainPing
  <2>1. CASE Emits /\ UNCHANGED stack
    BY <1>7, <2>1 DEF Emits, session
  <2>2. CASE EmitFails /\ stack' = <<"onDisconnect">> \o Tail(stack)
    BY <1>3, <1>6, <2>2 DEF EmitFails
  <2> QED
    BY <1>9, <2>1, <2>2 DEF DrainPing
<1>10. CASE DrainLost
  BY <1>3, <1>6, <1>10 DEF DrainLost
<1>11. CASE DrainEnds \/ DrainMessage \/ TakeMessage \/ Return
  BY <1>3, <1>5, <1>11 DEF DrainEnds, DrainMessage, TakeMessage, Return, session
<1>12. CASE Dispatch
  BY <1>3, <1>5, <1>8, <1>12 DEF Dispatch, session
<1> QED
  BY <1>9, <1>10, <1>11, <1>12

LEMMA NextTold == ASSUME IInv, Told, [Next]_vars PROVE Told'
<1>1. CASE Loop
  <2>1. stack = <<>> /\ \E c : Call(c, <<>>, told)
    BY <1>1 DEF Loop, Idle
  <2>2. PICK k, said : k = <<>> /\ said = told
    OBVIOUS
  <2>3. Lower(k) /\ True(k, said) /\ (Due <=> "onConnect" \in Range(k))
    BY <2>1, <2>2, AtBoundary
  <2>4. \E c : Call(c, k, said)
    BY <2>1, <2>2
  <2> QED
    BY <2>3, <2>4, CallTold
<1>2. CASE \/ NetFails \/ NetHeals \/ ServerSends \/ ServerReads \/ ServerLeaves \/ Watchdog
           \/ Tick \/ UNCHANGED vars
  BY <1>2, ToldSame DEF NetFails, NetHeals, ServerSends, ServerReads, ServerLeaves, Watchdog, Tick,
     vars, session, app
<1> QED
  BY <1>1, <1>2, BeginTold, MaintainTold, HandshakeTold, DrainTold, HandlerTold DEF Next, Runs

(* Between two calls the sketch knows whether it is connected, whatever      *)
(* nesting of handlers and calls told it so, but for a session lost while    *)
(* its onConnect was due (USMP.h:29-41, USMP.cpp:188-189).                   *)
THEOREM ToldTheTruth == Spec => []CallbacksAgree
<1>1. Init => Told
  BY RangeEmpty DEF Init, Told, True
<1>2. IInv /\ Told => CallbacksAgree
  <2> SUFFICES ASSUME IInv, Told, stack = <<>>
               PROVE  (established => told) /\ (told => established \/ hasty)
    BY DEF CallbacksAgree
  <2>1. True(<<>>, told) /\ Range(<<>>) = {}
    BY AtBoundary
  <2> QED
    BY <2>1 DEF True
<1> QED
  BY <1>1, <1>2, Invariance, NextTold, PTL DEF Spec
=============================================================================
