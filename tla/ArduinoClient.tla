--------------------------- MODULE ArduinoClient ---------------------------
(* USMPClient of the Arduino port (USMP.cpp): the object a sketch keeps for  *)
(* the life of the device, over the C core's usmp_connect, usmp_reconnect,   *)
(* usmp_send, usmp_recv and usmp_close (usmp_connect.c, usmp_session.c) and  *)
(* a transport whose context lives on the heap (USMPTransport.cpp).          *)
(*                                                                           *)
(* Everything runs in one thread, yet nothing is atomic for the sketch: the  *)
(* library calls the sketch's handlers in the middle of its own functions,   *)
(* and they call the library again.  stack is what is left to run: handlers  *)
(* to be called, and the tails of the functions that called them.            *)
EXTENDS Naturals, Sequences, SequencesExt

CONSTANTS
    Contexts,                 \* transport contexts on the heap
    Messages,
    Sketches,                 \* the programs: what loop() and each handler may call
    BackoffCap,               \* 30000 ms, in units of the first back-off, 2000 ms
    KeepAlive,                \* keepalive_ms: 30 s by default
    Timeout,                  \* session_timeout of the server
    InboxCap,                 \* bound of the model
    None

Handlers == {"onConnect", "onReconnect", "onDisconnect", "onMessage"}
Handshakes == {"begin", "reconnect", "maintain"}   \* whose functions perform one
Calls == {"send", "read", "reconnect", "close"}
Longest == 2 * BackoffCap - 1 \* since saturates there: no back-off is longer

ASSUME ArduinoAssumption ==
    /\ None \notin Contexts \union Messages
    /\ BackoffCap \in Nat \ {0} /\ KeepAlive \in Nat \ {0}
    /\ Timeout \in Nat /\ KeepAlive < Timeout
    /\ InboxCap \in Nat \ {0}
    /\ \A s \in Sketches :
         /\ s.calls \in [Handlers \union {"loop"} -> SUBSET Calls]
         /\ s.transport \in {"udp", "tcp"}
         /\ s.listens \in BOOLEAN      \* it has an onMessage handler
         /\ s.tries \in BOOLEAN        \* it calls begin() more than once

VARIABLES
    established,              \* _ctx.established
    keyed,                    \* _ctx.tx_key and rx_key are set
    link,                     \* _ctx.transport.ctx, None before the first handshake
    own,                      \* _transport.ctx, None when NULL
    heap,                     \* contexts: free, dialled, or armed with session keys
    initialized, backoff,
    since,                    \* millis() - _last_attempt_ms
    idle,                     \* usmp_port_millis() - last_tx_ms
    full, buf,                \* _rx_len > 0; the message in _rx_buf
    stack,
    net,                      \* the server can be reached, and takes the session
    peer,                     \* the server has the session this client had last
    inbox,                    \* arrived, and not read from the socket
    unread,                   \* at the server: a frame that recv() has not read
    quiet,                    \* at the server: time since _last_recv
    answer,                   \* to the handshake under way: coming, doubtful, lost
    sketch, begun, looped,    \* the program; begin() was called; maintain() was,
                              \* in this round of loop()
    told,                     \* history: connected, as the sketch was told
    hasty,                    \* history: the last session was lost while an
                              \* onConnect was still due
    held,                     \* history: the message onMessage is working on
    owed,                     \* history: received, and not given to the sketch
    steady,                   \* history: since the session was made the network
                              \* held and the server read what arrived
    strayed,                  \* history: the sketch called begin() while it had a
                              \* context, or reconnect() or close() on a closed client
    misuse                    \* history: a freed context was used

context == <<keyed, link, own, heap, initialized>>
session == <<established, hasty, context>>
timer == <<backoff, since>>
rx == <<full, buf, owed>>
server == <<net, peer, inbox>>
heard == <<unread, quiet>>
app == <<sketch, begun, looped, told, held>>
flags == <<steady, strayed, misuse>>
vars == <<session, timer, idle, rx, stack, server, heard, answer, app, flags>>

Init ==
    /\ established = FALSE /\ keyed = FALSE /\ link = None /\ own = None
    /\ heap = [c \in Contexts |-> "free"]
    /\ initialized = FALSE /\ backoff = 1 /\ since = 0 /\ idle = 0
    /\ full = FALSE /\ buf = None /\ stack = <<>>
    /\ net \in BOOLEAN /\ peer = FALSE /\ inbox = <<>> /\ unread = FALSE /\ quiet = 0
    /\ answer = "coming"
    /\ sketch \in Sketches /\ begun = FALSE /\ looped = FALSE
    /\ told = FALSE /\ hasty = FALSE /\ held = None /\ owed = {}
    /\ steady = FALSE /\ strayed = FALSE /\ misuse = FALSE

Freed(c) == c # None /\ heap[c] = "free"

(* The processor runs until a freed context is used: what the build does     *)
(* then is undefined.                                                        *)
Running == ~misuse /\ stack # <<>>
Idle == ~misuse /\ stack = <<>>

(* close() was called, and no begin() has dialled since. *)
Closed == own = None /\ link # None

-----------------------------------------------------------------------------
(* The calls of the C core                                                   *)

Reached == net /\ peer

(* Of the handlers due, the one that runs is not. *)
Due == stack # <<>> /\ "onConnect" \in Range(Tail(stack))

(* There is no session from here on; what its socket held is never read. *)
Loses ==
    /\ established' = FALSE /\ inbox' = <<>>
    /\ hasty' = IF established THEN Due ELSE hasty

(* The server ends the session: what it kept of it is gone. *)
Forgets == peer' = FALSE /\ unread' = FALSE /\ quiet' = 0 /\ steady' = FALSE

(* emit_frame succeeds: the frame is acknowledged over UDP; over TCP it was  *)
(* taken by the socket, which also takes some that never arrive. *)
Emits ==
    /\ established
    /\ \/ Reached /\ unread' = TRUE
       \/ ~Reached /\ sketch.transport = "tcp" /\ UNCHANGED unread
    /\ idle' = 0
    /\ misuse' = (misuse \/ Freed(link))
    /\ UNCHANGED <<session, timer, rx, net, peer, quiet, answer, steady, strayed>>

(* The session outlives the failure (mutant). *)
EmitFailsKeeps ==
    /\ established /\ ~Reached
    /\ idle' = 0
    /\ misuse' = (misuse \/ Freed(link))
    /\ UNCHANGED <<session, inbox, timer, rx, net, peer, heard, answer, steady, strayed>>

(* It fails: five retransmissions without an acknowledgement, or TCP gives   *)
(* the connection up. *)
EmitFails ==
    /\ established /\ ~Reached
    /\ idle' = 0
    /\ Loses
    /\ misuse' = (misuse \/ Freed(link))
    /\ UNCHANGED <<context, timer, rx, net, peer, heard, answer, steady, strayed>>

(* The end of usmp_connect and usmp_reconnect: a session over the link.      *)
Established ==
    /\ established' = TRUE /\ keyed' = TRUE /\ hasty' = FALSE
    /\ heap' = [heap EXCEPT ![link] = "armed"]
    /\ idle' = 0
    /\ peer' = TRUE /\ inbox' = <<>> /\ unread' = FALSE /\ quiet' = 0
    /\ steady' = TRUE
    /\ UNCHANGED <<link, own, net, strayed, misuse>>

(* The session is dropped only once the handshake is over (mutant). *)
HangsUpLate ==
    /\ keyed' = FALSE
    /\ heap' = IF Freed(link) THEN heap ELSE [heap EXCEPT ![link] = "dialled"]
    /\ misuse' = (misuse \/ Freed(link))
    /\ UNCHANGED <<established, hasty, inbox>>

HangsUp ==
    /\ Loses /\ keyed' = FALSE
    /\ heap' = IF Freed(link) THEN heap ELSE [heap EXCEPT ![link] = "dialled"]
    /\ misuse' = (misuse \/ Freed(link))

(* A dialled transport does not mean that the server is there. *)
Expected == IF net THEN "coming" ELSE "doubtful"

(* usmp_reconnect, up to the handshake. *)
Redials ==
    /\ link # None /\ HangsUp
    /\ answer' = Expected
    /\ UNCHANGED <<link, own, initialized, idle, rx, net, peer, heard, steady>>

(* The transport does not dial; or there never was one. *)
RedialFails ==
    /\ \/ link # None /\ ~net /\ HangsUp
       \/ link = None /\ keyed' = FALSE /\ UNCHANGED <<established, hasty, inbox, heap, misuse>>
    /\ UNCHANGED <<link, own, initialized, idle, rx, net, peer, heard, answer, steady>>

-----------------------------------------------------------------------------
(* USMPClient: each of these leaves k for afterwards; said is what the sketch *)
(* was told so far.                                                          *)

(* What has arrived is read first (mutant). *)
SendReads(k, said) ==
    /\ told' = said
    /\ \/ /\ ~established
          /\ stack' = k
          /\ UNCHANGED <<session, timer, idle, rx, server, heard, answer, flags>>
       \/ Emits /\ UNCHANGED inbox /\ stack' = <<"drain">> \o k
       \/ EmitFails /\ stack' = <<"onDisconnect">> \o k

Send(k, said) ==
    /\ told' = said
    /\ \/ /\ ~established
          /\ stack' = k
          /\ UNCHANGED <<session, timer, idle, rx, server, heard, answer, flags>>
       \/ Emits /\ UNCHANGED inbox /\ stack' = k
       \/ EmitFails /\ stack' = <<"onDisconnect">> \o k

(* available() and read(), of which the sketch makes the one when the other  *)
(* says so.                                                                  *)
Read(k, said) ==
    /\ told' = said
    /\ stack' = <<"drain", "read">> \o k
    /\ UNCHANGED <<session, timer, idle, rx, server, heard, answer, flags>>

(* Of a failure the sketch is told by the result. *)
Reconnect(k, said) ==
    /\ strayed' = (strayed \/ Closed)
    /\ UNCHANGED timer
    /\ \/ Redials /\ told' = said /\ stack' = <<"reconnect">> \o k
       \/ RedialFails /\ told' = FALSE /\ stack' = k

(* initialized is not reset (mutant). *)
CloseKeepsInitialized(k) ==
    /\ IF established /\ net THEN Forgets ELSE UNCHANGED <<peer, heard, steady>>
    /\ Loses /\ keyed' = FALSE
    /\ misuse' = (misuse \/ Freed(link)) /\ strayed' = (strayed \/ Closed)
    /\ heap' = IF own = None THEN heap ELSE [heap EXCEPT ![own] = "free"]
    /\ own' = None
    /\ full' = FALSE /\ owed' = {}
    /\ told' = FALSE
    /\ stack' = k
    /\ UNCHANGED <<link, initialized, timer, idle, buf, net, answer>>

(* BYE if there is a session to end; the socket is closed through the copy   *)
(* in _ctx, which keeps the address of the context that is freed here.       *)
Close(k) ==
    /\ IF established /\ net THEN Forgets ELSE UNCHANGED <<peer, heard, steady>>
    /\ Loses /\ keyed' = FALSE
    /\ misuse' = (misuse \/ Freed(link)) /\ strayed' = (strayed \/ Closed)
    /\ heap' = IF own = None THEN heap ELSE [heap EXCEPT ![own] = "free"]
    /\ own' = None
    /\ full' = FALSE /\ owed' = {} /\ initialized' = FALSE
    /\ told' = FALSE
    /\ stack' = k
    /\ UNCHANGED <<link, timer, idle, buf, net, answer>>

Call(c, k, said) ==
    \/ c = "send" /\ Send(k, said)
    \/ c = "read" /\ Read(k, said)
    \/ c = "reconnect" /\ Reconnect(k, said)
    \/ c = "close" /\ Close(k)

(* begin, called between two rounds of loop(). *)
Begins ==
    /\ Idle /\ looped
    /\ begun => sketch.tries
    /\ begun' = TRUE /\ looped' = FALSE
    /\ strayed' = (strayed \/ own # None)
    /\ UNCHANGED <<sketch, told, held, initialized, timer, idle, rx, net, peer, heard, steady,
                   misuse>>

(* There is no WiFi; or init() failed, after _transport was cleared. *)
BeginFailsToDial ==
    /\ Begins /\ ~net
    /\ own' \in {own, None}
    /\ UNCHANGED <<established, hasty, keyed, link, heap, inbox, stack, answer>>

(* init() made a context; the handshake is next. *)
BeginDials ==
    /\ Begins
    /\ \E c \in Contexts :
         /\ heap[c] = "free"
         /\ own' = c /\ link' = c
         /\ heap' = [heap EXCEPT ![c] = "dialled"]
    /\ Loses /\ keyed' = FALSE
    /\ answer' = Expected
    /\ stack' = <<"begin">>

-----------------------------------------------------------------------------
(* maintain                                                                  *)

Round ==
    /\ Idle /\ ~looped
    /\ looped' = TRUE
    /\ UNCHANGED <<sketch, begun, told, held, strayed>>

(* The attempt is dated before it is known whether it is due (mutant). *)
MaintainWaitsAnew ==
    /\ Round
    /\ ~initialized \/ (~established /\ since < backoff)
    /\ since' = IF initialized THEN 0 ELSE since
    /\ UNCHANGED <<session, backoff, idle, rx, stack, server, heard, answer, steady, misuse>>

MaintainWaits ==
    /\ Round
    /\ ~initialized \/ (~established /\ since < backoff)
    /\ UNCHANGED <<session, timer, idle, rx, stack, server, heard, answer, steady, misuse>>

Longer == IF backoff < BackoffCap THEN 2 * backoff ELSE backoff

MaintainReconnects ==
    /\ Round
    /\ initialized /\ ~established /\ since >= backoff
    /\ since' = 0
    /\ \/ Redials /\ stack' = <<"maintain">> /\ UNCHANGED backoff
       \/ RedialFails /\ backoff' = Longer /\ UNCHANGED stack

MaintainPings ==
    /\ Round
    /\ initialized /\ established /\ idle >= KeepAlive
    /\ \/ Emits /\ UNCHANGED inbox /\ stack' = <<"drain", "dispatch">>
       \/ EmitFails /\ stack' = <<"onDisconnect">>

MaintainReads ==
    /\ Round
    /\ initialized /\ established /\ idle < KeepAlive
    /\ stack' = <<"drain", "dispatch">>
    /\ UNCHANGED <<session, timer, idle, rx, server, heard, answer, steady, misuse>>

Maintain == MaintainWaits \/ MaintainReconnects \/ MaintainPings \/ MaintainReads

-----------------------------------------------------------------------------
(* What is on the stack                                                      *)

At(f) == Running /\ Head(stack) = f

InHandshake == Running /\ Head(stack) \in Handshakes

(* Its reads have no bound: without its answer a handshake never returns.    *)
Hung == InHandshake /\ answer = "lost"

HandshakeEnds == InHandshake /\ answer' = "coming" /\ UNCHANGED <<sketch, begun, looped, held>>

HandshakeSucceeds == HandshakeEnds /\ net /\ answer # "lost" /\ Established /\ UNCHANGED <<buf, told>>

BeginSucceeds ==
    /\ HandshakeSucceeds /\ Head(stack) = "begin"
    /\ initialized' = TRUE /\ backoff' = 1
    /\ since' \in {0, Longest}          \* _last_attempt_ms = 0: since boot
    /\ full' = FALSE /\ owed' = {}
    /\ stack' = <<"onConnect">> \o Tail(stack)

RedialSucceeds ==
    /\ HandshakeSucceeds /\ Head(stack) # "begin"
    /\ backoff' = IF Head(stack) = "maintain" THEN 1 ELSE backoff
    /\ stack' = <<"onReconnect", "onConnect">> \o Tail(stack)
    /\ UNCHANGED <<initialized, since, full, owed>>

(* A frame of it was never acknowledged, or its connection ended.  The       *)
(* context stays; begin() and reconnect() return false. *)
HandshakeFails ==
    /\ HandshakeEnds /\ answer = "doubtful"
    /\ backoff' = IF Head(stack) = "maintain" THEN Longer ELSE backoff
    /\ told' = (told /\ Head(stack) = "maintain")
    /\ stack' = Tail(stack)
    /\ UNCHANGED <<session, since, idle, rx, server, heard, flags>>

(* _drain_rx: it stops at the first message, and reads no other while that   *)
(* one waits. *)
Drains == established /\ ~full /\ own # None /\ inbox # <<>>

DrainEnds ==
    /\ At("drain") /\ ~Drains
    /\ stack' = Tail(stack)
    /\ UNCHANGED <<session, timer, idle, rx, server, heard, answer, app, flags>>

(* Traffic of the server counts for the keepalive (mutant). *)
DrainMessageIsTraffic ==
    /\ At("drain") /\ Drains /\ Head(inbox) \in Messages
    /\ inbox' = Tail(inbox) /\ idle' = 0
    /\ full' = TRUE /\ buf' = Head(inbox) /\ owed' = owed \union {Head(inbox)}
    /\ stack' = Tail(stack)
    /\ UNCHANGED <<session, timer, net, peer, heard, answer, app, flags>>

DrainMessage ==
    /\ At("drain") /\ Drains /\ Head(inbox) \in Messages
    /\ inbox' = Tail(inbox)
    /\ full' = TRUE /\ buf' = Head(inbox) /\ owed' = owed \union {Head(inbox)}
    /\ stack' = Tail(stack)
    /\ UNCHANGED <<session, timer, idle, net, peer, heard, answer, app, flags>>

(* A PING is answered. *)
DrainPing ==
    /\ At("drain") /\ Drains /\ Head(inbox) = "PING"
    /\ \/ Emits /\ inbox' = Tail(inbox) /\ UNCHANGED stack
       \/ EmitFails /\ stack' = <<"onDisconnect">> \o Tail(stack)
    /\ UNCHANGED app

(* The handler is not called (mutant). *)
DrainLostSilently ==
    /\ At("drain") /\ Drains /\ Head(inbox) = "LAST"
    /\ Loses
    /\ stack' = Tail(stack)
    /\ UNCHANGED <<context, timer, idle, rx, net, peer, heard, answer, app, flags>>

(* A BYE, or a frame that usmp_recv gives the session up for. *)
DrainLost ==
    /\ At("drain") /\ Drains /\ Head(inbox) = "LAST"
    /\ Loses
    /\ stack' = <<"onDisconnect">> \o Tail(stack)
    /\ UNCHANGED <<context, timer, idle, rx, net, peer, heard, answer, app, flags>>

(* The tail of read(). *)
TakeMessage ==
    /\ At("read")
    /\ full' = FALSE
    /\ owed' = IF full THEN owed \ {buf} ELSE owed
    /\ stack' = Tail(stack)
    /\ UNCHANGED <<session, timer, idle, buf, server, heard, answer, app, flags>>

(* The tail of maintain(): a handler is given the buffer itself. *)
Dispatch ==
    /\ At("dispatch")
    /\ IF sketch.listens /\ full
       THEN /\ full' = FALSE /\ owed' = owed \ {buf}
            /\ held' = buf
            /\ stack' = <<"onMessage">> \o Tail(stack)
       ELSE /\ stack' = Tail(stack)
            /\ UNCHANGED <<full, owed, held>>
    /\ UNCHANGED <<session, timer, idle, buf, server, heard, answer, sketch, begun, looped, told,
                   flags>>

(* A handler: it makes one of its calls, or none, and returns.  A read()     *)
(* takes the buffer from the onMessage below it. *)
Handler ==
    /\ Running /\ Head(stack) \in Handlers
    /\ LET said == CASE Head(stack) = "onConnect" -> TRUE
                     [] Head(stack) = "onDisconnect" -> FALSE
                     [] OTHER -> told
           after == IF Head(stack) = "onMessage" THEN <<"return">> \o Tail(stack)
                    ELSE Tail(stack)
       IN  \/ /\ stack' = after /\ told' = said
              /\ UNCHANGED <<session, timer, idle, rx, server, heard, answer, flags, held>>
           \/ \E c \in sketch.calls[Head(stack)] :
                /\ Call(c, after, said)
                /\ held' = IF c = "read" THEN None ELSE held
    /\ UNCHANGED <<sketch, begun, looped>>

Return ==
    /\ At("return")
    /\ held' = None
    /\ stack' = Tail(stack)
    /\ UNCHANGED <<session, timer, idle, rx, server, heard, answer, sketch, begun, looped, told,
                   flags>>

Runs ==
    \/ BeginSucceeds \/ RedialSucceeds \/ HandshakeFails
    \/ DrainEnds \/ DrainMessage \/ DrainPing \/ DrainLost
    \/ TakeMessage \/ Dispatch \/ Handler \/ Return

(* After maintain() the sketch may do something of its own, then loop() runs *)
(* again. *)
Loop ==
    /\ Idle /\ looped
    /\ looped' = FALSE
    /\ \E c \in sketch.calls["loop"] : Call(c, <<>>, told)
    /\ UNCHANGED <<sketch, begun, held>>

-----------------------------------------------------------------------------
(* The network, the server and time                                          *)

(* What a handshake waits for may be lost with the network. *)
NetFails ==
    /\ net /\ net' = FALSE /\ steady' = FALSE
    /\ answer' \in IF InHandshake /\ answer # "lost" THEN {"doubtful", "lost"} ELSE {answer}
    /\ UNCHANGED <<session, timer, idle, rx, stack, peer, inbox, heard, app, strayed, misuse>>

NetHeals ==
    /\ ~net /\ net' = TRUE
    /\ UNCHANGED <<session, timer, idle, rx, stack, peer, inbox, heard, answer, app, flags>>

Known == Range(inbox) \union owed \union {buf}

ServerSends ==
    /\ established /\ Reached /\ Len(inbox) < InboxCap
    /\ \E f \in (Messages \ Known) \union {"PING", "LAST"} : inbox' = Append(inbox, f)
    /\ UNCHANGED <<session, timer, idle, rx, stack, net, peer, heard, answer, app, flags>>

(* Its application awaits recv(), which dates _last_recv. *)
ServerReads ==
    /\ peer /\ unread
    /\ unread' = FALSE /\ quiet' = 0
    /\ UNCHANGED <<session, timer, idle, rx, stack, server, answer, app, flags>>

(* It says BYE if it can, and not when it crashes. *)
ServerLeaves ==
    /\ peer /\ Forgets
    /\ \/ UNCHANGED inbox
       \/ established /\ net /\ Len(inbox) < InboxCap /\ inbox' = Append(inbox, "LAST")
    /\ UNCHANGED <<session, timer, idle, rx, stack, net, answer, app, strayed, misuse>>

(* The server's watchdog closes the transport of a session gone silent. *)
Watchdog ==
    /\ peer /\ quiet > Timeout
    /\ Forgets
    /\ UNCHANGED <<session, timer, idle, rx, stack, net, inbox, answer, app, strayed, misuse>>

UpTo(n, most) == IF n < most THEN n + 1 ELSE n

Tick ==
    /\ Idle /\ looped
    /\ looped' = FALSE
    /\ since' = UpTo(since, Longest)
    /\ idle' = IF established THEN UpTo(idle, KeepAlive) ELSE idle
    /\ quiet' = IF peer THEN UpTo(quiet, Timeout + 1) ELSE quiet
    /\ steady' = (steady /\ ~unread)
    /\ UNCHANGED <<session, backoff, rx, stack, server, unread, answer, sketch, begun, told, held,
                   strayed, misuse>>

Next ==
    \/ BeginFailsToDial \/ BeginDials
    \/ Maintain \/ Runs \/ Loop
    \/ NetFails \/ NetHeals \/ ServerSends \/ ServerReads \/ ServerLeaves \/ Watchdog
    \/ Tick

Spec == Init /\ [][Next]_vars

(* The processor runs what there is to run, loop() is called again and again *)
(* with maintain() in it, and time passes however busy the sketch is.        *)
FairSpec ==
    /\ Spec
    /\ WF_vars(Maintain) /\ WF_vars(Runs) /\ SF_vars(Tick)

-----------------------------------------------------------------------------

(* The state has its type. *)
TypeOK ==
    /\ {established, keyed, initialized, full, net, peer, unread} \subseteq BOOLEAN
    /\ {begun, looped, told, hasty, steady, strayed, misuse} \subseteq BOOLEAN
    /\ link \in Contexts \union {None} /\ own \in Contexts \union {None}
    /\ heap \in [Contexts -> {"free", "dialled", "armed"}]
    /\ backoff \in 1 .. Longest /\ since \in 0 .. Longest
    /\ idle \in 0 .. KeepAlive /\ quiet \in 0 .. Timeout + 1
    /\ answer \in {"coming", "doubtful", "lost"}
    /\ buf \in Messages \union {None} /\ held \in Messages \union {None}
    /\ owed \subseteq Messages
    /\ stack \in Seq(Handlers \union Handshakes \union {"drain", "read", "dispatch", "return"})
    /\ Len(inbox) <= InboxCap /\ inbox \in Seq(Messages \union {"PING", "LAST"})
    /\ sketch \in Sketches

(* Between two calls the sketch has been told the truth, whatever nesting of *)
(* calls brought the client there: onConnect was the last word while there   *)
(* is a session, onDisconnect, or the failure of its own reconnect() or      *)
(* begin(), once it is lost (USMP.h:29-41).  With one exception: a session   *)
(* lost while an onConnect is still due, by a call that onReconnect makes    *)
(* before it, is announced by it when it is dead (USMP.cpp:188-189).         *)
CallbacksAgree ==
    stack = <<>> => /\ established => told
                    /\ told => established \/ hasty

(* A session can be used: it has its keys, and both copies of the transport  *)
(* point to one live context, armed with them (the copy in _ctx is what the  *)
(* core sends through, the one of USMPClient is what _drain_rx polls);       *)
(* unless the sketch called begin() while it had a context, or reconnect()   *)
(* on a closed client.                                                       *)
SessionUsable ==
    established /\ ~strayed => keyed /\ link = own /\ link # None /\ heap[link] = "armed"

(* Of the heap only the client's own context is in use, and nothing of it is *)
(* used after it was freed, whatever the losses and the calls of the sketch  *)
(* and its handlers, but for two: begin() while there is a context leaks it, *)
(* and reconnect() or close() on a client that is closed, and that no        *)
(* begin() has dialled for since, uses the freed one (USMP.cpp:78, 223-239). *)
ContextsOwned ==
    ~strayed => /\ \A c \in Contexts : heap[c] # "free" <=> c = own
                /\ ~misuse

(* What usmp_recv returned is given to the sketch once, before another       *)
(* message takes its place in the buffer; and while onMessage works, on      *)
(* _rx_buf itself, none of the calls it makes, nor the handlers those call   *)
(* in turn, overwrites it, unless one of them is a read().                   *)
MessagesKept ==
    /\ owed = IF full THEN {buf} ELSE {}
    /\ held # None => buf = held

(* The keepalive spares a session the watchdog, once begin() has succeeded   *)
(* and maintain() looks after it: while the network holds and the            *)
(* application of the server reads what arrives, the server has heard of the *)
(* client within its timeout, however much it sends and however little the   *)
(* sketch does.                                                              *)
WatchdogSpares == initialized /\ established /\ peer /\ steady => quiet <= Timeout

(* Over UDP a session the server no longer has is given up, though nothing   *)
(* tells the client, if maintain() looks after it: its next PING goes        *)
(* unacknowledged.  (Or the sketch reconnected.)                             *)
LossNoticed ==
    sketch.transport = "udp" /\ initialized /\ established /\ ~peer ~> ~established \/ peer

(* Once the server can be reached for good, maintain() brings the session    *)
(* back, whatever was lost before, in a client that a begin() made and the   *)
(* sketch did not close; but for one that a loss of the network left waiting *)
(* in its handshake.                                                         *)
ComesBack == <>[]net => []<>(established \/ ~initialized \/ Hung)
=============================================================================
