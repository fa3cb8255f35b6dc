# USMP in TLA+

A verification development for USMP, the session protocol of this repository:
TLA+ modules translated from the source, TLC runs that check them on small
instances, and TLAPS proofs of the theorems that matter most for every value
of the constants. `PROJECT.json` is its index: which lines each definition
stands for, which properties each run checks, which change of the code would
break each property, the hazards, the findings and the theorems.

File names are short below: `_session.py`, `_server.py`, `_handshake.py`,
`_client.py` and `_frame.py` are in `sdk/python/src/usmp/`, `udp.py` and
`tcp.py` in its `transport/`; `usmp_session.c`, `usmp_connect.c`,
`usmp_handshake.c` and `usmp_frame.c` in `core/src/`; `usmp_transport_udp.c`
and `usmp_transport_tcp.c` in `ports/usmp-esp32/transport/`; `USMP.cpp` and
`USMPTransport.cpp` in `ports/usmp-arduino/src/`.

## 1. The system

USMP gives a microcontroller (C core, ESP32 and Arduino ports) and a server or
client in Python an encrypted session over TCP or UDP: a PSK handshake with
ephemeral keys, AEAD frames numbered per direction, messages of up to four
fragments, a replay window and a stop-and-wait ARQ over UDP, PING/PONG, key
rotation (REKEY) and BYE.

| part | state it keeps | operations | who calls it, and what it calls |
|---|---|---|---|
| Python session (`_session.py`) | key pair, `tx_seq`, `rx_seq`, replay window, `_send_lock`, `_closed` | `send`, `recv`, `ping`, `rekey`, `bye` | coroutines of the application; the transport |
| UDP stream (`udp.py`, `UDPStream`) | read buffer, the pending frame, keys for UTACKs, `_last_rx_seq`, `_last_rx_type` | `feed_packet` (callback), `write_frame`/`drain` (ARQ), `readexactly`, `close` | the event loop for every datagram; the session |
| UDP listener (`udp.py`, `UDPListener`) | streams in handshake and in session per address, tasks | cookie exchange, admission, routing, `stop` | the event loop; server and streams |
| TCP transport (`tcp.py`, `_frame.py`) | an asyncio stream | `read_frame`, `write_frame` | the session |
| handshake (`_handshake.py`) | table of failures per IP, with lockouts | `server_handshake`, `client_handshake`, `record_failed_handshake` | server or client; the transport |
| Python server (`_server.py`) | counters, handshake semaphore, sessions, watchdogs, token buckets for cookies | `_on_transport_connect`, `_watchdog`, `serve`, `stop`, `_allow_udp_cookie` | the listener; handshake, sessions, the handler of the application |
| Python client (`_client.py`) | one session | `connect`, `disconnect` | the application |
| C session (`usmp_session.c`, `usmp_connect.c`) | `usmp_t`: keys, `tx_seq`, `rx_seq`, bitmap, `established` | `usmp_send`, `usmp_recv`, `usmp_ping`, `usmp_keepalive_tick`, `usmp_rekey`, `usmp_connect`, `usmp_reconnect`, `usmp_close` | one thread; the transport |
| C handshake (`usmp_handshake.c`) | a scratch `usmp_t` | `usmp_handshake` | `usmp_connect`; the transport |
| ESP32 and Arduino transports (`ports/`) | socket, a receive buffer of one datagram, keys for UTACKs | `send` (blocking ARQ), `recv`, `available`, `reconnect`, `close`, `destroy` | the C core |
| Arduino client (`USMP.cpp`) | back-off, callbacks, one received message | `begin`, `maintain`, `send`, `read`, `reconnect`, `close` | the sketch; the C core |
| frame codec, CRC (`_frame.py`, `usmp_frame.c`) | none; the reader a header between two awaits | encode, decode, read a frame | sessions, handshakes, `feed_packet` |
| cryptography | none | seal, open, derive | everybody |

What is hard about it:

* *Concurrency.* Several coroutines share a session and may be cancelled at
  any await; `feed_packet` runs between any two of them; `recv()` rotates the
  keys without taking the lock that `send()` holds. A server runs a task and a
  watchdog per connection, and `stop()` runs against all of them.
* *The network.* Datagrams and UTACKs are lost, repeated and delayed, also
  across a rotation or from one stream of an address to the next.
* *Failure of one step.* A message fails in its second fragment; a PONG fails
  inside `recv()`; a handshake times out after the other side is done.
* *Limits.* The last sequence number, a full read buffer, the one-slot buffer
  of a C client, control frames per second, ten reads per `usmp_recv`, slots
  for handshakes and sessions.
* *Time.* Timers of the ARQ, of the handshake and of `recv(timeout)`, the
  thirty-second clock of the cookies, the watchdog against the keepalive,
  lockouts, back-offs and buckets that refill.
* *Callbacks.* The Arduino library calls the sketch's handlers in the middle
  of its own functions, and they call the library again.

What makes each part correct:

* replay window: every authentic frame is accepted at most once, and a frame
  the window has not seen and that is not too old is accepted;
* transmit side: no key and sequence seal two frames; a message's fragments
  are consecutive; the lock is always given back; `bye()` always closes;
* a session: a FIFO channel of whole messages in each direction; a `send()`
  that returned is not lost; nothing is delivered twice whatever is retried;
  a TCP session does not break by itself, and blocks for ever in one known
  deadlock only;
* handshake: nobody is in a session alone or with the wrong partner; it
  completes if the network lets it; `connect()` returns;
* server: what is counted is what is there, no limit is exceeded, an open
  session is reachable, every task ends;
* limiter: a lockout is deserved, comes when it is due and stands; the lazily
  refilled, pruned table of buckets is a set of token buckets;
* Arduino client: an established session can be used, no transport context is
  leaked or used after it was freed, the handlers tell the truth, no message
  is overwritten, the keepalive is in time, a lost session comes back; each as
  far as the code keeps it, with the exceptions of section 7 in the property;
* frame codec: both languages refuse damaged frames, and a damaged datagram
  never moves the boundaries of those after it.

## 2. Modules

| module | models | composed with |
|---|---|---|
| `Window` | the arithmetic of the replay window, as operators | used by the next three |
| `AtMostOnce` | abstract: each frame is taken at most once | implemented by `ReplayWindow` |
| `ReplayWindow` | the window of one receiver with its rotations, against any arrival order | `Window` |
| `ReplayWindowProofs` | its theorems | |
| `SendPath` | the transmit side of one Python session: coroutines, `_send_lock`, failures | |
| `SendPathProofs` | its theorems | |
| `Channel` | abstract: a FIFO of whole messages per direction, whose tail may be missing | implemented by the next four |
| `UdpSession` | two Python peers over UDP: `USMPSession` on `UDPStream` | `Window`, `Channel` |
| `CUdpSession` | a device (B), in Python or in C, and a Python server (A) over UDP | extends `UdpSession`: A is a peer of it, B is too or runs the C code |
| `CUdpSessionInvariant` | what is true of a UDP session all the time, and the kinds of steps that keep it true | extends `CUdpSession` |
| `CUdpSessionProofs` | its theorems, which cover `UdpSession` (a device in Python) | extends `CUdpSessionInvariant` |
| `TcpSession` | two Python peers over TCP | `Channel` |
| `CTcpSession` | a device (B), in Python or in C, and a Python server (A) over TCP | extends `TcpSession`, likewise |
| `CTcpSessionProofs` | its theorems, likewise | |
| `Handshake` | one `connect()` of a Python or C client over UDP against the listener and `server_handshake` | |
| `HandshakeProofs` | its theorems | |
| `Server` | the server's tables, counters, tasks and watchdogs, over TCP or UDP | |
| `ServerProofs` | its theorems | |
| `TokenBuckets` | abstract: a token bucket per address, of which full ones may be forgotten | implemented by `Limiter` |
| `Limiter` | the cookie buckets and the table of failed handshakes with its lockouts | `TokenBuckets` |
| `LimiterProofs` | its theorems | |
| `ArduinoClient` | `USMPClient`: a sketch, its handlers, the life of the transport, the network and the server | |
| `ArduinoClientProofs` | its theorems | |
| `FrameCodec` | the bytes of a frame: encoding, CRC, decoding, the stream of datagrams and its reader | |

`MC*` modules give the constants their values.

### How state and actions correspond to the code

An action is the code of one coroutine between two awaits, or one callback, or
one step of the single thread of a C device; what the code does before the
next await (mark the window, count a control frame, rotate, close) is part of
the action.

**`Window`, `ReplayWindow`.** `rx_seq`, `rx_window_bitmap` and `rx_epoch` are
the fields of `usmp_t`; the bitmap is the set of its one bits. `Accept` is the
receive path from the drop conditions to the update (`usmp_session.c:258-362`;
`_session.py:117-179` computes the same), `Rekey` the restart at a REKEY,
`Overflow` the drop at the reserved sequence. A frame is its epoch and
sequence: keys of different epochs do not open each other's frames.

**`SendPath`.** `pc[t]` says whether coroutine t is outside, queued on
`_send_lock` or inside `write_frame`; `op[t]` which operation it runs. `Start`
and `Continue` seal a frame and burn its sequence (`_send_encrypted_locked`),
`Spent` is the `SequenceError`, `Fail` an `OSError` or a cancellation anywhere,
`Finish` the return (rotation for `rekey()`, closing for `bye()`), `PeerRekey`
the rotation inside `recv()`, which takes no lock. A failed write may or may
not have reached the wire: the sequence is burnt in both cases.

**`UdpSession`.** Per peer: the fields of `SessionInfo` (`gen`, the salts
mixed into the keys so far; `tx_seq`; `rx_seq`; bitmap), those of `UDPStream`
(`last_rx_seq`, `read_buffer`, the pending frame in `job`), the local state of
the running `recv()` (`rcv`: partial message, expected sequence, control
count, PONG owed). `job[p]` is the operation that holds the lock and waits for
its UTACK. `Start*` seal the first frame, `NextFragment` the following ones,
`Finish*` are what each operation does after its last UTACK, `GiveUp` the
fifth timeout or a cancellation. `FeedFrame` and `FeedAck` are `feed_packet`;
`DropFrame`, `Recv*` and `Assemble` one turn of the loop of `recv()`. The
network is a set. On an untimely network a datagram stays in the set and may
be delivered any number of times, which is loss (never delivered), delay,
duplication and reordering at once; on a timely one it disappears when
delivered or lost, and the ARQ timer expires (`Retransmit`) only when neither
the frame nor its UTACK is still on the way. With `interrupts`, `recv(timeout)`
expires and an application catches what a failed operation raises and goes on;
without, it leaves its handler, which closes the stream.

**`CUdpSession`.** B has one thread: `call` is the state of the running
`usmp_recv` (attempts, control count, partial message, PONG owed), `slot` the
receive buffer of the transport. `CFeedFrame` is what the ARQ loop of
`usmp_udp_send` does with a datagram that is not its UTACK: put one aside,
unacknowledged, and lose the others. `C*` actions read one frame and do
everything `usmp_recv` does with it, errors that drop the session included.
`port` says what B runs: with `"python"` the whole is `UdpSession`.

**`TcpSession`.** The wire is a sequence of frames; `drain()` suspends a
sender while more than `Cap` frames are unread. `Running(p)` is a process
between two awaits: nothing else of it runs. `Break` collects every exit of
`recv()` on a frame that does not fit. A `recv(timeout)` that expires between
header and payload leaves a `Torn` frame on the stream.

**`CTcpSession`.** What the C core does as the Python session does (fragment,
seal, burn, rotate once REKEY is written, close with BYE) is `TcpSession` with
p = B, on a blocking socket: B is in a send until the stream has taken its
frame, in `usmp_recv`, or in the application. `attempts` counts the frames the
running `usmp_recv` has read; of `rcv["B"]`, `asm`, `ctrl` and `pong` are its
local variables, and they are reset when it returns. The application calls it
when `available()` finds the socket readable, and takes the session for dead
when it returns an error, as `USMP.cpp:55-59` does. `Jammed(p)` is a peer that
waits to write while it cannot read, because `recv()` wants to answer a PING
first or because the device has one thread; when both are, they are
`Deadlocked`.

**`Handshake`.** `client` is where `connect()` is, with the client's stream
(pending frame, buffer, `last_rx_type`); `stream[s]` is a `UDPStream` of the
server with its `server_handshake` task; `handshakes` and `sessions` are the
two tables of the listener for this address. Stream `s` stands for the nonce,
key pair and session keys it draws, an HMAC for the pair of the PSK it was
made with and the transcript. `HelloArrives` is `_handle_udp_datagram` on a
HELLO (the cookie answer, the admission, the silent refusals), `Route` its
dispatch, `Feed` and `PythonFeed` `feed_packet`, `CPutAside` and `CRead` the C
transport, `Handle` what both clients do with a frame.

**`Server`.** A stream stands for one accepted connection and its task.
`stage[s]` follows `_on_transport_connect`: created, queued on the semaphore,
handshaking, session, closing, done. `GiveBack` and `Finally` are its
`finally` block, which every way out runs; `Record` is
`record_failed_handshake` with its pruning; `Watchdog*` the watchdog task;
`Stop` the listener's `stop()`. What the messages of a handshake say is left
open here (it succeeds, fails, loses its peer, times out).

**`Limiter`.** `cookies` and `failed` are the two dictionaries, `now` the
monotonic clock in ticks. `GrantCookie` and `RefuseCookie` are
`_allow_udp_cookie` with its refill, eviction of full buckets and cap;
`HandshakeFails` is `record_failed_handshake` (pruning, making room, counting,
the lockout), `HandshakeSucceeds` the `pop` of a success, `Begin` the check of
the lockout. `2.0 ** e` is a table with as many exponents as a float has: the
failure that asks for one more raises, and nothing is recorded. The history
variables say what an address deserves and what it was granted.

**`ArduinoClient`.** One thread, and yet nothing is atomic for the sketch:
`stack` holds what is left to run: handlers to be called, and the tails of the
functions that called them (`drain`, `read`, `dispatch`) or that are in a
handshake (`begin`, `reconnect`, `maintain`). `own` is the context in
`_transport`, `link` the one in the copy that `usmp_t` keeps, which `close()`
leaves there; `heap` says whether a context is free, dialled or armed with keys.
Freed contexts are used like any other, and then `misuse` holds and the model
stops, for what the build does next is undefined. A sketch is the set of calls
that `loop()` and each handler may make, with its transport.

`Emits` and `EmitFails` are a frame the core sends: over UDP it is
acknowledged or the session is given up, over TCP it may also be taken by the
socket and arrive nowhere. `HangsUp` is the start of `usmp_connect` and
`usmp_reconnect`, `Redials` and `RedialFails` the latter up to its handshake, in
whatever state the client is: before any `begin()`, after one that failed, after
`close()`. A handshake that is under way succeeds, fails, or (`Hung`) never
returns: its reads have no bound, so it waits for ever if the network takes its
`answer` away (`NetFails`). `Begin*` and `Maintain*` are the branches of
`begin()` and `maintain()`, `Drain*` those of `_drain_rx`. At the server, a
frame that arrived is `unread` until the application's `recv()` takes it
(`ServerReads`), which alone ends its `quiet`. Histories: `told`, what the
sketch knows; `hasty`, the session was lost while its `onConnect` was still
due; `strayed`, the sketch called `begin()` over a context or used a closed
client; `steady`, since the session was made the network held and the server
read.

**`FrameCodec`.** A byte, or a number of several, is the set of its one bits.
`wire` is the datagram under way, which `Corrupt`, `Truncate` and `Extend` may
damage; `feed_packet` appends it to `buffer` if its sizes fit, and `ReadHeader`
and `ReadPayload` are the two awaits of `read_frame`. `queue` is history: the
datagrams that were appended and not yet read. `crc16` shifts bit by bit as
both languages do; `Remainder` divides polynomials.

## 3. Abstractions

* *Cryptography is ideal.* A key is its generation (the salts mixed into it so
  far) or the stream that drew it; a frame opens exactly under the key it was
  sealed with; an HMAC is the pair of the PSK and the transcript. Nobody
  forges; a wrong PSK is one that differs from the server's.
* *A datagram arrives intact or not at all*, but in `FrameCodec`, which is
  about what the CRC and the size checks refuse. Elsewhere a frame is the
  record of what its reader looks at: type, sequence, key and, of a message,
  its number, which fragment it is and whether another follows.
* *Time* is the order of events. A timer may expire whenever it runs; on a
  *timely* network (a constant of the behaviour, chosen in `Init`) only when
  what it waits for cannot come any more. That is the network on which
  rotations and liveness are checked: `rekey()` assumes that the peer reads
  the REKEY before it is sent anything under the new keys, and on an arbitrary
  network the code does not survive that; see section 7.
* *Applications* are scripts: what each of them calls, in order, while a task
  of it reads. `recv()` runs at the same time as the calls of the script.

## 4. The runs

| run | question, and answer |
|---|---|
| `replay_window` | Is the bitmap exactly the set of accepted sequences, is nothing fresh refused, and is nothing taken twice, across shifts beyond the width and rotations? Yes; the window implements `AtMostOnce`. |
| `send_path` | Coroutines compete for `_send_lock`, writes fail or are cancelled, `recv()` rotates the keys under them: can a nonce be used twice, a message lose its order within a key, the lock stay held, `bye()` leave the transport open for good? No; every call returns, as long as every write ends. |
| `udp_session` | Do a Python server and a device, in Python or in C, implement `Channel` over a network that loses, repeats and reorders, with rotations on a timely one? Is a fragment ever delivered twice, even when operations fail and the application goes on? Is what either side acknowledged ever lost? Do the ten reads, the one-slot buffer and the session that is dropped when a message fails fit together? Yes, no, no, yes. |
| `udp_rekey_gate` | Is nothing acknowledged lost when rotations are far apart? It is lost (finding). |
| `tcp_session` | Do a Python server and a device, in Python or in C, implement `Channel` over TCP, does a session stay up by itself, are the fragments that are delivered ever out of order or delivered twice, and does every message arrive, with back-pressure in the middle of a message, pings, rotations of one side, departures, cancelled calls? Yes, yes, no; yes, unless the peers deadlock, which some of the scripts let them (section 7). |
| `tcp_busy_rekey` | Does a session survive a rotation while the peer talks? No (finding). |
| `server` | However connections, handshakes, sessions, watchdogs and `stop()` interleave: do the counters balance, do the limits hold, is every open session reachable, does every task end? Yes. |
| `handshake` | A Python or C client with the right or a wrong PSK: is anybody in a session alone or with the wrong partner, does a late frame confuse a handshake, does an acknowledged frame get lost, do both sides get their session in the end? No, no, no, yes. |
| `handshake_hangs` | Does `usmp_connect` return? Not always (finding). |
| `arduino_client` | Five sketches (one sends from its handlers, closes and begins anew, one reconnects as soon as it is told of a loss, one polls over TCP, one sends or closes in `onReconnect` and reads in `onMessage`, one reconnects and closes whenever it likes, also on a client that is closed or whose `begin()` failed), while the network comes and goes and the server talks, reads, leaves and crashes: is an established session usable, is a context leaked or used after it was freed, do the handlers agree with the state, is a message overwritten, does the watchdog close a session in use, is a loss noticed, does the session come back? All is well but for the exceptions that the properties name, which the sketches reach. |
| `limiter` | Addresses ask for cookies and fail handshakes while time passes and full tables evict: is a lockout always deserved, does it come when it is due, does it stand, are the buckets token buckets? Yes. |
| `frame_codec` | Datagrams are flipped in bursts of up to sixteen bits, cut and lengthened: are they refused, does the reader keep the boundaries of the frames, is the CRC the remainder of the division? Yes. |

### Bounds, and why they are enough

| constant | value | why |
|---|---|---|
| `W` (64 in the code) | 3 in `replay_window` and the sessions; 2 in the finding | frames fall inside the window, on its edge and beyond it; for other widths there are the theorems |
| `MaxSeq`, `MaxEpoch` (`replay_window`) | 6, 1 | twice the width, the reserved top sequence, and a window in use when the keys rotate |
| `Tasks`, `MaxSeq`, `MaxFrags`, `MaxKey` (`send_path`) | 2, 3, 2, 1 | two coroutines compete, a message runs out of sequences half-way, one rotation; any number in the theorems |
| `MaxFrags` (4) | 2 over UDP, 4 over TCP | there is a place in the middle of a message; over TCP a sender is suspended in one |
| `BufferCap` (`MAX_READ_BUFFER`, 8 full frames), `CtrlLimit` (8 in one second in Python, `USMP_MAX_CTRL_FRAMES` in C), `MaxAttempts` (10) | 2; 1 over UDP, 2 over TCP; 2 over UDP, 5 over TCP | the buffer fills, the limit on control frames is reached, the reads of one `usmp_recv` run out |
| `Cap` (the high-water mark of the asyncio stream) | 1 | the second unread frame suspends the sender |
| scripts | up to three messages per direction, two rotations | a fragmented and a whole message, each operation before, between and after them. Rotations are at most `W` frames apart, because of the finding `udp_rekey_gate` |
| `Streams`, addresses (`server`) | 3; 3 on 2 IPs | a session, the one that replaces it and a third client; two addresses behind one IP |
| `MaxConnections`, `MaxPerIp`, `Slots`, `Permits`, `FreeFailures` (`server`) | 2, 2, 1, 1, 1 | every limit is reached; a second failure locks an IP out |
| `MaxStreams`, `MaxBucket`, `MaxLosses` (`handshake`) | 2, 2, 2 | a repeated HELLO creates a second stream; a cookie ages one bucket and expires; a frame and its repetition, or its UTACK, are lost |
| `Losable` (`handshake`) | all datagrams but two | one connect() does not survive the loss of HELLO_RETRY, which is sent outside the ARQ, nor of the UTACK of HELLO_ACK when the server has moved on; both cost the attempt, not safety, and the untimely network loses them too |
| `Contexts`, `InboxCap`, messages (`arduino_client`) | 2, 2, 2 | a context is freed and another taken while `usmp_t` still has the old address; a second message waits behind the first |
| `BackoffCap`, `KeepAlive`, `Timeout` (`arduino_client`) | 2, 2, 3, in units of the first back-off | the back-off reaches its cap; the keepalive is shorter than the timeout of the server, as 30 s is than its default |
| IPs, `TableCap` (1000) (`limiter`) | 3, 2 | one address more than either table holds |
| `Capacity`/`Cost` (ten cookies), `FailuresToLock` (5), exponents (1024), `MaxBackoff` (60 s), `IdleLimit` (600 s), `MaxTime` | 4/2, 2, 2, 2, 2, 4 | a bucket of two cookies empties and fills; the second failure locks out; the exponents run out; a lockout reaches its cap, ends and is pruned |
| `MaxPayload` (480), frames, bursts (`frame_codec`) | 3; five frames and one after them; 26 patterns at every bit | empty, short and longest payloads; all bursts of up to four bits, the full ones and pairs up to the width of the CRC; a second frame follows the damaged one |

`CHECK_DEADLOCK FALSE`: scripts end, sessions and servers are closed, and
sequences and rotations are bounded; what must still happen is a liveness
property. The Arduino client never stops, and its run checks deadlock. Bounds
are guards, but for one state constraint: `OneTableInUse` of `limiter`. The two
tables share nothing but the clock and no operation touches both, so states
where both are in use add nothing; all properties of the run are safety.
`limiter` also uses the symmetry of the addresses.

### Fairness

* `SendPath`: strong on taking the lock, because `asyncio.Lock` is first in,
  first out, while the guard comes and goes as others take it. That a write
  ends is no assumption of the specification but the hypothesis of
  `EveryCallReturns`, `WritesEnd`: over UDP the code keeps it, for the ARQ gives
  up after five timers; over TCP `drain()` returns only if the peer reads or the
  connection ends.
* `TcpSession`: weak on the tasks that can run and on `recv()`, which the
  application calls in a loop; strong on what competes for the lock, as above.
  Nothing is assumed of cancellations.
* `Server`: weak on tasks that can run, on the timeout of a handshake, on
  `on_timeout` returning, on cancelled tasks ending, and on a handler leaving
  when its stream is closed (its next call raises). Nothing is assumed of a
  peer, nor of a handler whose stream is open.
* `CTcpSession`: the same for the server and for a device in Python; a device
  in C goes on writing and receiving (weak), and its application makes its
  next call in the end (strong, as available data may keep it reading). A
  suspended `drain()` is not assumed to end: the deadlock that comes of it is an
  exception in `EveryMessageArrives`.
* `ArduinoClient`: weak on `maintain()`, which `loop()` calls again and again,
  and on what is left to run on the stack, but for a handshake whose answer is
  lost, which no step ends; strong on the tick, since time passes however busy
  the sketch is. Nothing is assumed of the network or of
  the server: `ComesBack` says what happens once the network holds.
* `Handshake`, on the timely network only: event loops run, timers fire, what
  is not lost arrives. Giving up is strongly fair and enabled only when
  nothing else can happen, since five timers outlast `MaxLosses` losses.
* `ReplayWindow`, `UdpSession`, `CUdpSession`, `Limiter` and `FrameCodec` state
  safety only.

## 5. The proofs

Each proof module extends the module it is about and assumes its named
`ASSUME`s on the constants, which TLC evaluates on every run: bounds that are
positive, scripts that are sequences of operations with at most `MaxMsgs`
messages. Four theorems need more, a hypothesis on what an application
does; it is named, stated in the theorem, and satisfied by the
applications of the run. The pattern is the same:
an inductive invariant `IInv`, `Init => IInv`, `IInv /\ [Next]_vars => IInv'`
with one lemma per action, `IInv => ` the property, and one temporal step.

* **`ReplayWindowProofs`** (any `W`, `MaxSeq`, `MaxEpoch`). `TypeCorrect`;
  `BitmapCorrect`: the bitmap is exactly the recent part of the set of
  accepted sequences, itself the inductive part of the argument, for a shift
  maps one to the other; `NothingFreshRefused` and `NoReplay` follow from it,
  and `Refinement`: every step is a step of `AtMostOnce` or a stutter.
* **`SendPathProofs`** (any number of coroutines, sequences, fragments, keys).
  `TypeCorrect`; `NoNonceReuse`: no key and sequence seal two frames.
  `NonceUnique` alone is not inductive: `Unused` says that nothing is sealed at
  or above the current sequence of the current key, nor under a later one; but
  BYE may be sealed on the reserved last sequence, which no frame advances
  past, so `ByeOnce` says that only one BYE is ever on its way there; `Writer`
  says that who writes holds the lock and sealed last, and `Queued` what the
  waiting coroutines have left to seal.
  `FragmentsStayConsecutive` is the action property from the same invariant:
  within a key nothing slips between the fragments of a message.
* **`CUdpSessionProofs`** (any scripts, fragments, window, buffers, limits and
  network; a device in Python or in C). `TypeCorrect`; `NeverTwice`: no
  fragment is delivered twice, whatever is lost, repeated, retried, cancelled
  or rotated. `DeliveredOnce` needs two facts. `SealedOnce`: one fragment is
  sealed in one frame, and what a peer may still read of it (in the network,
  the stream's buffer, the device's slot, the pending operation) are copies of
  that frame. `TakenOnce`: once a fragment is in the peer's messages that frame
  is `Dead` for it, because its sequence is refused under its keys and those
  keys never come back: a rotation mixes in a salt that was never used.

  `PythonNotLost`, `CNotLost` and `Refinement`: what an operation was told is
  delivered is not lost, and the session implements `Channel`, if nothing
  interrupts it. The argument is about one direction at a time. `Linked(p, q)`:
  the frames that q can still accept (`Alive`: in the network, the stream's
  buffer, the device's slot or the operation under way) are what is left of the
  stream of p. They have distinct sequences, below what p seals next
  (`Numbered`); every one but the last waits in the buffer (`Waiting`), in
  order; nothing before one of them is missing, and no control frame stands
  inside a message (`Complete`); the fragments q has are the beginning of its
  next message, and the next fragment has the sequence `recv()` expects
  (`Followed`); the keys of p are those of q or lead to them over a REKEY that
  is on its way (`Rotating`); and none is so far behind that `feed_packet` would
  drop it (`InReach`). So what q takes is always the next frame. All actions of
  both ports are of five kinds for a direction (`Handled`): q leaves, p seals,
  q takes the least frame, p rotates, or only positions change; `Linked` is
  proved for those.

  It needs rotations that nobody meets. Either no one rotates (`Plain`), on any
  network; or one peer does while the other only listens, on a timely one
  (`Listening`). Then at most one datagram or UTACK of p is under way
  (`Delivered`), and `Budget` counts: the frames that p still sends before its
  next REKEY, and the PONGs it may owe by then, stay within the window. The
  hypothesis `RekeysAreSafe` says this of the scripts; `CUdpSession` states it,
  `MCCUdpSession` assumes it, so TLC evaluates it for the applications of the
  run. Without the window bound acknowledged messages are lost: that is the
  finding `udp_rekey_gate`.
* **`CTcpSessionProofs`** (any scripts, fragments, limits and stream; a device
  in Python or in C). `TypeCorrect`, `InSendingOrder`, `Refinement`, that the
  session implements `Channel` as long as nothing is interrupted, and
  `NeverBroken`, that no frame breaks it. The actions of the two ports
  come down to a few kinds of steps (`Step`: a frame is written, the first or a
  further one of a message or a control frame; one is taken; the keys turn; the
  session breaks, rests, is interrupted), and the invariant is proved for those.
  `Lined` follows the fragments of a peer from the reader's messages over the
  stream to the operation that sends them: they are in the order of sending, on
  the stream behind what was read and before what is to be written. `Flows`: if
  nothing is interrupted, the stream leads without a gap from the place the
  reader has reached to the one the writer has (a `Path` of single moves), and
  so a message that is assembled is the next one, whole. `Agrees` says the same
  of keys and sequences. It holds where no one rotates, or only while the other
  side listens, that is calls nothing and is not asked for a PONG: this is the hypothesis of
  `NeverBroken`, `RekeysAreQuiet`, and the finding `tcp_busy_rekey` is what
  happens without it.
* **`HandshakeProofs`** (any number of streams and PSKs, any losses, delays and
  repetitions, both clients). `Authentication`: nobody is in a session alone
  or with the wrong partner. The invariant follows the messages: a HELLO_ACK,
  wherever it is, is this client's answer to the one challenge it has answered
  (`AcksAreOurs`); so a stream that verified one is the client's partner
  (`Verifiers`); so a SESSION_OK, wherever it is, comes from the partner
  (`OksAreReal`); so who takes one has it (`OkTaken`), and the UTACK that
  opens the session at the server is only sent by a client that took it. That
  last step is different for the two clients: the Python stream acknowledges
  what it buffers, the C transport what it reads.
  A second invariant on top of it, `Agreement`, gives the others. A client
  reads what it waits for, for the server numbers its three frames and their
  order is the order in which the client can take them (`Nth`, `Floor`,
  `InOrder`): `TypeCorrect`, where it bounds the buffers, and `NeverOutOfTurn`.
  A UTACK names a frame by type and sequence alone, and yet is true: whoever
  sent it had taken the frame the client means (`AckIsTrue`), and an operation
  that is not waiting any more was acknowledged (`WritesTaken`):
  `WritesArrive`. On a timely network only one HELLO with a cookie is ever under
  way (`OneCookie`), so no stream without keys meets a session frame:
  `AcksAreSigned`.
* **`ServerProofs`** (any number of addresses, streams, limits; the streams
  are finitely many). `TypeCorrect`, with the bounds on slots in the type;
  `SessionsReachable`: `OpenSessionsReachable` with its three parts
  `Handshaking`, `InSession`, `Reachable` is inductive together with the type,
  because a task of a replaced session compares itself with the table before
  it removes the entry; `NothingLeaks`: `SlotsBalanced` is inductive with
  both, by the cardinality of the set of tasks that occupy a place;
  `NoLimitExceeded`: `Limited` adds that the UDP tables are finite, the
  connections of all IPs together being the cardinality of the set of counted
  ones, so that admitting one needs room and nothing else adds any.
* **`LimiterProofs`** (any number of addresses, any caps, thresholds and table
  of powers). The invariant `LInv` joins the type, the dates of the buckets
  (`CookieInv`: none is in the future, so a refill never takes tokens away),
  what a recorded failure means (`FailureInv`: a lockout has as many failures
  behind it and ends within the cap) and its converse (`CountInv`: failures in
  a row are in the table, because pruning only drops what is both old and not
  locked). From it `LockoutsAreDeserved`, `FailuresAreLocked`,
  `LockoutStanding`, `TablesStayBounded`, and `Refinement`: the table of lazily
  refilled buckets implements `TokenBuckets` with room for its cap, under the
  mapping that refills every bucket to now. `SpendingIsBounded` follows from
  `Balance`: what was spent and what is left never exceed a bucket and the time
  that has passed.
* **`ArduinoClientProofs`** (any sketches, contexts, messages, timers; no
  hypothesis on the sketch). `TypeCorrect`, `UsableSessions`, `OwnedContexts`.
  Neither of the last two is inductive alone: `close()` frees what `own` names
  while the core sends through `link`. `Owned` says that, unless the sketch has
  strayed, both name the one context on the heap, that a client which is
  initialized, in a session or in a handshake has one, and that a session's is
  armed. A `begin()` that failed leaves a context and no initialized client, so
  having a context, and not being initialized, is what the argument counts on.
  `Stacked` says that a handshake, or a handler that reports a loss, is only ever
  the next to run, so nothing below it is a handshake whose client was closed.
  `SparedByWatchdog` rests on `Attended`: while the network holds and the server
  reads, the server has waited no longer than the client's own clock says, and
  that clock is below `KeepAlive` once `maintain()` has run in the round.
  `KeptMessages` rests on two. `Owes`: a message that arrived and was not read
  is the one in the buffer. `Holding`: while a sketch works on it `onMessage`
  lies below everything else on the stack, and nothing above it reads, until
  it does so by its own call of `read()`.
  `ToldTheTruth` rests on `Told`: the handlers have told how it is, or the one
  that will is the next to run, and none after it says otherwise (`True`, of a
  stack), unless the session was lost under an `onConnect` that is due.

The types of the sessions, the window, the transmit side, the server, the
handshake, the limiter and the Arduino client are proved for all constants;
where a run does not check one, the theorem is all there is.

Only model-checked: liveness and fairness (outside the prover's reach), and of
the frame codec everything, for what a CRC detects is a matter of
induction over its bits, and where its reader stands one over its bytes.

## 6. Not modelled

* the cryptographic primitives: the sessions see what they decide, a frame that
  opens or does not;
* of the Python client `disconnect()`, its callbacks and what happens when both
  race a `connect()`; `connect()` itself is in `Handshake`. Of the server
  `serve()`, its signal handlers and a second `serve()` of one object;
* of the ports the dialling (DNS, Wi-Fi, socket options), log output, and the
  paths that run out of memory; on Arduino a sketch that destroys the client,
  calls `begin()` in a handler, or makes more than one call in a handler;
* over TCP a network that stalls for two seconds in the middle of a message the
  peer goes on with (`CStall` is that timer for a peer which does not);
* the handshake over TCP, where the messages of `Handshake` arrive in order and
  once, and its reading is that of `TcpSession`;
* a peer that does not follow the protocol: peers are the programs of this
  repository;
* examples, scripts, builds: no protocol state.

## 7. Where the code and its documents differ

Three runs end in a counterexample; `PROJECT.json` quotes the lines.

* `udp_rekey_gate`: `_last_rx_seq` survives a rotation, so after more than 64
  frames the stream acknowledges and drops those of the new epoch.
* `tcp_busy_rekey`: `rekey()` takes the old receive key away at once, and the
  peer's data or PONG on the way ends the session.
* `handshake_hangs`: over UDP the server refuses in silence and the C client
  waits for ever.

Seen with TLC while modelling, without a run of their own:

* *Rotation.* A REKEY of the peer, handled by `recv()` without the lock
  (`_session.py:225`), splits a message under way between two keys. A REKEY
  whose UTACK is lost five times leaves the two ends with different keys. Over
  UDP a rekey while the peer sends loses its frames, as over TCP. `feed_packet`
  acknowledges before anything is authenticated (`udp.py:187`): a duplicate of
  an old frame that arrives after a rotation is acknowledged under the new keys,
  the UTACK also names the new frame of the same type and sequence, and the
  `send()` of that one returns although it is lost. Two messages with a rotation
  between them and one late duplicate are enough, on an untimely network.
* *Messages.* A Python `send()` that fails after its first fragment and is
  followed by another makes the peer deliver one message made of two
  (`_session.py:94`); the C core drops its session instead. `recv(timeout)`
  that expires between two fragments loses the first of them, and the rest
  is delivered as a message. `FragmentsInOrder` and `DeliveredOnce` speak of
  fragments and hold all the same; that messages are whole is what `Channel`
  says, of sessions in which nothing is interrupted.
* *Deadlock.* Over TCP, with both streams full, two peers wait for each other
  for ever if each has a PING to answer, because `recv()` waits for the lock its
  own `send()` holds in `drain()` (`_session.py:210-214`, `_frame.py:137-138`),
  and so does a C device in a blocking send against such a server. Scripts of
  `tcp_session` get there: it is the exception `Deadlocked` of
  `EveryMessageArrives`, and in such a state, uninterrupted, no step is enabled.
* *`usmp_recv`.* Ten reads per call: seven control frames before a message of
  four fragments end the session.
* *Server.* A `USMPTimeoutError` raised by the session handler counts as a
  failed handshake, and five quiet sessions lock an IP out. A repeated HELLO
  with a valid cookie takes the routing of an established address until it
  times out. At the session limit a UDP client cannot replace its own session,
  since the limit counts it. A `stop()` before `serve()` has made its event
  is lost (`_server.py:338-356`).
* *Limiter.* From the 1029th failure on `2.0 ** (fails - 5)` overflows and
  nothing is recorded. At the cap a locked-out address can be evicted for a
  newcomer, and an evicted bucket is full again.
* *Arduino, the handlers.* If `onReconnect` loses the new session, by a
  `send()` that fails or a `close()`, `onConnect` still fires, for a dead session
  (`USMP.cpp:188-189`), where `USMP.h:31-33` calls it for '"I have a live session
  now" work' and `USMP.h:40-41` blesses `send()`s in both, as `callbacks.ino`
  makes them. The sketch `Greeting` does this; it is the exception `hasty` of
  `CallbacksAgree`, which without it is violated. A `read()` or `available()`
  inside `onMessage` puts the next message into the buffer the handler was given.
* *Arduino, after a `begin()` that failed.* `maintain()` never tries again
  (`USMP.cpp:178`), where `publish_sensor.ino:34` says "maintain() will retry".
  `reconnect()` then makes a session, but `_initialized` stays false: `maintain()`
  neither pings nor reads, the server's watchdog ends the session, and a server
  that crashed is not noticed until the sketch sends. Hence `initialized` in
  `WatchdogSpares`, `LossNoticed` and `ComesBack`.
* *Arduino, contexts.* `reconnect()` or a second `close()` on a closed client,
  the destructor's included, uses the freed context, since `usmp_t` keeps its
  copy (`USMP.cpp:223-239`); so does `close()` after a `begin()` on a closed client
  that failed to dial. `begin()` over a context, also after a handshake that
  failed, leaks it (`USMP.cpp:78`). Those are the sketches that have `strayed`.
* *Arduino, waiting.* Over UDP the reads of a handshake have no bound
  (`USMPTransport.cpp:295-308`), so a network that fails in the middle of one
  leaves `begin()`, `reconnect()` or `maintain()` waiting for ever: `Hung`, in
  `ComesBack`. Over TCP writes towards a dead peer succeed until TCP gives up
  (`USMPTransport.cpp:75-84`) and nobody waits for the PONG, so its loss is
  noticed late: `LossNoticed` speaks of UDP. While a message waits unread nothing
  is drained, so a BYE is noticed by the next PING only.
* *Frames.* The CRC stands between the header and the payload, so a burst of
  at most sixteen bits over the end of the one and the start of the other may go
  unnoticed, which a CRC at the end would not allow. A wrong length is refused
  by Python's size check over UDP, and by C only if the CRC says so; C accepts
  bytes after the frame. `feed_packet` acknowledges a frame before its CRC is
  looked at.

Seen by reading, outside the models: over TCP an idle read makes `usmp_recv`
return -1 (`usmp_session.c:249-256`) where `usmp.h:172` promises 0, so callers
must ask `available()` first; the ESP32 TCP example (`app.c:72`) ignores a
negative `usmp_recv`, and as `established` stays set and pings still succeed it
never reconnects; a `disconnect()` of the Python client during its `connect()`
leaves a session without a transport.

## 8. Plan

Done, in this order: the window (the smallest part with the strongest
promise), the transmit side, the sessions against `Channel` (Python over UDP,
over TCP, C over both), the server, the handshake, the limiter, the Arduino
client, the frame codec; proofs for all of them but the frame codec. Left:

1. The Python client's `disconnect()` against `connect()`, and `serve()`
   against `stop()` and signals.
2. Of `FrameCodec` proofs need induction over the bits of a frame, which the
   installed provers do not do.
