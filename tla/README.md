# A verification of LSN

LSN connects cameras, viewers and relays over UDP, through NATs. The programs
(`Repeater`, `RepeaterNode`, the Android application) talk through a
socket-like library, `UDT`, that is built on RUDP: reliable connections over
UDP, written in C++ under `revolver-master/common`. Everything else in LSN
assumes that an RUDP connection is a reliable byte stream that begins and ends
cleanly. This directory holds TLA+ models of that code, the TLC configurations
that check them, and proofs that the TLA+ proof system checks.

All paths below are relative to the repository.

## The system

| Part | Source | State | Operations | What is hard |
|---|---|---|---|---|
| Send buffer | `revolver-master/common/rudp/rudp_send_buffer.*` | `send_data_`, `send_window_`, `loss_set_`, sequence numbers, byte count | `send`, `on_ack`, `on_nack`, `on_timer`, `attempt_send` | loss, repetition and reordering of datagrams; a byte count kept in several places |
| Receive buffer | `rudp_recv_buffer.*` | `recv_window_`, `recv_data_`, `loss_map_`, `first_seq_`, `max_seq_` | `on_data`, `check_loss`, `on_timer`, `read` | gaps, late segments, partial reads |
| Congestion control | `rudp_ccc.*` | windows, slow start, loss flag, round trip estimate | `on_ack`, `on_loss`, `on_timer`, `set_rtt` | integer rounding, late loss reports |
| RUDP socket | `rudp_socket.*` | connection state, peer id, `check_sum_`, retry and keep alive counters | `connect`, `close`, `process*`, `handle_timeout`, `heartbeat` | simultaneous close, repeated SYN and FIN, silent peers |
| RUDP object | `rudp_interface.*` | socket table, free ids, index of half open connections, listener | `create_socket`, `process`, `free_sockets` | reuse of ids, index entries that outlive their socket |
| UDT, UserConnection | `udt/*` | one RUDP socket each, `state_`, `broken_`, two mutexes | `open`, `listen`, `accept`, `connect`, `send`, `recv`, `close`, RUDP events | application threads against the reactor thread; mutexes released inside callbacks |
| Reactor, timers | `revolver/base_*_reactor.*`, `timer_queue_t.*`, `timer_ring.*` | handlers, timer ring | event loop, `set_timer`, `cancel_timer` | a cancelled timer that still fires, reuse of timer ids |
| Pools and queues | `revolver/object_pool.h`, `base_queue.h`, `base_cache_buffer.h` | free lists, rings | push, pop | several threads, full and empty |
| RepeaterNode | `RepeaterNode/Guaji.cpp`, `FakeRtpSend.cpp` | `m_InConnection1/2`, `m1_use_*`, the sender of the stream | main loop, two workers, `ControlChannelLoop` | check then act on unlocked flags; fields that two threads share |
| Repeater: tree | `Repeater/Shiyong.cpp`, `Repeater/IpcGuaji.cpp` | route table, connecting event table | reports, drops, expiry, events, `AdjustTopoStructure`, `OptimizeStreamPath` | a lock that is let go of between finding and using; a table with no lock; lost orders |
| Repeater: media | `Repeater/Shiyong.cpp`, `PacketRepeater.cpp`, `IpcGuaji.cpp` | `viewerArray`, `currentSourceIndex`, packet queues | connect, disconnect, switch, forward, start a stream | no lock at all on the choice of the source; pointers into queues that others change |
| Shared utilities | `ShareDir/*` | - | STUN, UPnP, HTTP, discovery, encodings | outside protocols, input and output |
| Android application | `LSNodeApp/*` | - | UI, codecs, media pipes; a copy of the RUDP code in `jni/up2p` | mostly vendored |
| Linux port | `Linux/*` | - | the two programs with other system calls | - |

How they interact. A reactor thread reads datagrams and runs timers. A
datagram goes from `UserConnection::handle_input` to `RUDPObject::process`,
which finds the socket by the id in the head and calls `RUDPSocket::process`;
that calls the two buffers and the congestion controller, and they call back
through `IRUDPNetChannel` (send a datagram, "readable", "writable",
"exception"). `RUDPObject::heartbeat` calls every socket's heartbeat. The
application's threads poll flags of their `UserConnection` and enter the RUDP
code while the reactor thread waits for them inside a callback.

What makes each part correct:

- buffers: the bytes read are the bytes written, in order, once; nothing that
  the peer lacks is forgotten; everything written is read in the end;
- congestion control: the window never closes and never grows on a loss, the
  round trip estimate is bounded and follows the path;
- connections: one connect has one socket at the other end, every attempt and
  every close comes to an end, sockets return to the pool, an index entry never
  outlives its socket, a host notices that its peer is gone;
- user connections: the reactor and the threads exclude each other in the RUDP
  code, no thread is left waiting, `close()` ends everything and frees nothing that
  is in use;
- nodes: one control channel at a time, whose stream goes to its peer; a route
  table with at most one row for each node, and in the end none for a node that
  nobody reports any more; one order at a time for a device, and a second
  connection wherever there is room for one; exactly one source, whose packets
  reach whoever streams.

`PROJECT.json` lists the hazards with their lines.

## The modules

### ReliableStream

The abstract specification of a connection: at each end the application has
written bytes 1..n and its peer has read a prefix of them. Two actions, `Write`
and `Read`.

### RudpTransfer

Two connected sockets with their send and receive buffers and the path between
them. Actions and code:

| Action | Code |
|---|---|
| `Write` | `RUDPSendBuffer::send`, ending in `attempt_send` |
| `Read` | one turn of the loop of `RUDPRecvBuffer::read` |
| `ReceiveData`, `ReceiveAck`, `ReceiveNack` | `RUDPSocket::process_data`, `process_data_ack`, `process_data_nack` with the buffer operations they call |
| `Heartbeat` | the buffers' `on_timer` from `RUDPSocket::heartbeat` |
| `AttemptSend` (part of all but `Read`) | `RUDPSendBuffer::attempt_send` |
| `Transmit` | `send_udp` and the network: any datagram may be lost, any may be overtaken, and with `Duplicates` a delivered one may be delivered again |

State: `cut[p]` is the list of segment ends of all that was ever written at `p`;
`send_data_` is the segments after `sent[p]`, `send_window_` the set
`sendWindow[p]`. Every segment therefore is an interval of bytes, and the
receive side carries these intervals. What is abstracted: time (which segments
of the window have timed out, whether 100 ms have passed since the last
`attempt_send`, whether an acknowledgement is due, whether a loss is old enough
to be reported are choices), the congestion window (any value of `Cwnds` each
time it is read), the start of the sequence numbers (1 instead of a random
number, which both ends know from SYN and SYN2). A handler is one step; that the
application may run inside a callback of a handler is not in this module.

### RudpCongestion

`RUDPCCCObject` alone, driven by every order of acknowledgements, loss reports,
resends and timer decisions. `process_data_nack` calls `on_loss` and then
`on_ack`, which is the single action `LossReported`. `max_cwnd_` is a `uint16_t`: its
assignment is taken modulo `CwndModulus`. The window variables and the round
trip variables do not depend on each other, so two runs look at them one at a
time. `path` is the round trip time of the network at the moment; `Delay` changes
it at any time, and `SetRtt(path)` is an answer that has measured it. A sample
above `MAX_RTT` is ignored, as in `set_rtt`.

### RudpConnection

A connecting host and a listening host: their tables of sockets, the state
machine of each socket, the server's index of half open connections
(`peer_socket_ids_`), the listener, the path, and the handles that applications
hold. An action is a call of the application (`Connect`, `Listen`, `AppClose`), a
timer (`Timeout`, `KeepAlive`) or a datagram (`Receive`, which follows
`RUDPObject::process`: a known socket, a SYN for a listener, or nobody). `Become`
is `set_state`, with `free_sockets` when the new state is `RUDP_CLOSE`. A handle is
the id of a socket and, in the model only, the connection it stands for: `held`
are the handles applications have, and `AppClose` closes whatever socket has the
id now, as `UDT::close` does. `early` is the one way in which a handle can go stale:
a FIN or a SYN of the peer that finds the socket in `RUDP_FIN2_STATE` gives it
back before the application has closed it. The path is a sequence in each
direction that loses any datagram, and that reorders when `Reordering` is TRUE.
`sum` is `check_sum_`, a different number for each connect; the code draws it at
random from 65536, so that two connections may share it, which the model leaves
out. Each host has one address. What else is left out: `force_close`, `destroy`,
several adapters, address learning, options, a failing `bind`.

`opened[n]` is a history: how often `accept()` has returned a socket of connection
`n`. A server that listens again may accept a late copy of a SYN for a second time;
`FinHonest` then says nothing of that connection, because one of its two sockets may
be in use while the other has ended with the client's FIN.

`RudpTransfer` starts where `RudpConnection` has both sockets in `CONNECTED`,
and `RudpConnection` leaves the data messages out; `WindowNeverCloses` of
`RudpCongestion` is what `RudpTransfer` assumes of `Cwnds` (at least 1).

### UserConnection

One `UserConnection` between the application's threads and the reactor.

| Actions | Code |
|---|---|
| `Connect`, `Poll`, `GiveUp`, `Accept`, `Close`, `ArmClose`, `Delete` | the thread that opens and closes: `UserConnection::connect`, `UDT::accept`, `close`, `UDT::close` |
| `Call`, `Test`, `Arm`, `Acquire`, `Operate`, `Disarm` | the statements of `recv` and `send` between which others can run |
| `FirstTimer`, `CloseTimer` | `handle_timeout` for the timers of the constructor and of `close` |
| `Heartbeat`, `Datagram`, then `Input`, `Output`, `NoOutput`, `Connected`, `Lost`, `Broken`, `Fin`, `Freed`, `Unbind` | a handler of `RUDPSocket`, cut at its callbacks |
| `Release`, `Resume`, `Relock` | the 2 ms in which a callback lets go of a mutex, and taking it again |

The mutexes are counted for the reactor (`hold`), because they are recursive and
the code can acquire one twice. The waits of the code are bounds on real time;
the head of the module names what is assumed of them. `late`, `wiped` and
`doubled` name the only threads that may be left waiting: one that passed the test
of `broken_` and reached the mutex when the last callback was over, one whose
flag a second thread of the same kind has reset, and those whose mutex the
reactor acquired twice because a callback came before the constructor's timer.
What `RudpTransfer` treats as a step of its own, an application's call, is by
`Exclusive` a step between two steps of the reactor.

### ControlChannel

RepeaterNode's three threads. `Wake`, `Report` and `Join` are the main loop;
`ConnectFails`, `Publish` and `Gate1` the worker that it starts for an event
(`WorkingThreadFn1`); `Listen`, `Accept`, `Drop2`, `Gate2`, `Claim`, `Share` and
`Release` the one that listens; and `Enter`, `Hello`, `AvStart`, `AvStop`, `Leave`,
`SenderFreed`, `Close` and `Clear` are the call of `ControlChannelLoop`, the loop and
what each worker does after it. Each is what a thread does between two reads or
writes of a field that another thread writes too: worker 2 tests
`m_InConnection1` (`Gate2`), sets its own flag (`Claim`), creates a thread and fills
the `m1_use_*` fields (`Share`), and reads them for the call (`Enter`). Three histories
say what the unlocked flags cannot prevent:

- `overlapped`: worker 1 has put its socket in the shared fields while worker 2
  had its flag set;
- `overtaken`: worker 1 went from its start to its connection while worker 2 went
  from its test of `m_InConnection1` to its set of `m_InConnection2`. That is seconds
  against a few instructions, and after it two threads may be in
  `ControlChannelLoop`, which the comment in `Guaji.cpp` excludes;
- `mixed`: worker 1 filled the fields between worker 2's set of its flag and its
  call of the loop. Worker 1 then sees the flag, drops its connection and closes
  what the field names, which may be what worker 2 goes on to serve. Only
  `ServedNotClosed` makes this exception.

### RouteTable

The table of a Repeater with three threads: the IPC thread (`Parse`, `FindRow`,
`ParseFails`, `Store`, `EndReport`, `Drop`), the event loop (`Check`, `Adjust`, `AdjustReturns`, `Optimize`,
`OptimizeSends`, `OptimizeReturns`, `EndLoop`) and, with the event loop, the threads
of viewer connections that pass events on (`FindNext`, `PassOn`). `held` is
`route_table_csec` as far as it is held over network calls; all other uses of the
lock are single steps. `Recursive` says which mutex it is. A report has any number
of rows; `ParseFails` is a row that `ParseReportNode` refuses, which nobody looks at
(`Shiyong.cpp:3364`), so that what is left of the row before is stored once more.
`reported` are the nodes whose rows still come. They need not be alive: a Repeater
keeps the last report of each RepeaterNode and sends it up in every period
(`DeviceTopoReport`), also when that one has ended (`IpcGuaji.cpp:217` clears its
socket only), so its row stays at the Repeaters above for as long as that Repeater
lives. `Silence` is the end of a node's reports, for whatever reason.

### TopoAdjust

The root's orders for second connections. `Claim` and `Order` are the two halves
of `AdjustTopoStructure` (before and after the marked entry gets its ids), `Pass`
and `ServerEvent` the other searches, which free old entries on their way;
`Deliver`, then `LookOn`, `LookExpired`, `Sweep` and `LookFinds` for one entry after the
other, and `Fulfil` and `Switch` are the IPC thread, which takes no lock: its test
that an entry is too old and the statement that frees it are two steps, and an entry
that the event loop is writing may look to it like anything. `reused` says that it
was at an entry, with any of these steps, when the event loop gave it to an order
or was writing it; what follows is excused for good. The other actions are the tree,
which connects, fails, breaks and reports in its own time. What the root knows
(`seen`, `seenBusy`, `seenSpare`) is what was last reported. `orders` is what the
table stands for, kept apart from it: an order ends when its viewer's report is
delivered, or with its 60 s.

### MediaSource

Which of the three viewer connections of a Repeater feeds it: a node below the
first level that is not the root. Each connection has a thread (`CheckPassword`,
`HelloAnswered`, `Begin`, `Packet`, `EndLoop`, `Ended`, `Bye`, from `ConnectThreadFn`,
`DoInConnection` and `RecvSocketDataLoop`); each of these threads and the event loop
may `ConnectNode`, `DisconnectNode` and, on an order or when packets stay away,
switch. `SwitchMediaSource` is cut where it talks to a peer: `StartSwitch` sends
AV_START to the new source, `EndSwitch` the rest. `DisconnectNode` and `Ended` look for
a connection that can take over; when there is none (`Scanned`), AV_STOP is sent, or
the flow reported, and only then the source is reset (`StopSource`, `ForgetSource`),
without a second look. Five histories name what the missing lock can spoil for good:

- `rushed`: two connections send HELLO at once while none is up; both become
  primary, and if the last to write `currentSourceIndex` fails there is no source;
- `late`: the source that a connection found before its HELLO is gone when the
  answer comes; it is up, but nothing makes it the source, because
  `SwitchMediaSource(-1, ...)` returns;
- `absent`: a "Switch" event names a connection that is not up;
- `crossed`: two threads switch at once, or the new source breaks before the
  switch is over;
- `missed`: the source is reset because no connection could take over, and one has
  come up, or has become the source, since then.

`SourceServes` says that these are all.

### PacketQueue

The queue of each payload between the source and one RepeaterNode below.
Receive threads `Take` a packet, then `Count`, `Evict`, `Put` and `Forward` it
(`fake_rtp_recv_fn`), each under the lock of its own, and may `End` the stream
(`CMD_CODE_END`); `Switch` changes the source, so that the old thread's last packet
and the new one's first meet. The IPC thread's `AvStart`, `Find`, `SendItem`,
`BurstOver` and `AvStop` are `SendPacketsInQueue` and its callers. A packet is its
place in the stream and `SeqNum` what `wSeqNum` makes of it. `spoilt` is the burst that
does not take place, or that follows a packet which was freed under it: the code
starts no burst unless it finds the audio *and* the video packet asked for, so
that a peer which lacks only audio gets none of it. `wrapped` is a packet that comes
so late that `PutIntoRecvPacketQueue` misjudges its number: one from before the wrap
after one from behind it, or one that is `Margin` or more away from a packet queued.

### The MC modules

`MCRudpTransfer`, `MCRudpCongestion`, `MCRudpConnection`, `MCRouteTable` and `MCTopoAdjust`
give constants their values and cut the behaviours to bounds. `MCNode` puts
`ControlChannel`, `MediaSource` and `PacketQueue`, the two programs of a node, into
one run, with one receive thread as the first source, since they are alike; they share no state in these models, so that one moves while the others
are in their initial states, which visits every state of each. Its constants are
those of the three modules, and `NodeProofs` proves about it for all of their values.

## The runs

| Run | Instance | What it shows |
|---|---|---|
| `TransferSafe` | 4 bytes one way over 2 datagrams in flight, or 2 bytes each way over 1; segments of 2, writes up to 3, reads of 1 or 2, a window of 3 (windows of 1 *and* 3 reach the same states), NAGLE, duplicates | `NothingLost`, `AckHonest`, `BufferAccounted`, `OnlyMissingReported`, `AheadWithinWindow`, `LossNeedsStaleNack`; the connection implements `ReliableStream`. With `SeqInterval` 3 a window of 3 reaches as far as the exception of `on_data()` lets it |
| `TransferLive` | 3 one-byte segments, 1 datagram in flight each way, so order is kept | `Delivered` |
| `TransferStall` | the same with 2 datagrams in flight, so order is not kept | violates `Delivered`, see below |
| `Congestion` | minimum 3, ceiling 6, modulus 11, sequence numbers up to 26, 3 resends; round trips from 5 to 100, samples at, inside and outside | the window does not close, slow start ends, the estimate settles |
| `ConnectionSafe` | one connect with 2 SYNs, 2 FINs, 2 copies, 3 in flight, whose server listens twice; or two connects that reuse ids, without repetition, and one accept; in order | handles, one socket per connect, honest FINs, the index |
| `ConnectionLive` | one connect, 2 ids, 2 SYNs, 2 FINs, reordering | attempts end, sockets return, orphans end |
| `ConnectionReused` | two connects, repeated SYN, in order | violates `OneSocketPerConnect` |
| `UserCalls` | a thread that reads and one that writes, one segment, room for one write; connected or accepted | exclusion, wake-ups, deletion, giving up, the end of `close` |
| `Node` | 3 sockets; 3 viewer connections; queues of 2, numbers modulo 12 with a margin of 4, packets across the wrap, two receive threads, one switch | the control channel's six properties, `SourceServes`, `QueueInOrder`, `NothingSkipped` |
| `RouteTable` | 3 nodes, of one of which the reports end, 2 rows | one row per node, events find their row, what is not reported is forgotten, reports get in |
| `RouteLinux` | 2 nodes, 2 rows, a mutex that cannot be locked twice | violates `Forgotten` |
| `TopoAdjust` | two devices of level 3 below one of two devices of level 2, 2 entries; two free guaji nodes at their uncle and no reports or breaks, or one, which one device is in search of, with reports, failures and breaks at any time | orders exclude each other, the switch is of the order, a second connection comes |

Why the bounds suffice. A stream of four bytes in segments of two, written and
read in pieces of different sizes, has a segment that is filled by a later write,
a read that ends inside a segment, a gap with a segment behind it, and a resend.
Two datagrams in flight are enough for one to overtake another. Three socket ids
on each host are one more than the connections that exist at a time, so that an
id is given back and taken again; two SYNs are one repetition. In `UserCalls`
one thread of each kind is what LSN's programs have on a connection; a second
writer, tried for safety, adds only the case `wiped` names. Three sockets are all
that RepeaterNode can have open unless some are lost, and three viewer
connections are what the Repeater has (`MAX_VIEWER_NUM`). A queue of two and
three packets have an eviction, a packet that comes late and one that comes
twice; the margin is larger than queue and jump, as 1024 is in the code. A table
with two rows and three nodes is full; the age of a row is one tick, because the
code looks at nothing but whether it has expired. Two devices that compete for
two nodes have two orders at a time, in a table of two entries that the IPC thread
searches step by step while the event loop writes. In the other half of the run one
node of the uncle is free, for one device, whose connection may break as often as it
likes: the device must be ordered, and connected, again. The runs
have about 200,000 (`TransferSafe`), 4.2 million (`ConnectionSafe`), 1.1 million
(`Node`), 200,000 (`RouteTable`) and 240,000 states (`TopoAdjust`). The proofs remove
the bounds from the safety properties of all modules, but for `OneSocketPerConnect`,
which is false in general (`ConnectionReused`) and is checked in `ConnectionSafe` only.

`CHECK_DEADLOCK FALSE` stands in the connection runs because their connects and
listens are counted, and in `UserCalls` because a connection ends: when all is
closed nothing is left to do. In `Node`, and where two devices compete in
`TopoAdjust`, the behaviour goes no further once a history is true that excuses a
property for good.

Fairness. In `TransferLive`: the application keeps reading; the heartbeat keeps
running (the RUDP timer re-arms itself in `RUDPObject::handle_timeout`), so an
acknowledgement that keeps falling due is sent again and again, and so is a
segment that keeps timing out; and a path on which a segment or an
acknowledgement is sent again and again delivers one of its copies (strong
fairness: a path that loses everything delivers nothing). In `Congestion`:
answers to KEEPALIVE keep arriving (weak fairness of `SetRtt(path)`); the property
speaks of the behaviours in which the path stops changing. In `ConnectionLive`: timers
fire, `Receive` takes what the path holds, and the application closes a connection
that it was told is broken; nothing is assumed of the path, which may lose every
datagram when it is sent. In `UserCalls`: the reactor goes on and comes to its
timers (strong fairness, because it has other things to do), a thread leaves the
RUDP code, and one that waits for a mutex which is free again and again gets it;
no application has to call anything. In `Node`: the threads run and attempts to
connect end. Nothing is assumed of what worker 2 finds when it looks at
`m_InConnection1` every 500 ms: the main loop sleeps only what is left of a register
period (`Guaji.cpp:486`), which is nothing after a long attempt, so that with one event
after the other worker 2 may never listen. `Reachable` therefore says that worker 2
listens, a control channel is up or worker 1 tries the peer of an event, again and
again. In `RouteTable`: time passes, network calls end, a report has finitely many
rows (strong fairness of `EndReport`), and who waits for the lock gets it, as the event
loop sleeps for a second between its passes. In `TopoAdjust`: time passes, the threads run, reports
arrive, and a viewer that is ordered again and again succeeds at last.

## What the code does otherwise

- `TransferStall`. `on_nack` records every reported segment below
  `cwnd_max_seq_` in `loss_set_`, also one that an acknowledgement which overtook
  the NACK has removed from the window. The loss branch of `attempt_send` erases
  only entries it finds in the window, so this one stays; and while `loss_set_` is
  not empty the branch that resends by timeout is not taken
  (`rudp_send_buffer.cpp:209,258`). A segment that is then lost, and that no NACK
  reports because no later segment reveals the gap, is never sent again.
  `clear_loss()` would empty the set, but nobody calls it. On a path that keeps
  the order (`TransferLive`) everything is delivered. `LossNeedsStaleNack` says that this NACK is the only way into that state.
- `ConnectionReused`. Freeing a socket erases the entry of its peer id and address
  even when a newer half open connection owns that entry
  (`rudp_interface.cpp:171`). The repeated SYN of the newer one then makes a second
  socket, without any reordering. Reordering does it too: the SYN_ACK erases the
  entry that "prevents establishing a connection twice" (`rudp_interface.cpp:500`),
  and a copy of the SYN that arrives later makes another socket. Such sockets
  vanish when their KEEPALIVEs are not answered or the client answers with a FIN.
- `RouteLinux`. `OptimizeStreamPath` holds `route_table_csec` and calls
  `FindTopoRouteItem`, which locks it (`Linux/Repeater/Shiyong.cpp:2963,2522`). On
  Windows the owner may; the mutex of the Linux port does not let it, and the event
  loop stops.

Exceptions are part of the properties: `overtaken`, `overlapped`, `freed`, `reused`,
`mixed`, `missed`, `early`, `late`, `wiped`, `doubled`, `rushed`, `absent`, `crossed`, `spoilt`, `wrapped`
and an `opened` above 1 each name a way in which the code leaves the property, by a race that it does not exclude.
TLC reaches each of them.

Observations that no property states:

- A connection's buffers hold 2 MiB (`rudp_stream.h:15`), which may be cut into far more
  segments than the `MAX_SEQ_INTNAL` = 20480 after which `on_data` closes a connection:
  it is the send window alone that keeps a correct sender from it.
- The row of a RepeaterNode that has ended is sent up for as long as its Repeater
  lives.
- `close()` does nothing for a socket in `RUDP_IDLE`, so the socket of a listening
  connection is never given back (`rudp_socket.cpp:189`); a SYN whose client id
  still has an old half open socket is answered with the old check sum, and that
  connect times out; the comment at `rudp_socket.cpp:11` speaks of two minutes, the
  constants say 25 seconds.
- `RUDPSocket::reset` leaves `user_ptr_`; the pools and sets of ids are used by
  several threads without a lock; `bind_event_handle(id, NULL)` may reach a socket
  that has the id since.
- `CtrlCmd_Send_FAKERTP_RESP_NOMUTEX` sends a frame in three parts, between which
  another thread's may fall; the comment in `PacketRepeater.cpp` says not to use it
  there.
- `OnReportEvent`, `HandleMediaStreamingChech` and `SwitchMediaSource` use
  `viewerArray[currentSourceIndex]`, which is outside the array when there is no
  source, or when it goes between the test and the use.
- `fake_rtp_recv_fn` follows a null pointer when CMD_CODE_END of another connection
  empties the queue between the count and the eviction.
- A connect that begins in the 2 s of `DisconnectNode` finds its new sockets closed.

## The proofs

Eight modules hold them. Each proves one or more inductive invariants (`IInv` where
nothing else is said), in three facts: it holds initially, every step keeps it,
and it implies the properties. Every safety property of a passing run but
`OneSocketPerConnect` is so proved.

`RudpTransferProofs`: for every pair of endpoints, every size, budget and
path, the safety properties that `TransferSafe` checks, and the refinement. The assumptions are those of `RudpTransfer`: the endpoints are each
other's peers and all sizes are positive; `SeqInterval` is not related to them. None
of the properties is inductive alone. That no acknowledgement is ahead of the receiver (`AckHonest`)
is true because datagrams only carry past values of `first_seq_`, which never
shrinks; that the window holds all the peer lacks (`NothingLost`) follows from
that and from the window being a run that ends at the last segment sent; that the
receiver holds the sender's bytes follows from the datagrams carrying segments
as they were cut, and from `send()` never changing a segment that was sent. For
each direction `IInv` says so: `SegmentsOK` (how the stream is cut), `SenderOK`
(the window is `base+1 .. sent` for a base that the peer has, and the byte count
is the bytes after `base`), `ReceiverOK` (what was read and what waits is the
stream up to `first_seq_`; what is out of order is later segments) and `PathOK`
(past acknowledgements, true copies). The proof shows for each action that its
own end's conjuncts are kept (`SendsKeeps`, `OnAckDoes`, `OnDataDoes`, `ReadDoes`)
and that the other end does not notice (`ReceiverFrame`, `Preserve`).
`Refinement` maps `written` to the total length of the cut stream; `Write` and
`Read` map to the abstract actions and every other step to a stutter.
`NoFurtherThanWindow` has an invariant of its own, `WindowGranted` (the window holds
no more segments than the controller has granted at some time): with that a segment
of the window is at most that many behind the window's base, which the peer has.
`StaleNackOnly`, for every path and segment by segment: a segment that is in
`loss_set_` and not in the window was so before the step, or the step is the arrival of
a NACK that names it and was overtaken: the peer has that segment by now.

`RudpCongestionProofs`: the bounds of the window and of the estimate, and two
action properties, for all constants that satisfy `CwndAssumption` and
`RttAssumption`.

`NodeProofs`: the safety of a node, `NodeSafe`: the eight invariants that `Node` checks,
for every value of `MCNode`'s constants. `NodeImplementsParts` says that the node
behaves in each part as the part's own module allows, and the parts are proved
one by one:

- the control channel, for any number of sockets. `IInv` is the types and, unless
  worker 2 was overtaken, four parts: `FlagsTell` (what each flag says of where the
  workers are), `SocketsHeld` (whose socket is where, and which are open; `Unmixed`, that worker 2
  serves its own open socket, unless `mixed`),
  `SenderLives` (the sender lives from AV_START to the end of `FakeRtpSend_uninit`)
  and `SharedIsOwn` (unless the workers overlapped, the shared field is the socket
  of the one that serves). The second needs the first, because what a worker finds
  in the shared field depends on where the other one can be.
- the packet queues, for any finite number of receive threads and any number of
  packets, from `QueueAssumption`: the margin is positive and at most a third of the
  modulus (1024 of 65536 in the code), and a queue holds at least one packet.
  `QueueInv` is the types and four parts: `AllAscend` (unless `wrapped`, a queue is in
  the order of the stream), `Room` (packets in a queue and threads about to put
  one are together fewer than the capacity and the number of threads, because a
  thread counts before it puts), `PeerOK` (what the IPC thread's place says of the
  burst) and `BurstOK` (unless `spoilt` or `wrapped`, the burst points to a queued
  packet, and what the peer still lacks is in a thread's hand or not before that
  packet in its queue). That an insertion keeps the order is
  `InsertedAscends`: by the least-number principle, `LeastNat`, which is taken from the
  well-foundedness of `<` because no installed prover instantiates an induction,
  there is a last packet that the code's comparison takes for an earlier one; and
  unless `Misled` the comparison says the truth.
- the media source, from `MediaSourceProofs` (below).

`RouteTableProofs`: one row per node and the truth of what events find, for any
number of nodes and rows and with either mutex. The extra part is `FoundStillTrue`:
what the IPC thread found without keeping the lock is still true when it writes,
because nobody else stores rows, and a row that is freed keeps its id.

`UserConnectionProofs`: the four safety properties for any number of threads. `IInv`
is `SocketOK` (how the socket's state, `state_` and `broken_` go together), `MainOK` (what the
opening and closing thread knows), `HoldOK` (how often the reactor holds a mutex at
each step of its handlers), `ThreadsOK` (a thread that waits has its flag set, and
one that is inside has the mutex) and `FreedUnused`.

`RudpConnectionProofs`: types, `IndexSound` and `HandlesTrue`, for any number of
socket ids, connects, repetitions and datagrams in flight, with or without
reordering. `IInv` adds to the two properties `SocketsOK` (the fields of a socket
are as its state says: the check sum is 0 just when it is free or idle, and a free
one has no handler), `NetOK` (no datagram has check sum 0, which is why one that is
late finds no socket that is free or listens) and `RestOK` (the other types).
`FinsHonest` rests on lemmas (`StepIs`, `PathDoes`) that say once what a step can do to
sockets and path: no FIN reaches a socket whose peer an application still holds,
unless `accept()` returned two sockets of that connection, for any number of connects
and accepts, and on any path. `FinInv` says that who may still send a FIN, or has sent
one, has a peer without an application and without a way to get one, or one that was
accepted again (`Over`, `MayOpen`, `Again`).

`MediaSourceProofs`: `SourceServes` for any number of viewer connections, unless one
of the five cases has come. Its parts: `SwitchOK` (who switches knows the source,
and is alone), `FlagsOK` (when the flags of a connection are up), `SourceAlive` and
`NoSourceOK` (the source is up or will name its successor), `FirstOK`, `PrimaryOK`
and `StartedOK` (who streams, while nobody switches).

`TopoAdjustProofs`: `OrdersExclusive` and `SwitchIsOfOrder` for every tree and every
size of the table. The table is what excludes orders, the history `orders` is what
they are, so `IInv` says that the live entries which are written are the orders
(`TableTells`), that they differ (`EntriesDiffer`), that the pair being ordered is
in none of them (`ClaimOK`), that the IPC thread's entry is not the one being written and one that
it is about to free stands for no order (`FoundOK`) - all unless `reused`.

Model-checked only: liveness, which needs fairness and lies outside what the
provers do (`Delivered`, `RttSettles`, the three properties of `ConnectionLive`,
`CallsWoken`, `CloseEnds`, `Reachable`, `Forgotten`, `ReportsGetIn`,
`SecondConnection`), and `OneSocketPerConnect`.

## Not modelled

Codecs, user interface, STUN, UPnP, HTTP, encodings, logging, serialisation:
formatting, input and output, or third-party code, which is most of the
repository's lines. The daemon is not used by LSN. The Linux port and the copy of
RUDP in the Android application repeat the code that is modelled, but for the
mutex that `Recursive` stands for. Of the parts that are modelled: in
`UserConnection`, `select` (no program of LSN selects on a connection), direct UDP,
learned addresses and the shared UDP socket; in RepeaterNode, registration and
the steps of STUN; in the Repeater, statistics, the parsing of rows and events,
and what a root or a first level Repeater does with its one source. The models
assume that an armed timer fires and a cancelled one does not, and that the pools
give out distinct objects. `FakeRtpSend_uninit` frees the sender 800 ms after its
flag is reset; that no send takes longer is a bound on real time.

## What is left

1. `timer_queue_t` and `timer_ring` against an abstract set of timers: an armed
   timer fires once, a cancelled one never, ids are not reused while armed. Then
   `ObjectPool` and the bounded queues under several threads.
2. An abstract connection (closed, opening, open, closing) that `RudpConnection`
   implements when the path keeps order and ids are not reused.
