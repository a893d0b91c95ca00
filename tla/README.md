# A TLA+ model of cutieproxy

cutieproxy is a Windows program that sends the connections of chosen processes
through SOCKS5 proxies. A packet filter driver (WinpkFilter, `ndisapi`) hands the
packets of the default network adapter to the program, which rewrites the ones
to be redirected so that they reach a proxy server inside the program; that
server connects to the SOCKS5 server and relays the data. The repository has no
tests and hardly any documentation: the modules here are translated from the code.

Paths are relative to `src/`; `N/` is `netlib/netlib/`.

## Inventory

| Component | Source | State | Operations |
|---|---|---|---|
| TCP relay | `N/proxy/tcp_proxy_socket.h` | two sockets, `connection_status_`, two cyclic buffers, four `WSABUF`s (address, length), `timestamp_` | completion handlers for receive and send on either side, `close_client`, `start_data_relay`, `is_ready_for_removal` |
| SOCKS5 negotiation (TCP) | `N/proxy/socks5_tcp_proxy_socket.h`, `socks5_common.h` | `current_state_`, request and reply buffers | `remote_negotiate`, `process_receive_negotiate_complete` |
| TCP proxy server | `N/proxy/tcp_proxy_server.h` | listening socket, `sock_array_events_`, `proxy_sockets_`, `end_server_` | accept, connect and clear threads, `start`, `stop`, `wait_for_multiple_objects` |
| I/O completion port | `N/winsys/io_completion_port.h` | thread pool, handlers by key | start/stop pool, associate, dispatch |
| Packet filter | `N/ndisapi/queued_packet_filter.h`, `network_adapter.h` | `filter_state_`, four queues of packet blocks with mutex and condition variable, driver event and mode | four threads, `start_filter`, `stop_filter`, `reconfigure` |
| Router lifecycle | `N/proxy/socks_local_router.h`, `cutie/core/Socksifier.cpp` | `is_active_`, `lock_`, `default_adapter_`, `if_index_` | `start`, `stop`, interface-change callback, restart threads |
| Router packet path | `socks_local_router.h` (filter function), `N/ndisapi/tcp_local_redirect.h` | port mappers, proxies, filters, translation table with timestamps | filter function, client-to-server and server-to-client rewriting, 5 min cleanup |
| UDP redirection | `N/ndisapi/socks5_udp_local_redirect.h` | endpoints with timestamps | rewriting, SOCKS5 UDP header, 15 min cleanup |
| UDP proxy | `N/proxy/socks5_local_udp_proxy_server.h`, `socks5_udp_proxy_socket.h` | one receiving socket, `proxy_sockets_` by client port | receive loop, association, relay, removal after 5 min |
| Packet pool | `N/proxy/packet_pool.h` | a stack of packets per size class | `allocate`, `free` |
| Process lookup | `N/iphelper/process_lookup.h` | session → process tables | lookup, `actualize` |
| Static filters | `N/ndisapi/static_filters.h` | ordered filter list | add, insert, remove, store to and load from the driver |
| Network configuration | `N/iphelper/network_adapter_info.h` | registration for change notifications | external adapters, `get_best_interface`, comparison, register, cancel |
| Process filters, user interface | `cutie/` | list of proxies with filters, `m_Started` | add, edit, delete, start, stop |
| Addresses; logging, capture, handles | `N/net`, `N/log`, `N/pcap`, `N/winsys`, `N/tools` | none to speak of | value types and wrappers |

**How they interact.** The user interface owns one `Socksifier`, which owns one
router. The router owns the packet filter, the redirections, the completion port
and a pair of TCP and UDP proxy servers per proxy. The filter's process thread
calls the router's filter function, which reads the router's tables under `lock_`
and writes the port mappers. The accept thread of a TCP server consumes the
mapper's entry for the client's port. When the connection to the SOCKS5 server
is made, the connect thread turns it into a `tcp_proxy_socket`, whose overlapped
operations complete on the threads of the completion port. The clear thread
erases the ones that say they are ready for removal. When the operating system
reports a change of interface, its callback starts a detached thread that stops,
reconfigures and starts the filter.

**What is hard.** Completions on any pool thread in any order; ownership of
sockets passing between threads; memory that the kernel uses while the program
may free it; condition variables notified without their mutex; a lock held while
joining a thread that wants it; notifications that overlap; stopping at any
moment. `PROJECT.json` lists each such place with its line and the properties
that watch over it.

**What makes each component correct.**

- Relay: bytes arrive in order and all of them; the kernel never writes where it
  reads; a connection never stalls; the object is destroyed only when unused, and
  is destroyed eventually.
- TCP server: the connection that is ready is the one adopted; every socket has
  one owner and is closed once; no wake-up is lost; `stop` returns.
- Packet filter: packets keep their order, none is lost or duplicated; blocks
  circulate; stopping completes and leaves nothing behind.
- Router: one thread at a time works on the filter; its interfaces are not
  rebuilt under it; it follows the network; calls and restarts end; stopped is stopped.
- Redirections: what is rewritten on the way out is restored on the way back; a
  mapping is used by the connection it was made for; the program's own
  connections are not redirected; listed programs are, and no others.
- UDP proxy: a client's datagrams go through its own association although all share
  one buffer; the server never falls deaf; an object is not used after its removal;
  a client that does not pause is always served; `stop` returns.
- Pool, lookup, static filters, items: a packet has room for its datagram and
  returns to its class; a proxy gets the filters of its own row.

## Plan

All of it is done, in this order, the most important behaviour first:

1. `RelayBuffer`, `RelayRing`, `RelayChannel`, `RelayRing_proofs`: moving bytes.
2. `TcpProxySocket` (uses `RelayBuffer`): life and death of a connection.
3. `QueuedPacketFilter`: the packet pipeline.
4. `WaitObjects`, `TcpProxyServer`: from accept to relay.
5. `AdapterInfo`, `RouterLifecycle`, `RouterLifecycle_proofs`: start, stop, restart.
6. `Socks5Handshake` (extends `TcpProxySocket`, which it implements).
7. `StaticFilters`, `ProxyItems`, `ProcessLookup`, `TcpRedirect` and `RouterRedirect`,
   which composes them: the way of TCP.
8. `PacketPool`, `UdpRedirect` and `UdpProxy`, which composes them with
   `ProcessLookup`: the way of UDP.
9. `TcpProxySocket_proofs`, `Socks5Handshake_proofs`, `QueuedPacketFilter_proofs`,
   `TcpProxyServer_proofs`, `UdpProxy_proofs` and `RouterRedirect_proofs`: their
   invariants and refinement.

Worth doing next: the liveness of a stopping or restarting system, which only TLC
checks; inbound packets of the driver, which the router redirects but the callback
passes. Constants carry named assumptions and no module declares a `RECURSIVE`
operator, so every module can be proved about.

## Modules

`<name>.cfg` files instantiate the module named before the underscore, or its
`MC` module where there is one. Beside the definitions that model the code, each
module has *slips*: plausible mistakes in one definition each (a dropped guard, a
missing reset). They are not part of the specification. `PROJECT.json` names the
slip that each property catches.

### RelayBuffer, RelayRing, RelayChannel

One direction of the relay. `RelayBuffer` is the pointer arithmetic of the two
handlers as four operators: `RecvPos`, `RecvLen`, `SendPos`, `SendLen`; addresses
are offsets. `RelayRing` adds the memory and the kernel: a posted operation
completes with any number of bytes up to its length (`KernelRecv`, `KernelSend`)
or fails (`RecvEnds`, `SendFails`, with the `close_client` of the completion
callback), and its completion is handled later, in either order, by
`ProcessReceive` and `ProcessSend`, each atomic because the source holds `lock_`.
All calls inside a handler are part of it, including a `WSASend` or `WSARecv` that
fails and closes the connection. The source has the four handler branches
written out (two directions times two handlers); the model has them once, and
`TcpProxySocket` has both directions. `CloseElsewhere` stands for whatever the
other direction or the sweep does to this one. Byte *i* of the stream is the
number *i*.

`RelayChannel` is the promise: a bounded first-in first-out channel that may
close at any time. `ImplementsChannel` is the refinement.

### TcpProxySocket, Socks5Handshake

`TcpProxySocket` is the whole object: two sockets, the status, the four
`WSABUF`s, and for each of the four operations whether it is idle, pending in the
kernel, or completed (with a number of bytes, or failed) and waiting in the
completion port. Contents are left out. `start_data_relay` runs without lock and is
two actions. The negotiation is reduced to its outcomes. `Sweep` is
`is_ready_for_removal` on a connection idle for 120 s, `Remove` the erasure by
`clear_thread`. The module has no run of its own: its properties are checked, and
proved, for `Socks5Handshake`, which extends it and implements its `Spec`.

`Socks5Handshake` is the negotiation. A handler sends a request, sets
`current_state_` and posts the receive for the answer, without a lock, as three
actions in the order of `Handler`; a pool thread may handle the answer in between.
The answer is judged by what is in its buffer, which may hold bytes of an earlier
answer, because the code does not look at how many bytes came. The SOCKS server
keeps to the protocol but may refuse at each stage; TCP may split its answers.

*Timing assumption* (`Quiet`): the sweep acts on a connection only when no
completion of it is waiting in the completion port, `start_data_relay` is not
halfway and no handler of the negotiation is at work, because these take far less
than the 120 s, and the further 10 s, for which the connection must have been idle.

### QueuedPacketFilter

Four threads with one program counter each, four queues, the blocks with their
three packet arrays, the driver's event and mode, and a controller that starts
and stops. Waiting on a condition variable takes two steps, `deciding` (predicate
found false, mutex held) and `asleep`, because `stop_filter` changes the state
and notifies without the mutex. Evaluating the predicate, popping, and pushing
with the notification are atomic, as they are under the mutex. A thread that was
notified is `woken`: the read thread, which waits only if its queue is empty, looks
at the filter's state only after waiting, the others always.

### WaitObjects, TcpProxyServer

`WaitResults` is `wait_for_multiple_objects`: the set of indices it may return,
with its random order of halves and its adjustment, for a system limit `MaxWait`
(64 on Windows). `TcpProxyServer` has the accept thread (accept, query the
mapper, push the connection with its event, connect), the connect thread (copy
the events, wait, look up the index in the array, adopt, or clean up at the end),
the clear thread and a caller of `start` and `stop`. Each use of `lock_` is one
action and every gap between two uses is a place where others may step in. A
socket handle is `none`, `open`, `closed`, or `again` if it was closed once more
after being closed. The relay of `TcpProxySocket` is reduced to closing both
sockets once.

### AdapterInfo, RouterLifecycle, MCRouterLifecycle

`AdapterInfo` is how the program reads the network: the connections that count
as external, the one that routes to 1.1.1.1, whether two readings are of the same
adapter with the same addresses, and the filter's interface for it, which for a
PPP connection is the WAN interface that lists its address. `RouterLifecycle` is
`start` and `stop` by one thread at a time (`Socksifier::m_Lock`), step by step
under `lock_` shared; the packet filter reduced to its state and its process
thread, which takes `lock_` shared for each packet; changes of the network,
their notifications, the callback and the restart threads, which hold `lock_`
exclusively. `restart[i]` is where the *i*-th change has got to:

- The callback, which holds no lock, queries the system (`CallbackQueries`) and
  compares what it got with `default_adapter_` (`CallbackCompares`), two steps
  between which anything may happen.
- The restart thread queries (`RestartQueries`) and assigns (`RestartAssigns`) in
  two steps, too. A callback that compares in between reads the old value, or one
  that is being written: the comparison may come out either way. `missed` records
  that this, or a change in `start()` before the registration, has happened since
  the last query of a restart.
- `CancelMibChangeNotify2` waits for callbacks that have begun (`StopCancels`).
- `StartFilter` may fail; the state then remains `starting` for good.
- The process thread tests the filter's state and sleeps in two steps
  (`ProcessTests`, `ProcessSleeps`), so that the notification of `stop_filter` may
  be `lost`, in a restart as well as in `stop()`.
- A waiting writer may or may not let new readers in: the actions allow both, the
  fairness promises a reader nothing while a writer waits.
- `stop()` goes on with the proxies and the thread pool (`stop_proxies`) before it
  returns. Their joins are `TcpProxyServer` and `UdpProxy`, each with a
  `StopReturns`; none of their threads uses `lock_`.

### ProxyItems, StaticFilters, ProcessLookup, TcpRedirect, RouterRedirect

The way of TCP. Four modules of operators on one component each, and one that
composes them:

- `StaticFilters`: the filters `add_socks5_proxy` hands the driver, and the first
  that matches a packet (`Verdict`; the driver is external).
- `ProxyItems` (with variables): the window's list, its edits, what an input must
  be, and what `processProxyItems` makes of the list in a new router. A process
  filter is the set of processes that it matches.
- `ProcessLookup`: the copies of the system's tables and what the packet callback
  makes of a session that is in them, or is not.
- `TcpRedirect`: the table of redirected connections, both translations, the
  5 minutes after which an entry is erased (two units of time).
- `RouterRedirect`: one action per packet that leaves this machine, `Open`,
  `Repeat`, `ClientSends`, `ServedSends`, `Dial`, each of which goes through
  `Outgoing`: the driver's verdict, then the callback with the mapper. `Accept` is
  the accept thread's query of the mapper. A TCP connection has a state of its own
  (`syn`, `open`, `closed`), so that a packet that is not translated is answered by
  the real peer, or by nobody. What went wrong is recorded in `faults` at the
  moment of the packet, with what was then true of the lists.

### PacketPool, UdpRedirect, UdpProxy, MCUdpProxy

The way of UDP. `PacketPool` has `allocate` and `free`; a packet is its
`max_size_`. `UdpRedirect` has the endpoints with their ages, and both
translations with the ten bytes of header that they insert or remove. `UdpProxy`
composes them with `ProcessLookup`, the mapper, the server with its one receive and
one buffer, the sockets made for clients, the contexts of outstanding sends, the
threads of the completion port and `stop()`. A completion is taken by a thread
(`Dequeue`), then handled under the server's `lock_` (`Handle`). A handler that asks
for an association keeps the lock while it waits; this is the state `asking`, which
ends with `Associate` or `Deny`. Programs bind and close ports at any time
(`Rebind`), while the callback uses the copy of the system's table until it meets a
port that is not in it. Ghosts say what happened: `gap` how long a client has
paused, `owned` which programs have had a port since the table was copied, `lapsed`
which ports were looked up when the system did not answer, `harm` what happened to a
datagram while the client had not paused, or against `owned` and `lapsed`.

## Runs

| Run | Bounds | Distinct states | Shows |
|---|---|---|---|
| `RelayRing` | 4 cells, 10 bytes | 1.6 thousand | bytes stay in order, kernel accesses are disjoint, an open connection does not stall; refinement of the channel; the whole stream arrives |
| `Socks5Handshake` | 3 cells per direction | 56 thousand | every answer meets its state; no relay without a grant and no password unasked; length ⇔ outstanding; removal only when unused; every closed connection is reclaimed; refinement of `TcpProxySocket` |
| `QueuedPacketFilter` | 2 blocks of 2, 2 packets, 2 starts | 2.5 million | packets kept, once and in order; blocks circulate; no lost wake-up; the second run finds nothing of the first |
| `QueuedPacketFilter_stop` | 2 blocks of 1, 1 packet | violation | `stop_filter` may hang |
| `TcpProxyServer` | 2 connections, 2 starts | 55 thousand | right connection, one owner of each socket; a ready connection is adopted; `stop` returns |
| `TcpProxyServer_many` | 2 connections, limit of 3 handles | violation | wrong index in the upper half |
| `RouterLifecycle` | 5 readings of 4 adapters, 2 starts, 2 changes | 51 thousand | mutual exclusion on the filter, no rebuild in use; the filter settles on the present adapter unless a change was missed; restarts end and calls return, or hang in one of three named states |
| `RouterLifecycle_restart` | 1 change, 1 start | violation | restart and packet thread deadlock |
| `RouterLifecycle_stray` | 1 change, 1 start | violation | a late restart starts a stopped router's filter |
| `RouterRedirect` | 2 items, 4 edits; 2 programs, 2 peers, 1 client port; 1 failure, or 2 × 2.5 min | 1.1 million | a connection goes where it was going; both directions are translated while it is in use; no loop; listed programs are redirected and no others; filters go to their own proxy |
| `RouterRedirect_all` | the same | violation | with the filter every new proxy gets, replies pass untranslated |
| `UdpProxy` | 2 ports, 2 threads, 2 sockets, 2 sends, 2 datagrams and a late one, 1 answer, 2 changes of a port's program; 1 failure, or 6 × 2.5 min | 347 thousand | datagrams go through their client's association; the server never falls deaf; steady clients are served; listed programs are redirected and no others, as far as the last copy of the system's table tells; sockets that were refused an operation are removed; packets have room; `stop` returns |

**Why the bounds are enough.** Four cells and ten bytes let both pointers wrap
twice with every difference between them; the proofs remove the bound. Three
cells per direction let the full, the empty and the partly filled buffer occur in
both directions at once. Two blocks are the fewest that can overtake each other
or meet in one queue; two packets share a block or fill two, and the one that is
sent and the one that is received can go either way, since either may be
reverted. Two connections are the fewest for which an index may be wrong,
and let the array grow while an entry of it is being adopted. In `TcpProxyServer`
`MaxWait` is one more than the number of handles, so that no call is split; the
split is the subject of `TcpProxyServer_many`. Two changes give two
notifications that overlap, two restart threads one of which waits for the other's
lock, or a change back to the first adapter at any point of a restart; the proof
of the safety properties has no bound. The five readings are an adapter, a PPP connection
before and after it moves to another interface, one without interface and one
without address.

In `RouterRedirect` one client port serves two peers in turn, which is what makes
an entry of an earlier connection meet a later one; two programs take turns at the
same session. Two items are the fewest that can be confused. Two ticks are the
5 minutes. In `UdpProxy` two datagrams meet in the one buffer from one client or
two, one of them while the other's association is asked for; six ticks let the
socket (5 min) and then the endpoint (15 min) expire, with a datagram at any point
between. One program has both ports at
first; one of them is given up and taken up to two times, by either program or with
another address, before or between the two datagrams, any of which may make the table
be copied; in the run this comes without ticks, answers and `stop()`, none of which
looks at whose a port is (`PortsChangeAlone`). The limit of the pool is 1, so that it is reached.

Some bounds cut off behaviour beyond counting, and are named in the guards:
in `RouterRedirect` and `UdpProxy` a behaviour has failures or ticks, not both; the
list is edited before programs connect, one row may be deleted while the router
runs; in `UdpProxy` only the first datagram may be a fragment, a datagram arrives
only when a context for its send is left, re-posting the server's receive is never
refused, minutes pass only when nothing is under way, and `stop()` is not called
after they have passed. `RouterRedirect` assumes of the system that a port is not
given to a new connection before the local proxy has accepted and closed the one
before (see below).

**Deadlock** is not checked: in every model the environment may stop (the peers
have closed, the packets are through, nobody starts again), and the program then
rests. The properties that a thread does go on are stated as liveness.

## Fairness

Only what the operating system and the program's own threads guarantee:

- Relay: a queued completion is dispatched; closing a socket makes its pending
  operations fail. `StreamArrives` also assumes that the peers go on sending and
  receiving, which is its premise.
- Negotiation: a handler that has begun runs to its end; the relay's fairness.
  The SOCKS server owes nothing. `Reclaimed` has the clear thread's sweep, once a
  second, as a premise for those connections that need it.
- Packet filter: every thread that can run is scheduled. Nobody is obliged to
  send, start or stop.
- TCP server: the three threads and the caller of `stop` are scheduled; `WSAAccept`
  returns once its socket is closed. Clients, and connections, owe nothing.
- Router: threads are scheduled, a block has finitely many packets, and whoever
  waits for `lock_` gets it if it is free again and again, but a reader only while
  no writer waits. So what is found is a deadlock and no starvation. Nothing wakes a
  thread that has missed its notification. The proxies' part of `stop()` ends, as
  `StopReturns` of `TcpProxyServer` and of `UdpProxy` say.
- UDP: pool threads, clear thread and the caller of `stop` are scheduled, and sends
  complete. `Associate \/ Deny` is fair: the SOCKS server answers or closes. The
  code sets no time limit on that `recv`, so without the assumption neither
  `StopReturns` nor anything else about UDP would hold.

`RouterRedirect` states safety only: what a program and a peer do next is theirs.

## Proofs

Eight modules, one per component. Each has an inductive invariant `IInv` with
named conjuncts, lemmas about the operators, one lemma per action, and theorems for
the properties that the runs check. TLC checked each `IInv` first.

| Module | For | Theorems (properties) |
|---|---|---|
| `RelayRing_proofs` | any buffer size > 0, any stream | `TypeCorrect`, `InOrder`, `Disjoint`, `NoStall`, `Refinement` of `RelayChannel` |
| `TcpProxySocket_proofs` | any buffer size > 0 | `ConnectionRemovedWhenUnused`, `ConnectionLengthsTell`, `ConnectionTypes` |
| `Socks5Handshake_proofs` | any answers in any pieces | `HandshakeImplementsConnection`, and through it `HandshakeRemovedWhenUnused`, `HandshakeLengthsTell`; `HandshakeAdvances`, `HandshakePasswordOnlyIfChosen`, `HandshakeRelayOnlyIfGranted`, `HandshakeTypes` |
| `QueuedPacketFilter_proofs` | any number of blocks, of any size, and packets | `FilterNoLostWakeup`, `FilterBlocksCirculate`, `FilterStopLeavesNothing`, `FilterKeepsPackets` |
| `TcpProxyServer_proofs` | any connections that fit in one wait | `ServerRightConnection`, `ServerOneOwner`, `ServerTypes` |
| `RouterLifecycle_proofs` | any adapters, changes, starts | `Serialised` (`OneAtATime`), `NoRebuildInUse` (`InterfacesKept`), `FilterFollows` (`FollowsNetwork`) |
| `RouterRedirect_proofs` | any programs, peers, ports, lists, filters and failures | `RedirectRightDestination`, `RouterOwnFilters`, `RouterNoLoop`, `RouterListedExactly`, `RouterInUseIsTranslated` |
| `UdpProxy_proofs` | any clients, threads, sockets, sends, limit of the pool | `UdpRightClient`, `UdpServerListens`, `UdpPacketsFit`, `UdpTypes`, `UdpSteadyClients`, `UdpListedExactly` |

None of these properties is inductive alone. What each invariant adds:

- *Relay.* Where every byte is: the unsent bytes lie between the send pointer
  and the receive pointer, cyclically, and the cell *d* places after the send
  pointer holds the byte at position *d* after those already delivered; and which
  of the two pointers is ahead, which tells full from empty (the source decides it
  from the lengths). After the connection has closed, the pointers no longer
  matter and only what was delivered is kept.
- *Connection.* A receive is outstanding only if its length is nonzero, and the
  local send too until the sweep has cleared it, so that "all lengths zero", the
  test of the removal, means that nothing is outstanding. Both sockets are closed
  together, and each phase of `start_data_relay` says which operations it has not
  posted yet. For the types, `InBuffer`: every WSABUF, posted or completed, lies
  inside its buffer, which after a wrap follows from where the two pointers are.
- *Negotiation.* A handler is at work exactly when no receive is outstanding; this
  gives the refinement, since the relay's handlers never run beside it. For the
  password: the bytes on the wire contain the choice of that method only while the
  server is at that stage, and no step puts it anywhere else. For the grant
  (`AnswersInv`): when answers arrive whole, a receive that has completed leaves no
  request open and nothing on the wire, so a zero reply code in the last buffer
  is of the last answer, sent by a server that has granted.
- *Packet filter.* Which labels of a thread go with a block in its hands, and that
  hands and queues hold each block once; a thread that is about to wait has an
  empty queue, because whoever pushes needs the mutex which that thread holds; the
  threads of a stopped filter do not exist. For the packets (`PacketInv`): the
  threads and the places in their queues form one line, along which a block that is
  ahead holds older packets; each of a block's lists is filled only on its stretch
  of the line; what was written is older than all that may still be written on that
  side. That sorting a block's packets to two sides keeps their order is an
  induction over a list, made by the well-foundedness of the natural numbers for
  the set of good lengths.
- *TCP server.* The copy of the events is a prefix of the array, because only the
  connect thread removes entries; hence an index into the copy is one into the
  array. Each phase of the accept thread names what it owns.
- *Router.* The holder of `lock_` in every phase: a caller inside `start` or `stop`
  is a reader, a restart thread at work is the writer, and a writer excludes
  readers. `InterfacesKept` also needs that a stopped filter has no process thread.
  `FollowsNetwork` needs what each step of a restart leaves to the next: either
  somebody has a reading of the network as it is or is still to make one, or a change
  was missed, or the callback would find nothing changed (`UpToDate`); and then two
  readings have one interface, because an injection between finite sets of one size
  is onto. While a restart has queried the adapter and not yet assigned it,
  it holds the lock, so that nobody else assigns.
- *TCP redirection.* Only a session that waits to be accepted uses the mapper, and
  the entry of its port is its own or missing: `Open` redirects with the packet that
  writes the entry over any earlier one, the other sessions of the port are idle
  until the entry is consumed, and a repeated SYN writes the same again. That
  `ServerToClient` never translates a SYN follows from the keys of the table, whose
  ports are clients'.
- *TCP redirection, the other four* build on one another. `Settings`: a started
  router is what `processProxyItems` has built from the list shown (`Built`), that
  is, there is an increasing choice of rows, one for each server, with its endpoint,
  its filters and the static filters of its endpoint. The loop over the list is a
  recursive function, and the induction over its length is made for the set of
  lengths at which it holds, by the well-foundedness of the natural numbers.
  `TableInv`: what the driver sends to the program is not for a SOCKS server, and
  each entry of the table comes from such a packet or keeps its port. `ListedInv`:
  what `process_lookup` knows of a client's session is an owner since the last copy
  (`Known`), and every other session is this program's; so the first proxy with a
  matching filter is one that lists an owner. `UsedInv`: a connection that is
  redirected, and has not been idle for too long, is its owner's alone; the server
  that serves it is the one that the callback finds for the owner; and its entry is
  in the table and no older than the connection has been idle. That a packet of one
  session leaves the entries of the others alone (`SameEntry`) is what keeps it.
- *UDP.* While a thread asks for an association, the buffer holds the datagram for
  which it asks, as no receive is posted; and an object is not used for another
  client as long as a send refers to it. The pool's part says that what `allocate`
  returns has room, for every length up to 65536. `SteadyClients` relates three
  clocks (`Steadiness`): an endpoint is no older than its socket, unless an answer
  is on its way back, and the socket no older than the client's pause, unless a
  datagram of the client is on its way. `ListedExactly` needs what the copy of the system's
  table can give for a port, under whichever of its two addresses it is listed: a
  program that has had the port since the copy was taken, or the default process if
  the system did not answer (`Homes`); a program that binds a port is one of those.

*Assumptions*, all named in the modules. `BufferSizeAssumption`: the buffer is not
empty. `FilterAssumption`: `NoBlock` is not a block. `FewHandles` is a hypothesis of
the theorems about the TCP server: the connections and the server's own event fit in
one call, `Cardinality(Conns) + 1 < MaxWait`; beyond it the property is false
(second finding). `AdapterAssumption`: the type of an adapter goes with its LUID, and
the system lists no address of an adapter twice. `UdpAssumption`: there is no port 0,
a port has one program at a time, which may change, or none (`Unbound`), no program's
socket has the server's own port, no datagram exceeds 65536
bytes with its header, and a program is not the process that is assumed when none is
found. `ItemsAssumption`: this program and the system's process are two, and none of the
programs; a filter matches some of these; an address, a port or a protocol that is
given is not `Unset`; there are ports for as many servers as the list has rows.
`PortsAssumption`: no program has the port from which the local proxy connects,
`http`, the peers' port, is not a client's, and `NoProcess` is nobody. Mutual
exclusion is no assumption: the actions of a lock are those of a mutex, and the
invariant follows from where the code takes it.

*Only model-checked*: all liveness (`StreamArrives`, `Reclaimed`, `ReadyIsAdopted`,
`StopReturns` of both servers, `EndsOrHangs`, `RefusedAreRemoved`), which is
beyond the prover, and the runs that find a violation.

## Findings

Each has a run that violates the property, and its trace is the schedule.

1. `stop_filter` may hang (`queued_packet_filter.h:416`, notify without mutex).
2. With an odd number of at least 64 handles the completion of the last one is
   taken for another connection (`tcp_proxy_server.h:635`).
3. A restart deadlocks with a packet being matched (`socks_local_router.h:927`).
4. A restart on its way when `stop()` runs starts the filter again
   (`socks_local_router.h:941`).
5. A proxy as the window makes it matches every process, this program too; its
   replies are then looked at as a client's and pass untranslated, and the
   redirected connection gets no answer (`socks_local_router.h:175`).

## What the code does not ensure

The properties are stated so that they say exactly what holds in the presence of
the following. Where a behaviour is outside the models, this is said.

*Connections.*

- *Sends and removal.* With both branches of `process_send_buffer_complete`
  calling `close_client(false, false)` (line 565 serves the local side), and with
  the sweep clearing lengths, a send to the remote side may be outstanding when
  the object is erased. `RemovedWhenUnused` therefore covers both receives always
  and the send to the local side as long as the sweep has not been there.
- *Half-closed connections.* The end of either side's stream closes both sockets;
  bytes still in the buffers are lost. Hence "prefix" in `RelayedInOrder` and
  "or closed" in `StreamArrives`.
- *Double close.* When the second receive of `start_data_relay` fails, line 827
  closes the local socket and `close_client` closes it again. When `connect()`
  fails at once, both sockets are closed but the entry stays in the array and the
  cleanup, or a relay made from it, closes them again; `ClosedOnce` leaves out
  these connections.
- *Answers in pieces.* The number of bytes received is not looked at
  (`socks5_tcp_proxy_socket.h:157`): of an answer that comes in two parts the first
  is judged with stale bytes, and the rest is taken for the next answer or for
  data. `RelayOnlyIfGranted` is about answers that arrive whole.
- *Sweep beside a completion.* `is_ready_for_removal` tests the age of a connection
  (`tcp_proxy_socket.h:270`), not whether a completion of it waits in the port or a
  handler is at work. If one did for all of the 120 s, the lengths that the sweep
  clears would make the object erasable under it. The models assume that none does
  (`Quiet`).
- *Stop with connections.* `stop()` of the TCP server erases all of `proxy_sockets_`
  (`tcp_proxy_server.h:218`), which destroys objects whose operations are outstanding
  while the pool threads still run: their handlers may use a freed object, and the
  kernel its buffers. `TcpProxySocket` has no `stop()`: `Remove` is the clear thread's
  erasure alone, and `RemovedWhenUnused` is about that.
- *Outside the model*: the one `OVERLAPPED` of the negotiation's sends is reused
  while a send may be outstanding; an answer with a bound address other than IPv4
  is longer than the buffer, and its rest is relayed to the client.

*TCP server.*

- *Sockets left open.* A connection accepted while `stop()` runs, or pushed after
  the connect thread's cleanup, is closed by nobody; `OneOwner` is about a
  running server that was started once.
- *Restarted server.* `stop()` closes the listening socket and `start()` does not
  make a new one. The accept thread also ends at the first failing `WSAAccept`.

*Packet filter.*

- *Filter that cannot start.* After a failing `init_filter` the state remains
  `starting`, and neither `start_filter` nor `stop_filter` will act again, in a
  restart neither. `FollowsNetwork` is about filters that could start (`CanFollow`).
- *Bursts.* The read thread takes one block per driver event. What exceeds it
  stays in the driver until another packet comes; `NoLostWakeup` is about blocks
  that were read.

*Router lifecycle.*

- *Missed change.* A change of adapter between `update_network_configuration` and
  the registration for notifications in `start()` goes unnoticed until the next
  one, and so does a change back that comes after a restart has queried the adapter
  (line 815) and before it assigns `default_adapter_`: the callback, which compares
  without `lock_` (line 910), still finds the first adapter there and returns, and the
  filter then settles on the wrong interface. `FollowsNetwork` excludes both
  (`missed`, until the next restart queries), and a network without any connection,
  on whose notification the filter stays where it is.
- *Result of stop.* `stop()` of an active router returns `is_active_`, which it has
  just cleared, though its doc promises true (`socks_local_router.h:301`, 342); its
  caller `Socksifier.cpp:47` takes true for a failure. The result is not modelled,
  nor is that of `Socksifier::start`, which the window ignores.
- *Unlocked read.* The callback reads `default_adapter_` without `lock_` while a
  restart may assign it. The model lets such a comparison come out either way; that
  reading a half-written value may crash the program is outside it.
- *Stray restart.* Besides starting a stopped router's filter, it may leave the
  next `start()` with a running filter that `start_filter` then does not touch;
  `FollowsNetwork` is therefore about the first start.
- *Hangs.* A restart, `start()` or `stop()` may hang in one of three states:
  `Deadlocked` (finding 3); `DeadlockedBehindWriter`, where readers of a
  `shared_mutex` queue behind a waiting writer, as they may: `stop()` holds `lock_`
  shared (line 312) and joins the process thread, which waits for the lock behind a
  restart thread, which waits for `stop()`; and `WakeupLost` (finding 1, inside a
  restart or a stop, or another call that waits for the lock they hold).
  `EndsOrHangs` shows that nothing else keeps them from ending. `RestartEnds` leaves
  out the lost notification, so that its run shows the deadlock.

*TCP redirection.*

- *Port reused at once.* The mapper is written by the packet thread and consumed
  by the accept thread (`socks_local_router.h:447`). If the system gave a client's
  port to a new connection while the old one waited to be accepted, the old one
  would get the new destination. The model assumes that it does not.
- *Repeated SYN.* One whose key is still in the table is not translated
  (`tcp_local_redirect.h:124`), but its mapper entry is written; it goes to the real
  peer. So does the first SYN of a session whose last attempt was given up less
  than 5 minutes ago: `ListedAreRedirected` leaves this out.
- *End of a connection.* A FIN or RST in either direction erases the entry, so that
  what the other side still sends is not translated.
- *Stale processes.* A session keeps the process it had when the system's table
  was copied. If the system does not answer, the table is cleared and the session
  is stored as the system's process, so that a filter that matches that one decides
  (`assumed` in `Open`). The properties speak of the owners since the
  last copy (`owned`, `lapsed`). A session in `SYN_RCVD` is assumed to be listed.
- *Traffic with the SOCKS servers' endpoints.* The static filters pass whatever goes to
  the address and port of a SOCKS server of the list. A program's own connection to
  that endpoint is not redirected, which is meant. But so pass the replies of a local
  proxy to a client whose port happens to be the SOCKS server's, when the peer is on
  the SOCKS server's host: the client gets no answer. `InUseIsTranslated` leaves
  these sessions out (`Endpoints`).
- *Two proxies that list a program.* The order of a hash table decides; if the one
  that comes first serves UDP alone, TCP is not redirected.
- *Static filters.* Those of direction "in" compare the destination with the SOCKS
  server, which is the source there, so they match nothing; the driver redirects
  what comes in, and the callback passes it.
- *Outside the model*: matching without regard to case lowers the one operand only;
  an invalid regular expression throws in the packet thread; the filter dialog
  does not show the pattern an item has, and replaces its filters by one.

*UDP.*

- *Black hole.* A socket is removed after 5 idle minutes, but its client's endpoint
  stays for 15 and is refreshed by each datagram (`socks5_udp_local_redirect.h:129`):
  the mapper is not asked to serve it again and its datagrams are dropped. The same
  follows an association that failed. `SteadyAreServed` is about clients that do not
  pause for 5 minutes, when nothing has failed.
- *Stale owner of a port.* The system's table is copied only when a port is not in
  the copy (`process_lookup.h:181`, `socks_local_router.h:115`). A port that a listed
  program has closed and another one has bound is therefore still redirected, or
  one that a listed program has taken over is not, until some other port makes the
  table be copied; and the other program's datagrams may go through the association
  made for the first. `ListedExactly` speaks of the programs that have had the port
  since the last copy (`owned`), and of ports for which the system answered
  (`lapsed`): the process assumed otherwise stays in the table.
- *Removed objects.* A socket is erased while completions that refer to it may wait
  in the port, and aborted ones will come; their handlers use the freed object
  (`socks5_udp_proxy_socket.h:214`). `RemovedNotUsed` says when this cannot be: as
  long as nothing has failed, `stop()` has not been called and the client has not
  paused.
  Outside the model: the kernel writes the `OVERLAPPED` inside the freed object.
- *Lost contexts.* A send that fails leaves its context and its packet to nobody.
- *Failed operations.* A receive of an association's socket that was posted and
  completes with a failure is neither posted again nor does it mark the socket for
  removal (`socks5_local_udp_proxy_server.h:147`): answers stop, while the client's
  datagrams keep the socket alive. Only a refused post marks it, and
  `RefusedAreRemoved` is about those.
- *Blocking calls.* While a thread asks for an association, it holds the lock that
  all UDP, the clear thread and `stop()` need, for as long as the SOCKS server takes.
- *Stop.* `stop()` empties `proxy_sockets_` without the lock; an association made
  after that adds a socket that stays. A completion that comes after `stop()` is
  dropped with its context.
- *Fragments* register an endpoint, and pass untranslated.
- *Outside the model*: the header is inserted even if the frame has no room for it;
  a failed re-post of the server's receive ends receiving for good; failing to
  create the UDP socket leaks the TCP connection of the association; answers of the
  SOCKS server that are short leave variables of the association as they were
  initialised, or not initialised; a datagram of length zero is taken for a failure;
  the SOCKS server's ending of an association is not noticed; a failed `start()`
  leaves `end_server_` cleared; handlers of the completion port are never removed;
  packets smaller than the largest are deleted as if they were of its type.

## Not modelled

The components marked so in `PROJECT.json`: addresses (value types), and logging,
capture and handle wrappers (output and thin wrappers of system calls). Of the
modelled ones: failures to allocate memory or create events, threads and listening
sockets; IPv6 (the program instantiates IPv4 only, so the walk over extension
headers is never run); checksums and offsets in frames; `inject_to_local`,
`inject_to_remote`, `stop_socks5_proxy`, `set_pool_size_limit`, `reset` and the
operations of the static filters other than `add_filter_back`, none of which is
called; the queries of the network configuration that the program does not use;
widgets and log output.
