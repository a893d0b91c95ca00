------------------------------ MODULE UdpProxy ------------------------------
(***************************************************************************)
(* The router's way with UDP: the packet callback with process lookup and  *)
(* redirection table, the port mapper, and socks5_local_udp_proxy_server   *)
(* with its socks5_udp_proxy_sockets.  All I/O of the server is handled by *)
(* the threads of one completion port, under one lock; one thread sweeps   *)
(* the sockets.  stop() is that of the router.                             *)
(*                                                                         *)
(* Assumed of the system: a time of minutes is long compared with all that *)
(* is under way (see Tick).  Assumed of the SOCKS server: it answers, or   *)
(* closes the connection on which it is asked for an association.          *)
(***************************************************************************)
EXTENDS PacketPool, UdpRedirect, ProcessLookup, FiniteSets, TLC

CONSTANTS
    Ports,                 \* of the clients
    Programs, Listed,      \* those with UDP sockets; those a filter matches
    Bindings,              \* which ports are bound, to what address, by whom
    Workers,               \* threads of the completion port
    Credentials,           \* "none", "valid" or "invalid" (one is too long)
    Lengths,               \* of the clients' datagrams
    AnswerLengths,         \* of the SOCKS server's, with the header
    MaxSockets, MaxSends,  \* bounds: objects of each kind at a time
    MaxDatagrams, MaxAnswers, MaxFailures, MaxTicks, MaxRebinds

Home == "home"             \* this machine's address
Self == "self"             \* the process of this program
System == "system"         \* the default process
ProxyPort == 9             \* of the server's socket, which is bound to all addresses
Unbound == << >>           \* no program has the port

\* The system knows no port 0, gives a port once, and has no datagram that
\* exceeds an IP packet.  A program is neither null nor the default process.
ASSUME UdpAssumption ==
    /\ Listed \subseteq Programs /\ Workers \in Nat \ {0}
    /\ {0, ProxyPort} \cap Ports = {}
    /\ Bindings \subseteq
           [Ports -> ({AnyAddress, Home} \X Programs) \cup {Unbound}]
    /\ {NoProcess, System} \cap Programs = {} /\ NoProcess \notin {Self, System}
    /\ MaxSockets \in Nat /\ MaxSends \in Nat
    /\ Lengths \subseteq 0 .. LargestSize - HeaderLength
    /\ AnswerLengths \subseteq 0 .. LargestSize

SocketExpired == 2         \* 5 minutes, in the units of UdpRedirect

VARIABLES
    bound,      \* the address and program of each client port
    cached,     \* process_lookup's table of UDP endpoints
    owned,      \* ghost: programs that had a port since the table was copied
    lapsed,     \* ghost: ports looked up when the system did not answer
    endpoints,  \* of socks5_udp_local_redirect
    mapper,     \* udp_mapper_
    net,        \* datagrams on the way to the server's socket
    server,     \* server_io_context_ with its buffer and recv_from_sa_
    table,      \* proxy_sockets_: client port -> socket
    sock,       \* the socks5_udp_proxy_socket objects
    ctx,        \* contexts of outstanding sends
    pool,       \* packet_pool_
    hands,      \* completions taken by threads that wait for lock_
    asking,     \* the port for which a thread asks for an association
    gone,       \* threads that have ended
    wakes,      \* completions posted to end a thread
    clear,      \* clear_thread
    phase,      \* of stop()
    count,      \* of datagrams, answers, failures, ticks, rebinds
    gap, harm   \* ghosts, see below

lookupVars == <<bound, cached, owned, lapsed>>
udpVars == <<lookupVars, endpoints, mapper>>
ioVars == <<server, table, sock, ctx, pool>>
threadVars == <<hands, asking, gone, wakes, clear, phase>>
ghosts == <<gap, harm>>
vars == <<udpVars, net, ioVars, threadVars, count, ghosts>>

\* gap: how long a client has paused at most since its endpoint was new.
\* harm: what happened to a port, though nothing had failed, stop() had not
\* been called and the client had not paused for 5 minutes; and datagrams that
\* were redirected or not, against what was then true of owned and lapsed.
-----------------------------------------------------------------------------
NoAsk == 0
NoDatagram == [port |-> 0, length |-> 0, fragment |-> FALSE, new |-> FALSE]
NoSocket == [st |-> "unused", client |-> 0, to |-> 0, flagged |-> FALSE,
             age |-> 0, recv |-> "off", length |-> 0]
NoSend == [st |-> "free", sock |-> 0, remote |-> FALSE, packet |-> NoPacket,
           d |-> NoDatagram]

Holders(binding, port) == IF binding[port] = Unbound THEN {} ELSE {binding[port][2]}

Init ==
    /\ bound \in Bindings
    /\ cached = EmptyTable /\ endpoints = << >> /\ mapper = {}
    /\ owned = [p \in Ports |-> Holders(bound, p)] /\ lapsed = {}
    /\ net = << >>
    /\ server = [recv |-> "posted", d |-> NoDatagram]
    /\ table = << >>
    /\ sock = [i \in 1 .. MaxSockets |-> NoSocket]
    /\ ctx = [c \in 1 .. MaxSends |-> NoSend]
    /\ pool = EmptyPool
    /\ hands = {} /\ asking = NoAsk /\ gone = 0 /\ wakes = 0
    /\ clear = "checking" /\ phase = "running"
    /\ count = [datagrams |-> 0, answers |-> 0, failures |-> 0, ticks |-> 0,
                rebinds |-> 0]
    /\ gap = [p \in Ports |-> 0]
    /\ harm = {}

EndServer == phase # "running"
Active == phase \notin {"stopping", "stopped"}
Idle == Workers - gone - Cardinality(hands) - (IF asking = NoAsk THEN 0 ELSE 1)

\* Bound: a behaviour has failures or ticks, not both.
MayFail == count.failures < MaxFailures /\ count.ticks = 0
Failing(ok) == ok \/ MayFail
Count(field, n) == count' = [count EXCEPT ![field] = @ + n]
CountFailure(ok) == Count("failures", IF ok THEN 0 ELSE 1)

Harm(kind, port, condition) ==
    IF condition /\ count.failures = 0 /\ phase = "running"
    THEN {<<kind, port>>} ELSE {}
Steady(port) == gap[port] < SocketExpired
Wrong(kind, port, condition) == IF condition THEN {<<kind, port>>} ELSE {}
-----------------------------------------------------------------------------
\* The packet callback.

\* The system's table of UDP endpoints.
Program(port) == bound[port][2]
BoundPorts == {p \in Ports : bound[p] # Unbound}
SystemTable == [e \in {<<bound[p][1], p>> : p \in BoundPorts} \cup
                       {<<AnyAddress, ProxyPort>>} |->
                  IF e[2] = ProxyPort THEN Self ELSE Program(e[2])]

Source(port) == Resolve("udp", cached, <<Home, port>>, SystemTable, TRUE, System)
SourceFails(port) == Resolve("udp", cached, <<Home, port>>, SystemTable, FALSE, System)
Copied(port) == LookupUdp(cached, <<Home, port>>) = NoProcess

\* Where the packet of a port comes from; the system may not answer when asked.
Look(port, ok) ==
    /\ ok \/ (Copied(port) /\ MayFail)
    /\ cached' = (IF ok THEN Source(port) ELSE SourceFails(port)).table
    /\ owned' = IF Copied(port) THEN [p \in Ports |-> Holders(bound, p)] ELSE owned
    /\ lapsed' = IF Copied(port) THEN IF ok THEN {} ELSE {port} ELSE lapsed

\* A program binds a port or closes its socket.  The packets that it has sent
\* have been looked at by then.  Bound: MaxRebinds.
Rebind(port) ==
    /\ count.rebinds < MaxRebinds /\ Count("rebinds", 1)
    /\ bound' \in Bindings
    /\ bound'[port] # bound[port]
    /\ \A p \in Ports \ {port} : bound'[p] = bound[p]
    /\ owned' = [owned EXCEPT ![port] = @ \cup Holders(bound', port)]
    /\ UNCHANGED <<cached, lapsed, endpoints, mapper, net, ioVars, threadVars,
                   ghosts>>

\* A client sends a datagram: is_new_endpoint, the mapper and the redirection.
\* Bounds: MaxDatagrams of them and a late one, only the first is a fragment.
Send(port, length, fragment) ==
    /\ phase = "running" /\ port \in BoundPorts
    /\ count.datagrams < MaxDatagrams + (IF count.ticks > 0 THEN 1 ELSE 0)
    /\ fragment => count.datagrams = 0
    /\ \E ok \in BOOLEAN :
       LET listed == (IF ok THEN Source(port) ELSE SourceFails(port)).process
                        \in Listed
           new    == listed /\ IsNewEndpoint(endpoints, port)
           known  == IF new THEN Refresh(endpoints, port) ELSE endpoints
           d      == [port |-> port, length |-> length, fragment |-> fragment,
                      new |-> new]
           r      == ClientToServer(known, d)
       IN /\ Look(port, ok)
          /\ count' = [count EXCEPT !.datagrams = @ + 1,
                          !.failures = IF ok THEN @ ELSE @ + 1]
          /\ mapper' = IF new THEN mapper \cup {port} ELSE mapper
          /\ IF listed
             THEN /\ endpoints' = r.endpoints
                  /\ net' = IF r.done THEN Append(net, r.datagram) ELSE net
             ELSE UNCHANGED <<endpoints, net>>
          /\ gap' = [gap EXCEPT ![port] =
                IF new \/ (net' # net /\ Steady(port)) THEN 0 ELSE @]
          /\ harm' = harm
                \cup Wrong("unlisted", port, listed /\ owned'[port] \cap Listed = {})
                \cup Wrong("missed", port, /\ owned'[port] \subseteq Listed
                                           /\ port \notin lapsed'
                                           /\ ~fragment /\ net' = net)
    /\ UNCHANGED <<bound, ioVars, threadVars>>
-----------------------------------------------------------------------------
\* The system completes operations.

FreeContexts == {c \in DOMAIN ctx : ctx[c].st = "free"}

\* Bound: a datagram arrives only when its send can have a context.
CanRelay == Cardinality(FreeContexts) >
    Cardinality({i \in DOMAIN sock : sock[i].recv = "done"})
        + (IF server.recv \in {"done", "taken"} THEN 1 ELSE 0)

Receive(ok) ==
    /\ server.recv = "posted" /\ phase # "stopped"
    /\ IF ok THEN /\ net # << >> /\ CanRelay
                  /\ server' = [recv |-> "done", d |-> Head(net)]
                  /\ net' = Tail(net)
             ELSE /\ MayFail
                  /\ server' = [server EXCEPT !.recv = "failed"]
                  /\ UNCHANGED net
    /\ CountFailure(ok)
    /\ UNCHANGED <<udpVars, table, sock, ctx, pool, threadVars, ghosts>>

\* The SOCKS server answers a client, or its machine refuses the datagram.
Answer(i, length, ok) ==
    /\ sock[i].st = "live" /\ sock[i].recv = "posted"
    /\ count.answers < MaxAnswers /\ Failing(ok) /\ CanRelay
    /\ sock' = [sock EXCEPT ![i].recv = IF ok THEN "done" ELSE "failed",
                            ![i].length = IF ok THEN length ELSE @]
    /\ count' = [count EXCEPT !.answers = @ + 1,
                              !.failures = IF ok THEN @ ELSE @ + 1]
    /\ UNCHANGED <<udpVars, net, server, table, ctx, pool, threadVars, ghosts>>

\* A send completes.  One to a client leaves through the packet callback.
Sent(c, ok) ==
    /\ ctx[c].st = "sending" /\ Failing(ok)
    /\ ctx' = [ctx EXCEPT ![c].st = IF ok THEN "done" ELSE "failed"]
    /\ CountFailure(ok)
    /\ IF ok /\ ~ctx[c].remote
       THEN /\ Look(ProxyPort, TRUE)
            /\ endpoints' = ServerToClient(endpoints, ctx[c].d).endpoints
       ELSE UNCHANGED <<cached, owned, lapsed, endpoints>>
    /\ UNCHANGED <<bound, mapper, net, server, table, sock, pool, threadVars,
                   gap, harm>>
-----------------------------------------------------------------------------
\* The handler of socks5_local_udp_proxy_server::start.

ServerOp == <<"server", 0>>
RecvOp(i) == <<"recv", i>>
SendOp(c) == <<"send", c>>
Ops == {ServerOp} \cup {RecvOp(i) : i \in DOMAIN sock}
                  \cup {SendOp(c) : c \in DOMAIN ctx}
State(op) == CASE op[1] = "server" -> server.recv
               [] op[1] = "recv" -> sock[op[2]].recv
               [] op[1] = "send" -> ctx[op[2]].st
Completed == {op \in Ops : State(op) \in {"done", "failed"}} \ hands

\* The completion is dropped: nothing is posted again, nothing released.
Forget(op) ==
    /\ server' = IF op = ServerOp THEN [server EXCEPT !.recv = "off"] ELSE server
    /\ sock' = IF op[1] = "recv" THEN [sock EXCEPT ![op[2]].recv = "off"] ELSE sock
    /\ ctx' = IF op[1] = "send" THEN [ctx EXCEPT ![op[2]] = NoSend] ELSE ctx
    /\ UNCHANGED <<table, pool>>

\* start_thread takes a completion; the handler returns if end_server_ is set.
Dequeue ==
    /\ Idle > 0
    /\ \/ \E op \in Completed :
            IF Active /\ ~EndServer
            THEN /\ hands' = hands \cup {op}
                 /\ UNCHANGED <<ioVars, gone, wakes>>
            ELSE /\ Forget(op)
                 /\ gone' = IF Active THEN gone ELSE gone + 1
                 /\ UNCHANGED <<hands, wakes>>
       \/ /\ wakes > 0
          /\ wakes' = wakes - 1 /\ gone' = gone + 1
          /\ UNCHANGED <<ioVars, hands>>
    /\ UNCHANGED <<udpVars, net, asking, clear, phase, count, ghosts>>

\* After a handler the thread goes on, or ends if the pool has been stopped.
Returns == gone' = IF Active THEN gone ELSE gone + 1

FreeSockets == {i \in DOMAIN sock :
                  /\ sock[i].st # "live" /\ sock[i].recv = "off"
                  /\ \A c \in DOMAIN ctx : ctx[c].sock # i}

\* allocate a packet for the datagram and send it with a context of its own.
\* If the send fails at once, context and packet are lost and the socket is
\* to be removed (close_client).
Relay(socks, i, remote, d, ok) ==
    LET a == Allocate(pool, d.length)
        c == CHOOSE n \in FreeContexts : TRUE
    IN /\ pool' = a.pool
       /\ ctx' = IF ok THEN [ctx EXCEPT ![c] =
                        [st |-> "sending", sock |-> i, remote |-> remote,
                         packet |-> a.packet, d |-> d]]
                       ELSE ctx
       /\ sock' = [socks EXCEPT ![i].flagged = @ \/ ~ok]

\* A slip in Touch: only answers count as use of the socket.
Touch_AnswersOnly(i, fromClient) ==
    [sock EXCEPT ![i].age = IF fromClient THEN @ ELSE 0]

\* process_receive_buffer_complete sets timestamp_.
Touch(i, fromClient) == [sock EXCEPT ![i].age = 0]

\* WSARecvFrom on the server's socket is posted again.  Bound: the system
\* does not refuse that; if it did, the server would receive nothing more.
Repost == server' = [server EXCEPT !.recv = "posted"]

\* A slip in Refuse: no receive is posted after a failure.
Refuse_Returns == server' = [server EXCEPT !.recv = "off"]

\* The datagram is dropped, and the next one received.
Refuse == Repost

\* A slip in Ask: the next datagram is received while the thread is asking.
Ask_Reposts == Repost
Ask == server' = [server EXCEPT !.recv = "taken"]

Lost(d) == Harm("lost", d.port, d.new \/ Steady(d.port))

\* A datagram of a client: connect_to_remote_host finds its socket, asks the
\* mapper and then the SOCKS server, or gives up.
HandleServer ==
    LET d == server.d IN
    \/ /\ server.recv = "failed"
       /\ Repost
       /\ Returns
       /\ UNCHANGED <<mapper, table, sock, ctx, pool, asking, harm, count>>
    \/ /\ server.recv = "done" /\ d.port \in DOMAIN table
       /\ \E ok \in BOOLEAN :
            /\ Failing(ok) /\ CountFailure(ok)
            /\ LET i == table[d.port]
               IN Relay(Touch(i, TRUE), i, TRUE, d, ok)
       /\ Repost
       /\ Returns
       /\ UNCHANGED <<mapper, table, asking, harm>>
    \/ /\ server.recv = "done" /\ d.port \notin DOMAIN table
       /\ d.port \in mapper
       /\ FreeSockets # {}
       /\ mapper' = mapper \ {d.port}
       /\ asking' = d.port
       /\ Ask
       /\ UNCHANGED <<table, sock, ctx, pool, gone, harm, count>>
    \/ /\ server.recv = "done" /\ d.port \notin DOMAIN table \cup mapper
       /\ harm' = harm \cup Lost(d)
       /\ Refuse
       /\ Returns
       /\ UNCHANGED <<mapper, table, sock, ctx, pool, asking, count>>

\* What may come of asking: whether the server can be reached, the method it
\* chooses ("other" stands for "none": the code only knows 2 and 255), its
\* answer to the password and to the request, and whether the system gives and
\* connects a UDP socket.
Replies == [reached : BOOLEAN, method : {"none", "other", "password", "refused"},
            accepted : BOOLEAN, granted : BOOLEAN, socket : BOOLEAN]

\* associate_to_socks5_proxy: blocking calls, one after the other.
Authenticates(r) ==
    \/ r.method \in {"none", "other"}
    \/ r.method = "password" /\ Credentials = "valid" /\ r.accepted

Grants(r) == r.reached /\ Authenticates(r) /\ r.granted /\ r.socket

\* The SOCKS server has answered: the socket is created with the address of
\* the last datagram, its receive posted and the datagram sent.
Associate ==
    /\ asking # NoAsk /\ \E r \in Replies : Grants(r)
    /\ \E posted, ok \in BOOLEAN :
         LET i   == CHOOSE n \in FreeSockets : TRUE
             new == [NoSocket EXCEPT !.st = "live", !.client = asking,
                        !.to = server.d.port, !.flagged = ~posted,
                        !.recv = IF posted THEN "posted" ELSE "off"]
         IN /\ Failing(posted /\ ok) /\ CountFailure(posted /\ ok)
            /\ table' = [p \in DOMAIN table \cup {asking} |->
                            IF p = asking THEN i ELSE table[p]]
            /\ Relay([sock EXCEPT ![i] = new], i, TRUE, server.d, ok)
    /\ Repost
    /\ asking' = NoAsk
    /\ Returns
    /\ UNCHANGED <<udpVars, net, hands, wakes, clear, phase, ghosts>>

\* It refuses, or cannot be reached.
Deny ==
    /\ asking # NoAsk /\ \E r \in Replies : ~Grants(r)
    /\ MayFail /\ CountFailure(FALSE)
    /\ Refuse
    /\ asking' = NoAsk
    /\ Returns
    /\ UNCHANGED <<udpVars, net, table, sock, ctx, pool, hands, wakes, clear,
                   phase, ghosts>>

\* An answer of the SOCKS server.  A receive that failed is not posted again.
HandleRecv(i) ==
    /\ IF sock[i].recv = "done" /\ sock[i].st = "live"
       THEN \E ok, posted \in BOOLEAN :
            LET d == [NoDatagram EXCEPT !.port = sock[i].to,
                                        !.length = sock[i].length]
            IN /\ Failing(posted /\ ok) /\ CountFailure(posted /\ ok)
               /\ Relay([Touch(i, FALSE) EXCEPT
                            ![i].recv = IF posted THEN "posted" ELSE "off",
                            ![i].flagged = @ \/ ~posted],
                        i, FALSE, d, ok)
       ELSE /\ sock' = [sock EXCEPT ![i].recv = "off"]
            /\ UNCHANGED <<ctx, pool, count>>
    /\ harm' = harm \cup
          Harm("touched", sock[i].client, /\ sock[i].recv = "done"
                                          /\ sock[i].st # "live"
                                          /\ Steady(sock[i].client))
    /\ Returns
    /\ UNCHANGED <<mapper, server, table, asking>>

\* process_send_buffer_complete releases the context; after a failure, nothing
\* does.
HandleSend(c) ==
    LET i == ctx[c].sock IN
    /\ pool' = IF ctx[c].st = "done" /\ sock[i].st = "live"
               THEN Free(pool, ctx[c].packet) ELSE pool
    /\ ctx' = [ctx EXCEPT ![c] = NoSend]
    /\ harm' = harm \cup
          Harm("touched", sock[i].client, /\ ctx[c].st = "done"
                                          /\ sock[i].st # "live"
                                          /\ Steady(sock[i].client))
    /\ Returns
    /\ UNCHANGED <<mapper, server, table, sock, asking, count>>

Handle(op) ==
    /\ op \in hands /\ asking = NoAsk
    /\ hands' = hands \ {op}
    /\ CASE op[1] = "server" -> HandleServer
         [] op[1] = "recv" -> HandleRecv(op[2])
         [] op[1] = "send" -> HandleSend(op[2])
    /\ UNCHANGED <<lookupVars, endpoints, net, wakes, clear, phase, gap>>
-----------------------------------------------------------------------------
\* Slips in IsReadyForRemoval: sockets are kept longer, or when an operation
\* has failed.
IsReadyForRemoval_Late(s) == s.flagged \/ s.age > SocketExpired
IsReadyForRemoval_Age(s) == s.age >= SocketExpired

\* is_ready_for_removal
IsReadyForRemoval(s) == s.flagged \/ s.age >= SocketExpired

\* The destructor closes the sockets of the object, which aborts what is
\* outstanding on them; sends to the client are the server's.
Erase(S) ==
    /\ table' = [p \in {p \in DOMAIN table : table[p] \notin S} |-> table[p]]
    /\ sock' = [i \in DOMAIN sock |->
          IF i \notin S THEN sock[i]
          ELSE [sock[i] EXCEPT !.st = "erased", !.flagged = FALSE, !.age = 0,
                   !.recv = IF @ = "posted" THEN "failed" ELSE @]]
    /\ ctx' = [c \in DOMAIN ctx |->
          IF ctx[c].sock \in S /\ ctx[c].remote /\ ctx[c].st = "sending"
          THEN [ctx[c] EXCEPT !.st = "failed"] ELSE ctx[c]]

ClearWake ==
    /\ clear = "sleeping"
    /\ clear' = IF EndServer THEN "gone" ELSE "checking"
    /\ UNCHANGED <<udpVars, net, ioVars, hands, asking, gone, wakes, phase,
                   count, ghosts>>

\* clear_thread, once in a second, under lock_.
ClearThread ==
    /\ clear = "checking" /\ asking = NoAsk
    /\ Erase({i \in DOMAIN sock : sock[i].st = "live"
                                  /\ IsReadyForRemoval(sock[i])})
    /\ clear' = "sleeping"
    /\ UNCHANGED <<udpVars, net, server, pool, hands, asking, gone, wakes,
                   phase, count, ghosts>>

\* Two and a half minutes pass.  Bound: whatever was under way is done, and
\* clear_thread has run.
Tick ==
    /\ count.ticks < MaxTicks /\ count.failures = 0 /\ phase = "running"
    /\ DOMAIN endpoints # {}
    /\ net = << >> /\ hands = {} /\ asking = NoAsk /\ Completed = {}
    /\ \A c \in DOMAIN ctx : ctx[c].st = "free"
    /\ \A i \in DOMAIN sock : sock[i].st = "live" => ~IsReadyForRemoval(sock[i])
    /\ clear = "sleeping"
    /\ sock' = [i \in DOMAIN sock |->
          IF sock[i].st = "live" THEN [sock[i] EXCEPT !.age = @ + 1] ELSE sock[i]]
    /\ endpoints' = AgeEndpoints(endpoints)
    /\ gap' = [p \in Ports |-> IF p \in DOMAIN endpoints /\ gap[p] < SocketExpired
                               THEN gap[p] + 1 ELSE gap[p]]
    /\ Count("ticks", 1)
    /\ UNCHANGED <<lookupVars, mapper, net, server, table, ctx, pool,
                   threadVars, harm>>

CleanupThread ==
    /\ endpoints' = CleanupEndpoints(endpoints)
    /\ endpoints' # endpoints
    /\ UNCHANGED <<lookupVars, mapper, net, ioVars, threadVars, count, ghosts>>
-----------------------------------------------------------------------------
\* stop() of the server and of the completion port.

\* Bound: stop() is not called after minutes have passed.
StopCall == /\ phase = "running" /\ count.ticks = 0
            /\ phase' = "joining"
            /\ UNCHANGED <<ioVars, wakes>>

\* clear_thread has been joined; proxy_sockets_ is emptied without lock_.
StopClear ==
    /\ phase = "joining" /\ clear = "gone"
    /\ Erase({i \in DOMAIN sock : sock[i].st = "live"})
    /\ phase' = "cleared"
    /\ UNCHANGED <<server, pool, wakes>>

\* A slip in StopPool: one thread is not woken.
StopPool_Short ==
    /\ phase = "cleared"
    /\ phase' = "stopping" /\ wakes' = Workers - 1
    /\ UNCHANGED ioVars

\* stop_thread_pool
StopPool ==
    /\ phase = "cleared"
    /\ phase' = "stopping" /\ wakes' = Workers
    /\ UNCHANGED ioVars

StopDone == /\ phase = "stopping" /\ gone = Workers
            /\ phase' = "stopped"
            /\ UNCHANGED <<ioVars, wakes>>

StopStep == /\ StopClear \/ StopPool \/ StopDone
            /\ UNCHANGED <<udpVars, net, hands, asking, gone, clear, count, ghosts>>

Stop == /\ StopCall
        /\ UNCHANGED <<udpVars, net, hands, asking, gone, clear, count, ghosts>>
-----------------------------------------------------------------------------
Next ==
    \/ \E p \in Ports, n \in Lengths, f \in BOOLEAN : Send(p, n, f)
    \/ \E p \in Ports : Rebind(p)
    \/ \E ok \in BOOLEAN : \/ Receive(ok)
                           \/ \E c \in DOMAIN ctx : Sent(c, ok)
                           \/ \E i \in DOMAIN sock, n \in AnswerLengths :
                                Answer(i, n, ok)
    \/ Dequeue \/ Associate \/ Deny
    \/ \E op \in Ops : Handle(op)
    \/ ClearWake \/ ClearThread \/ Tick \/ CleanupThread
    \/ Stop \/ StopStep

Fairness ==
    /\ WF_vars(\E c \in DOMAIN ctx : Sent(c, TRUE))
    /\ WF_vars(Dequeue) /\ WF_vars(\E op \in Ops : Handle(op))
    /\ WF_vars(Associate \/ Deny)
    /\ WF_vars(ClearWake) /\ WF_vars(ClearThread)
    /\ WF_vars(StopStep)

Spec == Init /\ [][Next]_vars /\ Fairness
-----------------------------------------------------------------------------
TypeOK ==
    /\ bound \in Bindings
    /\ mapper \subseteq Ports /\ DOMAIN endpoints \subseteq Ports
    /\ \A p \in DOMAIN endpoints : endpoints[p] \in 0 .. EndpointExpired
    /\ server.recv \in {"posted", "done", "failed", "taken", "off"}
    /\ \A p \in DOMAIN table : sock[table[p]].st = "live"
                               /\ sock[table[p]].client = p
    /\ \A i \in DOMAIN sock :
         /\ sock[i].recv \in {"posted", "done", "failed", "off"}
         /\ sock[i].age \in 0 .. SocketExpired
         /\ sock[i].st = "live" => i \in {table[p] : p \in DOMAIN table}
    /\ \A op \in hands : State(op) \in {"done", "failed"}
    /\ gone \in 0 .. Workers /\ Idle \in 0 .. Workers
    /\ clear \in {"checking", "sleeping", "gone"}

\* What a client sends goes out through the association made for it, and what
\* arrives there goes to it, though all clients share one receive buffer.
RightClient ==
    /\ \A c \in DOMAIN ctx : ctx[c].st # "free" =>
           ctx[c].d.port = sock[ctx[c].sock].client
    /\ \A i \in DOMAIN sock : sock[i].st = "live" =>
           sock[i].to = sock[i].client

\* Until it is stopped the server always has a receive posted, or a completed
\* one that some thread will handle; it never falls deaf.
ServerListens ==
    phase = "running" =>
        \/ server.recv \in {"posted", "done", "failed"}
        \/ server.recv = "taken" /\ asking # NoAsk

\* No datagram of a client that is redirected is dropped, as long as nothing
\* has failed and the client does not pause for 5 minutes; the first one after
\* its endpoint was forgotten is never.
SteadyAreServed == \A p \in Ports : <<"lost", p>> \notin harm

\* The completions of a socket that has been removed are not handled, as long
\* as nothing has failed and its client did not pause for 5 minutes.
RemovedNotUsed == \A p \in Ports : <<"touched", p>> \notin harm

\* Together: to a client that does not pause, its association is always there.
SteadyClients == SteadyAreServed /\ RemovedNotUsed

\* A datagram is redirected only if its port has been a listed program's since
\* the system's table was copied, though the table is copied only for a port that
\* is not in it, and has the address of a port as it was bound.
OnlyListed == \A p \in Ports : <<"unlisted", p>> \notin harm

\* A listed program's datagrams are redirected, whatever address it is bound to,
\* unless they are fragments, or its port was another's when the table was copied
\* or later, or the system did not answer then.
ListedAreRedirected == \A p \in Ports : <<"missed", p>> \notin harm

\* Together: listed programs are redirected, and no others, as far as the copy of
\* the system's table tells; see README, "What the code does not ensure".
ListedExactly == OnlyListed /\ ListedAreRedirected

\* Every packet has room for its datagram, and the pool keeps no more packets
\* than its limit, each with those of its size.
PacketsFit ==
    /\ PoolOK(pool)
    /\ \A c \in DOMAIN ctx : ctx[c].st # "free" =>
           ctx[c].packet >= ctx[c].d.length

\* A socket on which the system refused to post a receive or a send is removed
\* (close_client), unless stop() is called.  This does not cover an operation that
\* was posted and completed with a failure: the code neither flags that socket nor
\* posts the operation again.
RefusedSockets == {i \in DOMAIN sock : sock[i].st = "live" /\ sock[i].flagged}
RefusedAreRemoved ==
    RefusedSockets # {} ~> (RefusedSockets = {} \/ phase # "running")

\* stop() returns, provided that the SOCKS server answers.
StopReturns == (phase = "joining") ~> (phase = "stopped")
=============================================================================
