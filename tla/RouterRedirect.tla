--------------------------- MODULE RouterRedirect ---------------------------
(***************************************************************************)
(* The router's way with TCP: static filters in the driver, the packet     *)
(* callback of socks_local_router with process lookup, proxy filters, port *)
(* mapper and redirection table, and the accept side of the local proxy    *)
(* servers, which asks the mapper where a redirected connection was going. *)
(* Its configuration comes from the list of ProxyItems.                    *)
(*                                                                         *)
(* Programs open and close connections; every packet that leaves this      *)
(* machine passes the callback, the client's as well as the local proxy's. *)
(* A session is a peer and a client port, one program uses it at a time.   *)
(* Assumed of the system: a port is given to another connection only when  *)
(* the local proxy has accepted and closed the one before.                 *)
(***************************************************************************)
EXTENDS ProxyItems, ProcessLookup, TcpRedirect

CONSTANTS Peers, Ports,               \* addresses and client ports
          MaxFailures, MaxTicks       \* bounds

Me == "me"
PeerPort == "http"
DialPort == "dial"        \* the local proxy's port towards the SOCKS server
Sessions == Peers \X Ports

\* No program gets the port from which the local proxy connects.
ASSUME PortsAssumption == /\ Ports \cap {PeerPort, DialPort} = {}
                          /\ NoProcess \notin Processes \cup {Self, System}

VARIABLES
    cached,     \* process_lookup's table of TCP sessions
    mapper,     \* tcp_mapper_: client port -> peer
    table,      \* redirected_connections_
    order,      \* in which proxy_to_filters is traversed
    conn,       \* the programs' connections
    served,     \* the local proxy's side of each session
    queue,      \* sessions waiting to be accepted
    owned,      \* ghost: owners of a session since the table was copied
    failures, ticks

netVars == <<cached, mapper, table, conn, served, queue, owned, failures, ticks>>
vars == <<uiVars, order, netVars>>

\* peer: who the client talks to; lapsed: it has been idle for 5 minutes, or
\* its session was first looked up as another program's; faults: what went
\* wrong, see the properties.
Closed == [st |-> "closed", owner |-> NoProcess, peer |-> "none", age |-> 0,
           lapsed |-> FALSE, faults |-> {}]
Unserved == [st |-> "none", port |-> Unset, target |-> Unset]

Init == /\ UiInit
        /\ cached = EmptyTable /\ mapper = EmptyTable /\ table = EmptyTable
        /\ order = << >>
        /\ conn = [s \in Sessions |-> Closed]
        /\ served = [s \in Sessions |-> Unserved]
        /\ queue = << >>
        /\ owned = [s \in Sessions |-> {}]
        /\ failures = 0 /\ ticks = 0
-----------------------------------------------------------------------------
\* The packet callback.

\* get_proxy_port_tcp: the first proxy with a filter that matches decides, also
\* when it has no TCP server.
ProxyPortTcp(process) ==
    LET hits == {k \in DOMAIN order :
                    \E f \in Range(router.filters[order[k]]) : process \in f}
    IN IF hits = {} THEN Unset
       ELSE router.servers[order[First(hits)]].tcp

IsTcpProxyPort(port) ==
    \E i \in DOMAIN router.servers : router.servers[i].tcp = port

\* The system's table of sessions and their processes.
Key(p) == <<p.sport, p.dst, p.dport>>
ClientKey(s) == <<s[2], s[1], PeerPort>>
ServedKey(s) == <<served[s].port, s[1], s[2]>>
SystemTable ==
    LET live == {s \in Sessions : conn[s].st # "closed"}
        held == {s \in Sessions : served[s].st # "none"}
    IN [k \in {ClientKey(s) : s \in live} \cup {ServedKey(s) : s \in held} |->
           IF \E s \in live : k = ClientKey(s)
           THEN conn[CHOOSE s \in live : k = ClientKey(s)].owner ELSE Self]

\* Slips in MapPort: the entry of an earlier connection stays, or the source is
\* stored in place of the destination.
MapPort_Keeps(m, p) == IF p.sport \in DOMAIN m THEN m
                       ELSE Put(m, p.sport, <<p.dst, p.dport>>)

MapPort_Source(m, p) == Put(m, p.sport, <<p.src, p.dport>>)

MapPort(m, p) == Put(m, p.sport, <<p.dst, p.dport>>)

\* A slip in Callback: replies are recognised by the wrong port.
Callback_ByDestination(p, sys, ok) ==
    LET l    == Resolve("tcp", cached, Key(p), sys, ok, System)
        port == ProxyPortTcp(l.process)
        r    == IF port # Unset THEN ClientToServer(table, p, port)
                ELSE IF IsTcpProxyPort(p.dport) THEN ServerToClient(table, p)
                ELSE Result(FALSE, table, p)
    IN [revert |-> r.done, packet |-> r.packet, table |-> r.table,
        cached |-> l.table,
        mapper |-> IF port # Unset /\ p.flag = "syn" THEN MapPort(mapper, p)
                                                     ELSE mapper]

\* The TCP branch of the callback on an outgoing packet; sys is the session
\* table the system gives when asked, ok whether it answers.
Callback(p, sys, ok) ==
    LET l    == Resolve("tcp", cached, Key(p), sys, ok, System)
        port == ProxyPortTcp(l.process)
        r    == IF port # Unset THEN ClientToServer(table, p, port)
                ELSE IF IsTcpProxyPort(p.sport) THEN ServerToClient(table, p)
                ELSE Result(FALSE, table, p)
    IN [revert |-> r.done, packet |-> r.packet, table |-> r.table,
        cached |-> l.table,
        mapper |-> IF port # Unset /\ p.flag = "syn" THEN MapPort(mapper, p)
                                                     ELSE mapper]

\* The driver passes the packet by a static filter, or asks the callback.
Outgoing(p, sys, ok) ==
    IF started /\ Verdict(router.statics, "out", p) = "redirect"
    THEN Callback(p, sys, ok)
    ELSE [revert |-> FALSE, packet |-> p, table |-> table, cached |-> cached,
          mapper |-> mapper]

\* What may become of packet p: the system fails at most MaxFailures times, and
\* only when it is asked.  Bound: a behaviour has failures or ticks, not both.
Outcomes(p, sys) ==
    {Outgoing(p, sys, TRUE)} \cup
    IF failures < MaxFailures /\ ticks = 0 THEN {Outgoing(p, sys, FALSE)} ELSE {}

Fails(r, p, sys) == r # Outgoing(p, sys, TRUE)

Commit(r, p, sys) ==
    /\ cached' = r.cached /\ table' = r.table /\ mapper' = r.mapper
    /\ failures' = IF Fails(r, p, sys) THEN failures + 1 ELSE failures
    /\ UNCHANGED <<uiVars, order, ticks>>

\* The callback has taken a new copy of the system's table.
Copied(r, p) == r.cached # cached /\ Key(p) \notin DOMAIN cached
-----------------------------------------------------------------------------
Packet(src, sport, dst, dport, flag) ==
    [protocol |-> "tcp", src |-> src, sport |-> sport, dst |-> dst,
     dport |-> dport, flag |-> flag]

FromClient(s, flag) == Packet(Me, s[2], s[1], PeerPort, flag)
FromServed(s, flag) == Packet(Me, served[s].port, s[1], s[2], flag)

\* What the local proxy, and the client, must get to see of each other.
ToServed(s, port, flag) == Packet(s[1], s[2], Me, port, flag)
ToClient(s, flag) == Packet(s[1], PeerPort, Me, s[2], flag)

ServersListing(x) ==
    {i \in DOMAIN router.servers : \E f \in Range(router.filters[i]) : x \in f}

\* Some filter matches this program, or the process assumed when none is found.
SelfShadowed == ServersListing(Self) \cup ServersListing(System) # {}

\* The SOCKS servers; what is sent to them passes the driver.
Endpoints == {<<shown[row].input.ip, shown[row].input.port>> : row \in DOMAIN shown}

\* x's connections to other peers should be redirected: every proxy that lists
\* it has TCP.
Redirects(x, peer) ==
    /\ ServersListing(x) # {}
    /\ \A i \in ServersListing(x) : router.servers[i].tcp # Unset
    /\ <<peer, PeerPort>> \notin Endpoints

Fault(name, condition) == IF condition THEN {name} ELSE {}
Alive(s) == [conn[s] EXCEPT !.age = 0]

\* A program opens a connection.
Open(s, x) ==
    /\ conn[s].st = "closed"
    /\ \A t \in Sessions : t[2] = s[2] =>
           conn[t].st = "closed" /\ served[t].st = "none"
    /\ LET p   == FromClient(s, "syn")
           sys == [k \in DOMAIN SystemTable \cup {ClientKey(s)} |->
                      IF k = ClientKey(s) THEN x ELSE SystemTable[k]]
       IN \E r \in Outcomes(p, sys) :
            LET owners == IF Copied(r, p) THEN {x} ELSE owned[s] \cup {x}
                assumed == IF failures' > 0 THEN {System} ELSE {}
                faults ==
                    Fault("unlisted", r.revert /\ \A y \in owners \cup assumed :
                        \A i \in ServersListing(y) :
                            router.servers[i].tcp # r.packet.dport)
                    \cup Fault("missed", /\ ~r.revert /\ Redirects(x, s[1])
                                         /\ owners = {x} /\ failures' = 0
                                         /\ s \notin DOMAIN table)
            IN /\ Commit(r, p, sys)
               /\ owned' = [t \in Sessions |->
                    IF t = s THEN IF ClientKey(s) \in DOMAIN r.cached
                                  THEN owners ELSE {}
                    ELSE IF Copied(r, p)
                         THEN {conn[t].owner} \ {NoProcess} ELSE owned[t]]
               /\ conn' = [conn EXCEPT ![s] =
                    [Closed EXCEPT !.st = IF r.revert THEN "syn" ELSE "open",
                        !.owner = x, !.faults = faults,
                        !.lapsed = owners # {x},
                        !.peer = IF r.revert THEN "proxy" ELSE "direct"]]
               /\ IF r.revert
                  THEN /\ served' = [served EXCEPT ![s] =
                            [Unserved EXCEPT !.st = "waiting",
                                             !.port = r.packet.dport]]
                       /\ queue' = Append(queue, s)
                  ELSE UNCHANGED <<served, queue>>

\* A packet other than the first; the owners only change with a new copy.
Passes(r, p, sys) ==
    /\ Commit(r, p, sys)
    /\ owned' = IF Copied(r, p)
                THEN [t \in Sessions |-> {conn[t].owner} \ {NoProcess}]
                ELSE owned

\* The client repeats its SYN.  If that is not redirected, the peer answers.
Repeat(s) ==
    /\ conn[s].st = "syn"
    /\ LET p == FromClient(s, "syn") IN
       \E r \in Outcomes(p, SystemTable) :
         /\ Passes(r, p, SystemTable)
         /\ conn' = [conn EXCEPT ![s] = IF r.revert THEN Alive(s)
               ELSE [Alive(s) EXCEPT !.st = "open", !.peer = "direct"]]
    /\ UNCHANGED <<served, queue>>

\* The client sends data, or closes.
ClientSends(s, flag) ==
    /\ conn[s].st = "open"
    /\ LET p == FromClient(s, flag) IN
       \E r \in Outcomes(p, SystemTable) :
         /\ Passes(r, p, SystemTable)
         /\ conn' = [conn EXCEPT ![s] =
               IF flag = "fin" THEN Closed
               ELSE [Alive(s) EXCEPT !.faults = @ \cup Fault("wrong",
                       /\ served[s].st = "relaying" /\ ~conn[s].lapsed
                       /\ ~(r.revert /\ r.packet =
                              ToServed(s, served[s].port, flag)))]]
    /\ UNCHANGED <<served, queue>>

\* The client gives up connecting: no packet is sent.
GiveUp(s) ==
    /\ conn[s].st = "syn"
    /\ conn' = [conn EXCEPT ![s] = Closed]
    /\ UNCHANGED <<uiVars, order, cached, mapper, table, served, queue, owned,
                   failures, ticks>>

\* The system answers the client's SYN for the local proxy's socket, or the
\* proxy relays data or closes its side.
ServedSends(s, flag) ==
    /\ IF flag = "synack" THEN conn[s].st = "syn" /\ served[s].st # "none"
       ELSE /\ served[s].st = "relaying"
            /\ flag = "data" => conn[s].st = "open"
    /\ LET p == FromServed(s, flag)
           live == conn[s].st # "closed" /\ conn[s].peer = "proxy" IN
       \E r \in Outcomes(p, SystemTable) :
         LET good == r.revert /\ r.packet = ToClient(s, flag)
             next == CASE flag = "synack" /\ good -> "open"
                       [] flag = "fin" /\ good -> "closed"
                       [] OTHER -> conn[s].st
         IN /\ Passes(r, p, SystemTable)
            /\ conn' = [conn EXCEPT ![s] =
                  IF ~live THEN @ ELSE IF next = "closed" THEN Closed
                  ELSE [Alive(s) EXCEPT !.st = next,
                          !.faults = @ \cup Fault("wrong",
                              ~good /\ ~conn[s].lapsed)]]
    /\ served' = IF flag = "fin" THEN [served EXCEPT ![s] = Unserved]
                                 ELSE served
    /\ UNCHANGED queue

\* The accept thread takes the next connection; the query function of
\* add_socks5_proxy looks its port up and erases the entry.
Accept ==
    /\ queue # << >>
    /\ LET s == Head(queue) IN
       /\ queue' = Tail(queue)
       /\ IF s[2] \in DOMAIN mapper
          THEN /\ served' = [served EXCEPT ![s].st = "dialing",
                                           ![s].target = mapper[s[2]]]
               /\ mapper' = Drop(mapper, s[2])
          ELSE /\ served' = [served EXCEPT ![s] = Unserved]
               /\ UNCHANGED mapper
    /\ UNCHANGED <<uiVars, order, cached, table, conn, owned, failures, ticks>>

\* The local proxy connects to the SOCKS server.
Dial(s) ==
    /\ served[s].st = "dialing"
    /\ \E i \in DOMAIN router.servers :
       LET p == Packet(Me, DialPort, router.servers[i].ip,
                       router.servers[i].port, "syn")
       IN /\ router.servers[i].tcp = served[s].port
          /\ \E r \in Outcomes(p, SystemTable) : Passes(r, p, SystemTable)
    /\ served' = [served EXCEPT ![s].st = "relaying"]
    /\ UNCHANGED <<conn, queue>>
-----------------------------------------------------------------------------
\* Two and a half minutes pass without a packet; the cleanup thread.
Tick ==
    /\ ticks < MaxTicks /\ failures = 0
    /\ ticks' = ticks + 1
    /\ table # EmptyTable
    /\ table' = Age(table)
    /\ conn' = [s \in Sessions |->
          IF conn[s].peer # "proxy" THEN conn[s]
          ELSE [conn[s] EXCEPT !.age = IF @ < Expired THEN @ + 1 ELSE @,
                               !.lapsed = @ \/ conn[s].age + 1 >= Expired]]
    /\ UNCHANGED <<uiVars, order, cached, mapper, served, queue, owned,
                   failures>>

CleanupThread ==
    /\ table' = Cleanup(table)
    /\ table' # table
    /\ UNCHANGED <<uiVars, order, cached, mapper, conn, served, queue, owned,
                   failures, ticks>>

\* Bounds: the list is edited before programs connect; while the router runs,
\* one row is deleted at most.
EditList == /\ Edit
            /\ IF started THEN Len(list') < Len(list)
               ELSE \A s \in Sessions : conn[s].st = "closed"
            /\ UNCHANGED <<order, netVars>>

Start ==
    /\ StartButton
    /\ \E o \in SetToSeqs(DOMAIN router'.servers) : order' = o
    /\ UNCHANGED netVars

\* The router and its servers are destroyed; process_lookup is not.  The
\* clients of the local proxies lose their connections.
Stop ==
    /\ StopButton
    /\ order' = << >>
    /\ mapper' = EmptyTable /\ table' = EmptyTable
    /\ served' = [s \in Sessions |-> Unserved] /\ queue' = << >>
    /\ conn' = [s \in Sessions |-> IF conn[s].peer = "proxy" THEN Closed
                                                             ELSE conn[s]]
    /\ UNCHANGED <<cached, owned, failures, ticks>>

Next == \/ EditList \/ Start \/ Stop
        \/ \E s \in Sessions :
             \/ \E x \in Processes : Open(s, x)
             \/ Repeat(s) \/ GiveUp(s) \/ Dial(s)
             \/ \E flag \in {"data", "fin"} : ClientSends(s, flag)
             \/ \E flag \in {"synack", "data", "fin"} : ServedSends(s, flag)
        \/ Accept \/ Tick \/ CleanupThread

Spec == Init /\ [][Next]_vars
-----------------------------------------------------------------------------
\* The SOCKS server is asked for the peer the client dialled: an entry of the
\* port mapper is never one that an earlier connection left behind.
RightDestination ==
    \A s \in Sessions : served[s].st \in {"dialing", "relaying"}
                            => served[s].target = <<s[1], PeerPort>>

\* A redirected connection is translated in both directions as long as it is in
\* use, provided that the filters leave this program alone, that the system has
\* given its session table whenever asked and that the session was not known as
\* another program's.  Replies to a client whose port is a SOCKS server's, on the
\* peer's host, pass the driver.
InUseIsTranslated ==
    ~SelfShadowed /\ failures = 0 =>
        \A s \in Sessions \ Endpoints :
            conn[s].peer = "proxy" => "wrong" \notin conn[s].faults

\* The same without the first proviso: socks_local_router is "used to set up a
\* local router to handle SOCKS traffic", redirecting TCP.
AlwaysTranslated ==
    failures = 0 => \A s \in Sessions : "wrong" \notin conn[s].faults

\* The local proxy's own connection to a SOCKS server is not redirected to the
\* local proxy, even if a filter matches this program.
NoLoop == \A i \in DOMAIN router.servers : \A k \in DOMAIN table :
              <<k[1], table[k].port>> # <<router.servers[i].ip,
                                          router.servers[i].port>>

\* A connection is redirected only to a proxy that lists a process that has had
\* the session since the system's table was last copied, or the process that is
\* assumed when the system does not answer.
OnlyListed == \A s \in Sessions : "unlisted" \notin conn[s].faults

\* A listed program's connection is redirected, unless a proxy without TCP
\* lists it too, its session was another program's before, the system did not
\* answer, the peer is a SOCKS server of the list, or the entry of an attempt
\* that was given up is in the table.
ListedAreRedirected == \A s \in Sessions : "missed" \notin conn[s].faults

\* Together: listed programs are redirected, and no others.
ListedExactly == OnlyListed /\ ListedAreRedirected
=============================================================================
