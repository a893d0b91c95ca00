--------------------------- MODULE TcpProxyServer ---------------------------
(***************************************************************************)
(* tcp_proxy_server: the accept thread takes redirected connections from   *)
(* the listening socket and starts to connect each to the SOCKS server;    *)
(* the connect thread waits for those connections and turns each into a    *)
(* tcp_proxy_socket; the clear thread erases the closed ones; stop() ends  *)
(* the three threads.                                                      *)
(*                                                                         *)
(* Entry 0 of sock_array_events_ is the event that wakes the connect       *)
(* thread; pending is the rest, so that entry i is pending[i].  Entry 0 is *)
(* assumed to be created, and its socket to be associated with the         *)
(* completion port: otherwise start() gives up without a trace.  The relay *)
(* of a connection is TcpProxySocket; here it closes both sockets once.    *)
(*                                                                         *)
(* Each use of lock_ in the source is inside one action.                   *)
(***************************************************************************)
EXTENDS WaitObjects, Sequences, SequencesExt

CONSTANTS Conns,       \* connections that clients make
          NoConn,
          MaxStarts    \* bounds the calls of start()

ASSUME ServerAssumption == NoConn \notin Conns /\ MaxStarts \in Nat

VARIABLES
    endServer,  \* end_server_
    listener,   \* server_socket_ is "open" or "closed"
    pending,    \* sock_array_events_ without entry 0: connections being made
    wake,       \* event 0 is signalled
    dialing,    \* connections whose connect() is under way or over
    ready,      \* connections whose event is signalled
    sockets,    \* proxy_sockets_
    live,       \* members of proxy_sockets_ that have not closed their sockets
    local,      \* state of the handle of each accepted socket
    remote,     \* state of the handle of each socket to the SOCKS server
    accept,     \* the accept thread: where it is and the connection in hand
    dialer,     \* the connect thread: where it is, wait_events, event_index
    clear,      \* the clear thread
    control,    \* where the caller of stop() is
    starts      \* calls of start()

handles == <<local, remote>>
relays == <<sockets, live>>
vars == <<endServer, listener, pending, wake, dialing, ready, relays, handles,
          accept, dialer, clear, control, starts>>

Init == /\ endServer = TRUE /\ listener = "open"
        /\ pending = <<>> /\ wake = FALSE
        /\ dialing = {} /\ ready = {} /\ sockets = {} /\ live = {}
        /\ local = [c \in Conns |-> "none"]
        /\ remote = [c \in Conns |-> "none"]
        /\ accept = [pc |-> "none", conn |-> NoConn]
        /\ dialer = [pc |-> "none", events |-> <<>>, index |-> 0]
        /\ clear = "none" /\ control = "idle" /\ starts = 0

\* closesocket: the handle of a socket already closed may be another's by now.
Close(handle) == IF handle = "open" THEN "closed" ELSE "again"

CloseAll(h, S) == [c \in Conns |-> IF c \in S THEN Close(h[c]) ELSE h[c]]
-----------------------------------------------------------------------------
\* The accept thread: start_proxy_thread and connect_to_remote_host.

AcceptAt(label) == accept' = [accept EXCEPT !.pc = label]

AcceptTop ==
    /\ accept.pc = "top"
    /\ AcceptAt(IF endServer THEN "exited" ELSE "accept")
    /\ UNCHANGED <<endServer, listener, pending, wake, dialing, ready, relays,
                   handles, dialer, clear, control, starts>>

\* WSAAccept fails: the socket has been closed, or the client has gone.
AcceptFails ==
    /\ accept.pc = "accept"
    /\ AcceptAt("exited")
    /\ UNCHANGED <<endServer, listener, pending, wake, dialing, ready, relays,
                   handles, dialer, clear, control, starts>>

AcceptClient(c) ==
    /\ accept.pc = "accept" /\ listener = "open"
    /\ local[c] = "none"
    /\ local' = [local EXCEPT ![c] = "open"]
    /\ accept' = [pc |-> "accepted", conn |-> c]
    /\ UNCHANGED <<endServer, listener, pending, wake, dialing, ready, relays,
                   remote, dialer, clear, control, starts>>

\* end_server_ is read again; the socket just accepted is then not closed.
AcceptChecked ==
    /\ accept.pc = "accepted"
    /\ AcceptAt(IF endServer THEN "exited" ELSE "query")
    /\ UNCHANGED <<endServer, listener, pending, wake, dialing, ready, relays,
                   handles, dialer, clear, control, starts>>
-----------------------------------------------------------------------------
\* Slips in the definitions below that the properties must catch.

QueryFails_KeepsSocket ==
    /\ accept.pc = "query"
    /\ AcceptAt("top")
    /\ UNCHANGED <<endServer, listener, pending, wake, dialing, ready, relays,
                   handles, dialer, clear, control, starts>>

Push_AtFront ==
    /\ accept.pc = "query"
    /\ pending' = <<accept.conn>> \o pending
    /\ remote' = [remote EXCEPT ![accept.conn] = "open"]
    /\ wake' = TRUE
    /\ AcceptAt("connect")
    /\ UNCHANGED <<endServer, listener, dialing, ready, relays, local, dialer,
                   clear, control, starts>>

Push_NoWake ==
    /\ accept.pc = "query"
    /\ pending' = Append(pending, accept.conn)
    /\ remote' = [remote EXCEPT ![accept.conn] = "open"]
    /\ AcceptAt("connect")
    /\ UNCHANGED <<endServer, listener, wake, dialing, ready, relays, local,
                   dialer, clear, control, starts>>

Adopt_KeepsEntry ==
    /\ dialer.pc = "adopt"
    /\ LET c == pending[dialer.index]
       IN sockets' = sockets \cup {c} /\ live' = live \cup {c}
    /\ dialer' = [dialer EXCEPT !.pc = "top"]
    /\ UNCHANGED <<endServer, listener, pending, wake, dialing, ready, handles,
                   accept, clear, control, starts>>

StopWake_NoEvent ==
    /\ control = "wake"
    /\ control' = "join"
    /\ UNCHANGED <<endServer, listener, pending, wake, dialing, ready, relays,
                   handles, accept, dialer, clear, starts>>
-----------------------------------------------------------------------------
\* No mapping for the client's port, or no socket: the accepted one is closed.
QueryFails ==
    /\ accept.pc = "query"
    /\ local' = CloseAll(local, {accept.conn})
    /\ AcceptAt("top")
    /\ UNCHANGED <<endServer, listener, pending, wake, dialing, ready, relays,
                   remote, dialer, clear, control, starts>>

\* The new connection is appended, with its event, before connect is called.
Push ==
    /\ accept.pc = "query"
    /\ pending' = Append(pending, accept.conn)
    /\ remote' = [remote EXCEPT ![accept.conn] = "open"]
    /\ wake' = TRUE
    /\ AcceptAt("connect")
    /\ UNCHANGED <<endServer, listener, dialing, ready, relays, local, dialer,
                   clear, control, starts>>

\* connect: under way (WSAEWOULDBLOCK), or failed at once.  In that case both
\* sockets are closed but the entry stays in the array.
Dial ==
    LET c == accept.conn IN
    /\ accept.pc = "connect"
    /\ \/ /\ remote[c] = "open"
          /\ dialing' = dialing \cup {c}
          /\ UNCHANGED handles
       \/ /\ remote' = CloseAll(remote, {c})
          /\ local' = CloseAll(local, {c})
          /\ UNCHANGED dialing
    /\ AcceptAt("top")
    /\ UNCHANGED <<endServer, listener, pending, wake, ready, relays, dialer,
                   clear, control, starts>>

\* The connection is made, or refused: its FD_CONNECT event is signalled.
Connected(c) ==
    /\ c \in dialing \ ready
    /\ remote[c] = "open"
    /\ ready' = ready \cup {c}
    /\ UNCHANGED <<endServer, listener, pending, wake, dialing, relays,
                   handles, accept, dialer, clear, control, starts>>
-----------------------------------------------------------------------------
\* The connect thread: connect_to_remote_host_thread.

DialerAt(label) == dialer' = [dialer EXCEPT !.pc = label]

\* A slip in DialerTop that the properties must catch.
DialerTop_KeepsCopy ==
    /\ dialer.pc = "top"
    /\ dialer' = IF endServer THEN [dialer EXCEPT !.pc = "cleanup"]
                 ELSE [dialer EXCEPT !.pc = "wait", !.events = @ \o pending]
    /\ UNCHANGED <<endServer, listener, pending, wake, dialing, ready, relays,
                   handles, accept, clear, control, starts>>

\* The events are copied under a shared lock.
DialerTop ==
    /\ dialer.pc = "top"
    /\ dialer' = IF endServer THEN [dialer EXCEPT !.pc = "cleanup"]
                 ELSE [dialer EXCEPT !.pc = "wait", !.events = pending]
    /\ UNCHANGED <<endServer, listener, pending, wake, dialing, ready, relays,
                   handles, accept, clear, control, starts>>

SignalledEvents ==
    {i \in 0 .. Len(dialer.events) :
        IF i = 0 THEN wake ELSE dialer.events[i] \in ready}

WaitReturns ==
    /\ dialer.pc = "wait"
    /\ \E i \in WaitResults(SignalledEvents, 1 + Len(dialer.events)) :
          /\ i # Timeout
          /\ dialer' = [dialer EXCEPT !.pc = "woken", !.index = i]
    /\ UNCHANGED <<endServer, listener, pending, wake, dialing, ready, relays,
                   handles, accept, clear, control, starts>>

DialerWoken ==
    /\ dialer.pc = "woken"
    /\ DialerAt(IF endServer THEN "cleanup"
                ELSE IF dialer.index = 0 THEN "reset" ELSE "adopt")
    /\ UNCHANGED <<endServer, listener, pending, wake, dialing, ready, relays,
                   handles, accept, clear, control, starts>>

ResetWake ==
    /\ dialer.pc = "reset"
    /\ wake' = FALSE
    /\ DialerAt("top")
    /\ UNCHANGED <<endServer, listener, pending, dialing, ready, relays,
                   handles, accept, clear, control, starts>>

\* The entry at the index found becomes a tcp_proxy_socket and is erased.
Adopt ==
    /\ dialer.pc = "adopt"
    /\ LET c == pending[dialer.index]
       IN sockets' = sockets \cup {c} /\ live' = live \cup {c}
    /\ pending' = RemoveAt(pending, dialer.index)
    /\ DialerAt("top")
    /\ UNCHANGED <<endServer, listener, wake, dialing, ready, handles, accept,
                   clear, control, starts>>

\* "cleanup on exit": the sockets of all entries are closed.
Cleanup ==
    /\ dialer.pc = "cleanup"
    /\ local' = CloseAll(local, ToSet(pending))
    /\ remote' = CloseAll(remote, ToSet(pending))
    /\ DialerAt("exited")
    /\ UNCHANGED <<endServer, listener, pending, wake, dialing, ready, relays,
                   accept, clear, control, starts>>
-----------------------------------------------------------------------------
\* The relay of a connection ends and closes both its sockets.
RelayCloses(c) ==
    /\ c \in live
    /\ live' = live \ {c}
    /\ local' = CloseAll(local, {c})
    /\ remote' = CloseAll(remote, {c})
    /\ UNCHANGED <<endServer, listener, pending, wake, dialing, ready, sockets,
                   accept, dialer, clear, control, starts>>

\* clear_thread erases the sockets that are ready for removal.
ClearThread ==
    /\ clear = "top"
    /\ \/ /\ ~endServer
          /\ \E S \in SUBSET (sockets \ live) : sockets' = sockets \ S
          /\ UNCHANGED clear
       \/ /\ endServer
          /\ clear' = "exited"
          /\ UNCHANGED sockets
    /\ UNCHANGED <<endServer, listener, pending, wake, dialing, ready, live,
                   handles, accept, dialer, control, starts>>
-----------------------------------------------------------------------------
\* start() and stop().

Start ==
    /\ control = "idle" /\ endServer
    /\ starts < MaxStarts
    /\ starts' = starts + 1
    /\ endServer' = FALSE
    /\ wake' = FALSE
    /\ AcceptAt("top")
    /\ DialerAt("top")
    /\ clear' = "top"
    /\ UNCHANGED <<listener, pending, dialing, ready, relays, handles, control>>

Stop ==
    /\ control = "idle" /\ ~endServer
    /\ endServer' = TRUE
    /\ control' = "listener"
    /\ UNCHANGED <<listener, pending, wake, dialing, ready, relays, handles,
                   accept, dialer, clear, starts>>

StopListener ==
    /\ control = "listener"
    /\ listener' = "closed"
    /\ control' = "wake"
    /\ UNCHANGED <<endServer, pending, wake, dialing, ready, relays, handles,
                   accept, dialer, clear, starts>>

StopWake ==
    /\ control = "wake"
    /\ wake' = TRUE
    /\ control' = "join"
    /\ UNCHANGED <<endServer, listener, pending, dialing, ready, relays,
                   handles, accept, dialer, clear, starts>>

\* The three joins return, and the destructors close the relays' sockets.
StopJoined ==
    /\ control = "join"
    /\ accept.pc = "exited" /\ dialer.pc = "exited" /\ clear = "exited"
    /\ pending' = <<>>
    /\ sockets' = {} /\ live' = {}
    /\ local' = CloseAll(local, live)
    /\ remote' = CloseAll(remote, live)
    /\ control' = "idle"
    /\ UNCHANGED <<endServer, listener, wake, dialing, ready, accept, dialer,
                   clear, starts>>
-----------------------------------------------------------------------------
AcceptThread == AcceptTop \/ AcceptChecked \/ QueryFails \/ Push \/ Dial
ConnectThread == DialerTop \/ WaitReturns \/ DialerWoken \/ ResetWake
                     \/ Adopt \/ Cleanup
Stopping == StopListener \/ StopWake \/ StopJoined

Next == \/ AcceptThread \/ AcceptFails
        \/ \E c \in Conns : AcceptClient(c) \/ Connected(c) \/ RelayCloses(c)
        \/ ConnectThread \/ ClearThread
        \/ Start \/ Stop \/ Stopping

Spec == Init /\ [][Next]_vars

\* Every thread that can run is scheduled; WSAAccept returns once its socket
\* has been closed.  Clients and the network are not obliged to do anything.
Fairness == /\ WF_vars(AcceptThread)
            /\ WF_vars(listener = "closed" /\ AcceptFails)
            /\ WF_vars(ConnectThread)
            /\ WF_vars(ClearThread)
            /\ WF_vars(Stopping)
FairSpec == Spec /\ Fairness
-----------------------------------------------------------------------------
HandleStates == {"none", "open", "closed", "again"}

\* Types; the index the connect thread found lies within the array.
TypeOK ==
    /\ endServer \in BOOLEAN /\ wake \in BOOLEAN
    /\ listener \in {"open", "closed"}
    /\ pending \in Seq(Conns) /\ dialer.events \in Seq(Conns)
    /\ dialing \subseteq Conns /\ ready \subseteq dialing
    /\ sockets \subseteq Conns /\ live \subseteq sockets
    /\ local \in [Conns -> HandleStates] /\ remote \in [Conns -> HandleStates]
    /\ accept.pc \in {"none", "top", "accept", "accepted", "query", "connect",
                      "exited"}
    /\ accept.conn \in Conns \cup {NoConn}
    /\ dialer.pc \in {"none", "top", "wait", "woken", "reset", "adopt",
                      "cleanup", "exited"}
    /\ dialer.pc \in {"woken", "adopt"} => dialer.index \in 0 .. Len(pending)
    /\ clear \in {"none", "top", "exited"}
    /\ control \in {"idle", "listener", "wake", "join"}
    /\ starts \in 0 .. MaxStarts

\* The connection that becomes a relay is the one whose event was signalled,
\* although its index was found in a copy of the array and the array may have
\* grown since.  wait_for_multiple_objects: "adjust result if a handle is
\* signaled".
RightConnection == [][\A c \in live' \ live : c \in ready]_vars

\* While the server runs, every open socket has an owner that will close it,
\* and a relay's sockets are never closed by another thread.  After a second
\* start() the sockets that stop() had left open are still there.
SocketsOwned ==
    ~endServer /\ starts = 1 =>
        \A c \in Conns :
            /\ local[c] = "open" =>
                  \/ accept.conn = c /\ accept.pc \in {"accepted", "query"}
                  \/ c \in ToSet(pending) \cup live
            /\ remote[c] = "open" => c \in ToSet(pending) \cup live
            /\ c \in live => local[c] = "open" /\ remote[c] = "open"

\* No socket is closed twice, through stop() too, unless its connect() failed
\* at once: see README, "What the code does not ensure".
ClosedOnce == \A c \in dialing : local[c] # "again" /\ remote[c] # "again"

\* Together: every socket has one owner, who closes it once.
OneOwner == SocketsOwned /\ ClosedOnce

\* A connection that was made is handed to a relay, or the server stops: the
\* connect thread does not sleep over an entry that was added after its copy.
ReadyIsAdopted ==
    \A c \in Conns :
        (c \in ready /\ c \in ToSet(pending)) ~> c \notin ToSet(pending)

\* stop() returns, wherever the three threads are when it is called.
StopReturns == control # "idle" ~> control = "idle"
=============================================================================
