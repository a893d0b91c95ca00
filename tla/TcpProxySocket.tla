--------------------------- MODULE TcpProxySocket ---------------------------
(***************************************************************************)
(* The life of one relayed connection: the two sockets, the four overlapped*)
(* operations of the two directions, and the sweep that destroys the       *)
(* tcp_proxy_socket object.  RelayRing shows that each direction moves its *)
(* bytes correctly; here the bytes are left out and what matters is which  *)
(* operations are outstanding, because the object may be destroyed only    *)
(* when the kernel and the completion port hold no reference to it.  The   *)
(* source decides that from the four WSABUF lengths and the two sockets.   *)
(*                                                                         *)
(* Handlers and close_client run under lock_ and are single actions;       *)
(* start_data_relay holds no lock and is two.                              *)
(*                                                                         *)
(* The negotiation with the SOCKS server is reduced to its outcomes;       *)
(* Socks5Handshake gives it in full and implements this specification.     *)
(***************************************************************************)
EXTENDS RelayBuffer

Sides == {"local", "remote"}
Other(x) == IF x = "local" THEN "remote" ELSE "local"

\* An overlapped operation: receiving from, or sending to, one side.
Ops == {"recv", "send"} \X Sides

VARIABLES
    conn,      \* the object: sockets, connection_status_ and the WSABUFs
    io,        \* what the kernel and the completion port do with each operation
    phase,     \* how far the connection has come
    swept,     \* the sweep closed the sockets and moved timestamp_ by 10 s
    removed    \* the object has been erased from proxy_sockets_

vars == <<conn, io, phase, swept, removed>>

Idle    == [st |-> "idle", n |-> 0]      \* not outstanding
Pending == [st |-> "pending", n |-> 0]   \* posted, the kernel works on it
Failed  == [st |-> "failed", n |-> 0]    \* completion queued: error or 0 bytes
Done(k) == [st |-> "done", n |-> k]      \* completion queued: k bytes

\* Associated with the completion port and waiting for the SOCKS server: the
\* receive buffers already have the whole length.
Init ==
    /\ conn = [sock   |-> [x \in Sides |-> "open"],
               status |-> "established",
               recv   |-> [x \in Sides |-> [buf |-> 0, len |-> BufferSize]],
               send   |-> [x \in Sides |-> [buf |-> NullPtr, len |-> 0]]]
    /\ io = [op \in Ops |-> Idle]
    /\ phase = "negotiating"
    /\ swept = FALSE
    /\ removed = FALSE

Closed(c) == \A x \in Sides : c.sock[x] = "invalid"

Length(c, op) == IF op[1] = "recv" THEN c.recv[op[2]].len
                                   ELSE c.send[op[2]].len
-----------------------------------------------------------------------------
\* Slips in the operators below that the properties must catch.

CloseClient_KeepsLen(c, isReceive, x) ==
    [c EXCEPT !.sock   = [y \in Sides |-> "invalid"],
              !.status = IF c.sock[x] = "open" THEN "completed" ELSE @]

CloseClient_ForgetsStatus(c, isReceive, x) ==
    [c EXCEPT !.sock = [y \in Sides |-> "invalid"],
              !.recv[x].len = IF isReceive THEN 0 ELSE @,
              !.send[x].len = IF isReceive THEN @ ELSE 0]

CloseClient_ClearsBoth(c, isReceive, x) ==
    [c EXCEPT !.sock   = [y \in Sides |-> "invalid"],
              !.status = IF c.sock[x] = "open" THEN "completed" ELSE @,
              !.recv[x].len = 0,
              !.send[x].len = 0]

AllLengthsZero_Sends(c) == \A x \in Sides : c.send[x].len = 0
-----------------------------------------------------------------------------
\* close_client(isReceive, x): both sockets are closed, the status changes only
\* if x's own socket was still open, and one length of x is cleared.
CloseClient(c, isReceive, x) ==
    [c EXCEPT !.sock   = [y \in Sides |-> "invalid"],
              !.status = IF c.sock[x] = "open" THEN "completed" ELSE @,
              !.recv[x].len = IF isReceive THEN 0 ELSE @,
              !.send[x].len = IF isReceive THEN @ ELSE 0]

\* A WSARecv or WSASend of the buffer in c: it is posted, or fails (always on a
\* closed socket) and close_client is called.  ok is the kernel's choice.
Accepted(c, x, ok) == ok /\ c.sock[x] = "open"

PostRecv(c, x, ok) ==
    IF Accepted(c, x, ok) THEN c ELSE CloseClient(c, TRUE, x)
PostSend(c, x, ok) ==
    IF Accepted(c, x, ok) THEN c ELSE CloseClient(c, FALSE, x)

\* The condition under which is_ready_for_removal returns true.
AllLengthsZero(c) == \A op \in Ops : Length(c, op) = 0
-----------------------------------------------------------------------------
\* The kernel and the completion port.

\* A posted operation completes, in part or in full.
KernelCompletes(op) ==
    /\ io[op].st = "pending"
    /\ conn.sock[op[2]] = "open"
    /\ \E k \in 1 .. Length(conn, op) : io' = [io EXCEPT ![op] = Done(k)]
    /\ UNCHANGED <<conn, phase, removed, swept>>

\* It fails: the peer closed or reset the connection, or our socket was closed.
KernelFails(op) ==
    /\ io[op].st = "pending"
    /\ io' = [io EXCEPT ![op] = Failed]
    /\ UNCHANGED <<conn, phase, removed, swept>>

\* The completion callback of a failed operation: close_client.
DispatchFailure(op) ==
    /\ io[op].st = "failed" /\ ~removed
    /\ conn' = CloseClient(conn, op[1] = "recv", op[2])
    /\ io' = [io EXCEPT ![op] = Idle]
    /\ UNCHANGED <<phase, removed, swept>>
-----------------------------------------------------------------------------
\* process_receive_buffer_complete for data from side x.
ProcessReceive(x) ==
    LET op == <<"recv", x>>
        y  == Other(x)
    IN
    /\ io[op].st = "done" /\ ~removed
    /\ \/ /\ conn.status = "completed"
          /\ conn' = [conn EXCEPT !.recv[x].len = 0]
          /\ io' = [io EXCEPT ![op] = Idle]
       \/ /\ conn.status = "established"
          /\ \E sendOk, recvOk \in BOOLEAN :
             LET k    == io[op].n
                 idle == conn.send[y].len = 0
                 c1   == [conn EXCEPT !.send[y] =
                             [buf |-> conn.recv[x].buf, len |-> k]]
                 c2   == IF idle THEN PostSend(c1, y, sendOk) ELSE conn
                 r    == c2.recv[x].buf + k
                 s    == c2.send[y].buf
                 c3   == [c2 EXCEPT !.recv[x] =
                             [buf |-> RecvPos(r, s), len |-> RecvLen(r, s)]]
                 room == RecvLen(r, s) > 0
             IN /\ conn' = IF room THEN PostRecv(c3, x, recvOk) ELSE c3
                /\ io' = [io EXCEPT
                     ![op] = IF room /\ Accepted(c3, x, recvOk)
                             THEN Pending ELSE Idle,
                     ![<<"send", y>>] = IF idle /\ Accepted(c1, y, sendOk)
                                        THEN Pending ELSE @]
    /\ UNCHANGED <<phase, removed, swept>>

\* process_send_buffer_complete for data sent to side x.  When everything is
\* sent on a completed connection both branches of the source, the local one
\* too, call close_client(false, false).
ProcessSend(x) ==
    LET op == <<"send", x>>
        y  == Other(x)
    IN
    /\ io[op].st = "done" /\ ~removed
    /\ \E sendOk, recvOk \in BOOLEAN :
       LET k     == io[op].n
           rearm == conn.status # "completed" /\ conn.recv[y].len = 0
           c1    == [conn EXCEPT !.recv[y] = [buf |-> conn.send[x].buf,
                                              len |-> k]]
           c2    == IF rearm THEN PostRecv(c1, y, recvOk) ELSE conn
           s     == SendPos(conn.send[x].buf + k)
           todo  == SendLen(s, c2.recv[y].buf)
           c3    == [c2 EXCEPT !.send[x] = [buf |-> s, len |-> todo]]
       IN /\ conn' = IF todo > 0 THEN PostSend(c3, x, sendOk)
                     ELSE IF c2.status = "completed"
                          THEN CloseClient(c3, FALSE, "remote")
                          ELSE c3
          /\ io' = [io EXCEPT
               ![op] = IF todo > 0 /\ Accepted(c3, x, sendOk)
                       THEN Pending ELSE Idle,
               ![<<"recv", y>>] = IF rearm /\ Accepted(c1, y, recvOk)
                                  THEN Pending ELSE @]
    /\ UNCHANGED <<phase, removed, swept>>
-----------------------------------------------------------------------------
\* The negotiation with the SOCKS server ends badly: it refuses, the peer goes
\* away or the sweep has closed the sockets.  close_client(true, false).
NegotiationFails ==
    /\ phase = "negotiating" /\ ~removed
    /\ conn' = CloseClient(conn, TRUE, "remote")
    /\ phase' = "over"
    /\ UNCHANGED <<io, removed, swept>>

\* A request of the negotiation cannot be sent: close_client(false, false).  The
\* negotiation goes on and fails at its next operation.
RequestFails ==
    /\ phase = "negotiating" /\ ~removed
    /\ conn' = CloseClient(conn, FALSE, "remote")
    /\ UNCHANGED <<io, phase, removed, swept>>

\* start_data_relay, first WSARecv.  The completion may be queued already when
\* the sweep closes the sockets, so they need not be open.
StartLocal ==
    /\ phase = "negotiating" /\ ~removed
    /\ \E ok \in BOOLEAN :
       LET c == PostRecv(conn, "local", ok)
       IN IF Accepted(conn, "local", ok)
          THEN /\ io' = [io EXCEPT ![<<"recv", "local">>] = Pending]
               /\ phase' = "starting"
               /\ UNCHANGED conn
          ELSE /\ conn' = [c EXCEPT !.recv["remote"].len = 0]
               /\ phase' = "over"
               /\ UNCHANGED io
    /\ UNCHANGED <<swept, removed>>

\* start_data_relay, second WSARecv; meanwhile the completion of the first may
\* have been handled by another thread, and may have closed the connection.
StartRemote ==
    /\ phase = "starting" /\ ~removed
    /\ \E ok \in BOOLEAN :
       IF Accepted(conn, "remote", ok)
       THEN /\ io' = [io EXCEPT ![<<"recv", "remote">>] = Pending]
            /\ phase' = "relaying"
            /\ UNCHANGED conn
       ELSE /\ conn' = CloseClient(conn, TRUE, "remote")
            /\ phase' = "over"
            /\ UNCHANGED io
    /\ UNCHANGED <<swept, removed>>
-----------------------------------------------------------------------------
\* Everything the completion port owes this connection has been handled.  The
\* sweep acts on connections idle for 120 s, and 10 s later again; queued
\* completions wait far less than that.
Quiet ==
    /\ \A op \in Ops : /\ io[op].st \notin {"done", "failed"}
                       /\ Closed(conn) => io[op] = Idle
    /\ phase # "starting"
    /\ Closed(conn) => phase # "negotiating"

\* A slip in the sweep that the properties must catch.
Sweep_ClosesOnly ==
    /\ ~removed /\ Quiet
    /\ ~(Closed(conn) /\ AllLengthsZero(conn))
    /\ conn' = CloseClient(CloseClient(conn, FALSE, "local"), FALSE, "remote")
    /\ swept' = TRUE
    /\ UNCHANGED <<io, phase, removed>>

\* is_ready_for_removal on a connection idle for too long.
Sweep ==
    /\ ~removed /\ Quiet
    /\ ~(Closed(conn) /\ AllLengthsZero(conn))
    /\ conn' = IF Closed(conn)
               THEN CloseClient(CloseClient(conn, TRUE, "local"),
                                TRUE, "remote")
               ELSE CloseClient(CloseClient(conn, FALSE, "local"),
                                FALSE, "remote")
    /\ swept' = TRUE
    /\ UNCHANGED <<io, phase, removed>>

\* clear_thread erases a connection for which is_ready_for_removal is true.
Remove ==
    /\ ~removed
    /\ Closed(conn) /\ AllLengthsZero(conn)
    /\ removed' = TRUE
    /\ UNCHANGED <<conn, io, phase, swept>>
-----------------------------------------------------------------------------
Next == \/ \E op \in Ops : \/ KernelCompletes(op)
                           \/ KernelFails(op)
                           \/ DispatchFailure(op)
        \/ \E x \in Sides : ProcessReceive(x) \/ ProcessSend(x)
        \/ RequestFails \/ NegotiationFails \/ StartLocal \/ StartRemote
        \/ Sweep \/ Remove

Spec == Init /\ [][Next]_vars

\* The completion port dispatches what is queued, closing a socket aborts what
\* is pending on it, negotiation and start_data_relay end, and clear_thread
\* looks at every connection once a second.
Fairness ==
    /\ \A op \in Ops : /\ WF_vars(Closed(conn) /\ KernelFails(op))
                       /\ WF_vars(DispatchFailure(op))
    /\ \A x \in Sides : WF_vars(ProcessReceive(x)) /\ WF_vars(ProcessSend(x))
    /\ WF_vars(Closed(conn) /\ NegotiationFails)
    /\ WF_vars(StartRemote)
    /\ WF_vars(Remove)

FairSpec == Spec /\ Fairness
-----------------------------------------------------------------------------
Buffer == [buf : Cells \cup {NullPtr}, len : 0 .. BufferSize]

TypeOK ==
    /\ conn \in [sock   : [Sides -> {"open", "invalid"}],
                 status : {"established", "completed"},
                 recv   : [Sides -> Buffer],
                 send   : [Sides -> Buffer]]
    /\ io \in [Ops -> {Idle, Pending, Failed}
                           \cup {Done(k) : k \in 1 .. BufferSize}]
    /\ phase \in {"negotiating", "starting", "relaying", "over"}
    /\ swept \in BOOLEAN /\ removed \in BOOLEAN

\* The object is destroyed only when neither the kernel nor the completion port
\* will touch it again and no thread is, or will be, in start_data_relay.  For
\* sends the source ensures less: see README, "What the code does not ensure".
RemovedWhenUnused ==
    removed => /\ \A x \in Sides : io[<<"recv", x>>] = Idle
               /\ ~swept => io[<<"send", "local">>] = Idle
               /\ phase \notin {"negotiating", "starting"}

\* A nonzero length really stands for an outstanding operation, so that a
\* closed connection that relayed data needs no timeout to be reclaimed.
LengthMeansOutstanding ==
    phase = "relaying" =>
        \A op \in Ops : Length(conn, op) > 0 => io[op] # Idle

\* An operation that is outstanding has a nonzero length, so that no OVERLAPPED
\* structure is handed to the kernel while it is still in use: the handlers
\* post a send, or a receive that had stopped, only when its length is zero.
NeverPostedTwice ==
    conn.status = "established" =>
        \A op \in Ops : io[op] # Idle => Length(conn, op) > 0

\* A connection whose negotiation succeeded is destroyed after its sockets are
\* closed, without the help of the 120 s sweep.
RelayReclaimed == (phase = "relaying" /\ Closed(conn)) ~> removed

\* With the sweep, so is every connection.
ClosedReclaimed ==
    WF_vars(Closed(conn) /\ Sweep) => (Closed(conn) ~> removed)

\* The four lengths tell what is outstanding, in both directions: none is left
\* behind, and nothing is posted while it is in use.
LengthsTell == LengthMeansOutstanding /\ NeverPostedTwice

\* Every closed connection is destroyed, a relay even without the sweep.
Reclaimed == RelayReclaimed /\ ClosedReclaimed
=============================================================================
