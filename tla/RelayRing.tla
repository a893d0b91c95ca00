----------------------------- MODULE RelayRing -----------------------------
(***************************************************************************)
(* One direction of tcp_proxy_socket's data relay: bytes arrive from one   *)
(* socket into a cyclic buffer and leave from it to the other socket.  At  *)
(* most one overlapped WSARecv and one overlapped WSASend are outstanding; *)
(* the source has no flag for that, a nonzero WSABUF.len says that the     *)
(* operation is outstanding.  The kernel performs an operation at any time *)
(* after it was posted and queues a completion; the handlers               *)
(* process_receive_buffer_complete and process_send_buffer_complete run    *)
(* under lock_, so each is one action.  Whatever the other direction, the  *)
(* peers or the idle sweep do to this one is CloseElsewhere.               *)
(*                                                                         *)
(* The byte at position i of the sender's stream is the number i.          *)
(***************************************************************************)
EXTENDS RelayBuffer, Sequences

CONSTANT StreamLength     \* bytes the sending peer sends (bounds the model)

ASSUME StreamLengthAssumption == StreamLength \in Nat

VARIABLES
    open,       \* connection_status_ is client_established, sockets are open
    recv_buf,   \* x_recv_buf_.buf
    recv_len,   \* x_recv_buf_.len, nonzero while a receive is outstanding
    send_buf,   \* y_send_buf_.buf
    send_len,   \* y_send_buf_.len, nonzero while a send is outstanding
    mem,        \* from_x_to_y_buffer_
    recvDone,   \* bytes of the queued receive completion, 0 if none is queued
    sendDone,   \* bytes of the queued send completion, 0 if none is queued
    received,   \* number of stream bytes the kernel has put in mem
    out         \* bytes the kernel has taken from mem, in order

buffers == <<recv_buf, recv_len, send_buf, send_len>>
vars == <<open, buffers, mem, recvDone, sendDone, received, out>>

\* start_data_relay: the receive is posted with the whole buffer.
Init == /\ open = TRUE
        /\ recv_buf = 0 /\ recv_len = BufferSize
        /\ send_buf = NullPtr /\ send_len = 0
        /\ mem = [c \in Cells |-> 0]
        /\ recvDone = 0 /\ sendDone = 0
        /\ received = 0 /\ out = <<>>
-----------------------------------------------------------------------------
\* The network stack.

\* The posted receive completes with 1 to recv_len bytes.
KernelRecv ==
    /\ open
    /\ recv_len > 0 /\ recvDone = 0
    /\ \E k \in 1 .. recv_len :
          /\ received + k =< StreamLength
          /\ mem' = [c \in Cells |-> IF c \in recv_buf .. recv_buf + k - 1
                                     THEN received + 1 + (c - recv_buf)
                                     ELSE mem[c]]
          /\ recvDone' = k
          /\ received' = received + k
    /\ UNCHANGED <<open, buffers, sendDone, out>>

\* The posted send completes with 1 to send_len bytes.
KernelSend ==
    /\ open
    /\ send_len > 0 /\ sendDone = 0
    /\ \E k \in 1 .. send_len :
          /\ out' = out \o [j \in 1 .. k |-> mem[send_buf + j - 1]]
          /\ sendDone' = k
    /\ UNCHANGED <<open, buffers, mem, recvDone, received>>

\* The receive ends without data (the peer has closed, or the socket has been
\* closed under it): the completion callback calls close_client(true, x).
RecvEnds ==
    /\ recv_len > 0 /\ recvDone = 0
    /\ recv_len' = 0
    /\ open' = FALSE
    /\ UNCHANGED <<recv_buf, send_buf, send_len, mem, recvDone, sendDone,
                   received, out>>

\* The send fails: the completion callback calls close_client(false, y).
SendFails ==
    /\ send_len > 0 /\ sendDone = 0
    /\ send_len' = 0
    /\ open' = FALSE
    /\ UNCHANGED <<recv_buf, recv_len, send_buf, mem, recvDone, sendDone,
                   received, out>>

\* close_client called by a handler of the other direction or by the idle
\* sweep, which also clears this direction's send length.
CloseElsewhere ==
    /\ open' = FALSE
    /\ send_len' = send_len \/ send_len' = 0
    /\ UNCHANGED <<recv_buf, recv_len, send_buf, mem, recvDone, sendDone,
                   received, out>>
-----------------------------------------------------------------------------
\* Slips in the handlers below that the properties must catch.

ProcessReceive_Overtakes ==
    /\ recvDone > 0 /\ open
    /\ LET s == recv_buf
           r == recv_buf + recvDone
       IN /\ send_buf' = s
          /\ send_len' = recvDone
          /\ recv_buf' = RecvPos(r, s)
          /\ recv_len' = RecvLen(r, s)
    /\ recvDone' = 0
    /\ UNCHANGED <<open, mem, sendDone, received, out>>

ProcessSend_NoRearm ==
    /\ sendDone > 0 /\ open
    /\ LET s == SendPos(send_buf + sendDone)
       IN /\ send_buf' = s
          /\ send_len' = SendLen(s, recv_buf)
    /\ sendDone' = 0
    /\ UNCHANGED <<open, recv_buf, recv_len, mem, recvDone, received, out>>
-----------------------------------------------------------------------------
\* process_receive_buffer_complete, connection established.  With no send in
\* progress the received bytes are sent at once; then the next receive is
\* posted if there is room.  A failing WSASend closes both sockets, so the
\* WSARecv after it fails too.
ProcessReceive ==
    /\ recvDone > 0 /\ open
    /\ LET idle == send_len = 0
           s    == IF idle THEN recv_buf ELSE send_buf
           r    == recv_buf + recvDone
           room == RecvLen(r, s)
       IN /\ send_buf' = s
          /\ recv_buf' = RecvPos(r, s)
          /\ \/ /\ open' = TRUE
                /\ send_len' = IF idle THEN recvDone ELSE send_len
                /\ recv_len' = room
             \/ /\ idle                                     \* WSASend fails
                /\ open' = FALSE
                /\ send_len' = 0
                /\ recv_len' = 0
             \/ /\ room > 0                                 \* WSARecv fails
                /\ open' = FALSE
                /\ send_len' = IF idle THEN recvDone ELSE send_len
                /\ recv_len' = 0
    /\ recvDone' = 0
    /\ UNCHANGED <<mem, sendDone, received, out>>

\* process_receive_buffer_complete, connection completed.
ProcessReceiveClosed ==
    /\ recvDone > 0 /\ ~open
    /\ recv_len' = 0
    /\ recvDone' = 0
    /\ UNCHANGED <<open, recv_buf, send_buf, send_len, mem, sendDone,
                   received, out>>

\* process_send_buffer_complete, connection established.  A receive that was
\* not outstanding (the buffer was full) is posted again over the bytes just
\* sent; then whatever lies next in the buffer is sent.
ProcessSend ==
    /\ sendDone > 0 /\ open
    /\ LET full == recv_len = 0
           r    == IF full THEN send_buf ELSE recv_buf
           s    == SendPos(send_buf + sendDone)
           todo == SendLen(s, r)
       IN /\ recv_buf' = r
          /\ send_buf' = s
          /\ \/ /\ open' = TRUE
                /\ recv_len' = IF full THEN sendDone ELSE recv_len
                /\ send_len' = todo
             \/ /\ full                                     \* WSARecv fails
                /\ open' = FALSE
                /\ recv_len' = 0
                /\ send_len' = 0
             \/ /\ todo > 0                                 \* WSASend fails
                /\ open' = FALSE
                /\ recv_len' = IF full THEN sendDone ELSE recv_len
                /\ send_len' = 0
    /\ sendDone' = 0
    /\ UNCHANGED <<mem, recvDone, received, out>>

\* process_send_buffer_complete, connection completed: the next WSASend fails.
ProcessSendClosed ==
    /\ sendDone > 0 /\ ~open
    /\ send_buf' = SendPos(send_buf + sendDone)
    /\ send_len' = 0
    /\ sendDone' = 0
    /\ UNCHANGED <<open, recv_buf, recv_len, mem, recvDone, received, out>>
-----------------------------------------------------------------------------
Kernel == KernelRecv \/ KernelSend \/ RecvEnds \/ SendFails
Handlers == ProcessReceive \/ ProcessReceiveClosed
                \/ ProcessSend \/ ProcessSendClosed
Next == Kernel \/ Handlers \/ CloseElsewhere

Spec == Init /\ [][Next]_vars

\* The receiving peer keeps reading, the sending peer keeps sending, and the
\* completion-port threads take every queued completion.
Fairness == /\ WF_vars(KernelRecv) /\ WF_vars(KernelSend)
            /\ WF_vars(Handlers)
FairSpec == Spec /\ Fairness
-----------------------------------------------------------------------------
TypeOK == /\ open \in BOOLEAN
          /\ recv_buf \in Cells /\ recv_len \in 0 .. BufferSize
          /\ send_buf \in Cells \cup {NullPtr} /\ send_len \in 0 .. BufferSize
          /\ mem \in [Cells -> Nat]
          /\ recvDone \in 0 .. BufferSize /\ sendDone \in 0 .. BufferSize
          /\ received \in 0 .. StreamLength /\ out \in Seq(Nat)

\* The receiver gets a prefix of what the sender sent: no byte is lost,
\* duplicated, reordered or overwritten in the cyclic buffer.
RelayedInOrder == /\ Len(out) =< received
                  /\ \A i \in 1 .. Len(out) : out[i] = i

\* The two operations the kernel may be performing at the same time never
\* touch the same cell: the posted receive does not overlap the posted send.
RecvSendDisjoint ==
    open /\ recv_len > 0 /\ send_len > 0 =>
        /\ recv_buf + recv_len =< BufferSize
        /\ send_buf + send_len =< BufferSize
        /\ \/ recv_buf + recv_len =< send_buf
           \/ send_buf + send_len =< recv_buf

\* An open connection never stalls: some operation is outstanding, and bytes
\* that were received and not sent have a send outstanding for them.
NeverStalls ==
    open => /\ recv_len > 0 \/ send_len > 0
            /\ received - recvDone > Len(out) - sendDone => send_len > 0

\* Until the connection closes, every byte received is delivered and the
\* stream arrives completely.
StreamArrives == \A n \in 1 .. StreamLength : <>(Len(out) >= n \/ ~open)

\* The ring implements a bounded first-in first-out channel.
Channel == INSTANCE RelayChannel
             WITH Capacity <- BufferSize, accepted <- received
ImplementsChannel == Channel!Spec
=============================================================================
