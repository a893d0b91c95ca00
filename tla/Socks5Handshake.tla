-------------------------- MODULE Socks5Handshake --------------------------
(***************************************************************************)
(* socks5_tcp_proxy_socket: the negotiation with the SOCKS server that     *)
(* comes before the relay, on top of TcpProxySocket, of which it refines   *)
(* the phase "negotiating".                                                *)
(*                                                                         *)
(* Every request is sent, remembered in current_state_ and followed by a   *)
(* WSARecv for its answer, in this order and without a lock; the answer is *)
(* handled by whichever pool thread gets it, and is read from the buffer   *)
(* as it stands: the number of bytes received is not looked at.  TCP may   *)
(* deliver an answer in pieces (ghost variable split).  An answer to a     *)
(* connect request is three cells here, the last one stands for the eight  *)
(* bytes after the verdict.                                                *)
(***************************************************************************)
EXTENDS TcpProxySocket, Sequences

VARIABLES
    neg,      \* current_state_, the handler's progress, answer buffers
    server,   \* the SOCKS server and the bytes it has sent, not yet received
    split     \* some answer has been received in part

hsVars  == <<neg, server, split>>
allVars == <<vars, hsVars>>

\* What username and password of the proxy are: absent, of a length the
\* protocol has no room for, or usable.
Credentials == {"none", "bad", "good"}
States == {"pre_login", "login_sent", "login_responded", "password_sent",
           "password_responded", "connect_sent"}
Requests == {"login_sent", "password_sent", "connect_sent"}

\* The buffer that receives the answer to the request.
AnswerBuffer(r) == IF r = "connect_sent" THEN "connect" ELSE "ident"

Refused == 255
UserPassword == 2

HInit ==
    /\ Init
    /\ \E c \in Credentials :
         neg = [cred |-> c, state |-> "pre_login", step |-> 1,
                request |-> "login_sent", recv |-> "idle",
                buf |-> [ident |-> <<5, 0>>, connect |-> <<5, 0, 0>>]]
    /\ server = [stage |-> "login_sent", request |-> "none", out |-> << >>]
    /\ split = FALSE

\* Nothing reads the negotiation's state once it is over.
Forgotten == [neg |-> [step |-> 0, recv |-> "idle", state |-> "over"],
              server |-> [stage |-> "over", request |-> "none", out |-> << >>]]

Forget == /\ neg' = Forgotten.neg
          /\ server' = Forgotten.server
          /\ split' = FALSE

Negotiating == phase = "negotiating" /\ ~removed
-----------------------------------------------------------------------------
\* A slip that the properties must catch, and how a handler makes a request.
Handler_ReceiveFirst == <<"send", "receive", "remember">>

Handler == <<"send", "remember", "receive">>

At(s) == Negotiating /\ neg.step > 0 /\ Handler[neg.step] = s

Advance(n) == [n EXCEPT !.step = IF @ = Len(Handler) THEN 0 ELSE @ + 1]

SendRequest_StopsOnFailure ==
    /\ At("send")
    /\ \E ok \in BOOLEAN :
         \/ /\ Accepted(conn, "remote", ok)
            /\ server' = [server EXCEPT !.request = neg.request]
            /\ neg' = Advance(neg)
            /\ UNCHANGED conn
         \/ /\ ~Accepted(conn, "remote", ok)
            /\ conn' = CloseClient(conn, FALSE, "remote")
            /\ neg' = [neg EXCEPT !.step = 0]
            /\ UNCHANGED server
    /\ UNCHANGED <<io, phase, swept, removed, split>>

\* WSASend; when it fails close_client(false, false), and the handler goes on.
SendRequest ==
    /\ At("send")
    /\ \E ok \in BOOLEAN :
         \/ /\ Accepted(conn, "remote", ok)
            /\ server' = [server EXCEPT !.request = neg.request]
            /\ UNCHANGED conn
         \/ /\ ~Accepted(conn, "remote", ok)
            /\ conn' = CloseClient(conn, FALSE, "remote")
            /\ UNCHANGED server
    /\ neg' = Advance(neg)
    /\ UNCHANGED <<io, phase, swept, removed, split>>

Remember ==
    /\ At("remember")
    /\ neg' = [Advance(neg) EXCEPT !.state = neg.request]
    /\ UNCHANGED <<vars, server, split>>

\* WSARecv; when it fails close_client(true, false).
PostReceive ==
    /\ At("receive")
    /\ \E ok \in BOOLEAN :
         \/ /\ Accepted(conn, "remote", ok)
            /\ neg' = [Advance(neg) EXCEPT !.recv = "pending"]
            /\ UNCHANGED <<vars, server, split>>
         \/ /\ ~Accepted(conn, "remote", ok)
            /\ NegotiationFails
            /\ Forget
-----------------------------------------------------------------------------
\* The SOCKS server keeps to the protocol.

\* Its possible answers at a stage, with the stage that follows.
Answers(stage) ==
    CASE stage = "login_sent" ->
             {<< <<5, Refused>>, "refused">>, << <<5, 0>>, "connect_sent">>}
                 \cup (IF neg.cred = "none" THEN {}
                       ELSE {<< <<5, UserPassword>>, "password_sent">>})
      [] stage = "password_sent" ->
             {<< <<1, 0>>, "connect_sent">>, << <<1, 1>>, "refused">>}
      [] stage = "connect_sent" ->
             {<< <<5, 0, 0>>, "granted">>, << <<5, 1, 0>>, "refused">>}

ServerAnswers ==
    /\ Negotiating /\ server.request # "none"
    /\ \/ /\ server.request = server.stage
          /\ \E a \in Answers(server.stage) :
               server' = [stage |-> a[2], request |-> "none",
                          out |-> server.out \o a[1]]
       \/ /\ server.request # server.stage
          /\ server' = [server EXCEPT !.stage = "refused", !.request = "none"]
    /\ UNCHANGED <<vars, neg, split>>

\* A request does not reach the server: close_client(false, false) when the
\* completion port reports it.
RequestLost ==
    /\ server.request # "none"
    /\ RequestFails
    /\ server' = [server EXCEPT !.stage = "refused", !.request = "none"]
    /\ UNCHANGED <<neg, split>>

\* Bytes of an answer are received, at the beginning of its buffer.
AnswerArrives ==
    /\ Negotiating /\ neg.recv = "pending"
    /\ conn.sock["remote"] = "open"
    /\ LET b    == AnswerBuffer(neg.request)
           old  == neg.buf[b]
           sent == server.out
       IN \E k \in 1 .. Len(old) :
            /\ k <= Len(sent)
            /\ neg' = [neg EXCEPT !.recv = "done",
                 !.buf[b] = SubSeq(sent, 1, k) \o SubSeq(old, k + 1, Len(old))]
            /\ server' = [server EXCEPT !.out = SubSeq(sent, k + 1, Len(sent))]
            /\ split' = (split \/ k < Len(old))
    /\ UNCHANGED vars

\* The server goes away, or our socket has been closed.
ReceiveFails ==
    /\ Negotiating /\ neg.recv = "pending"
    /\ neg' = [neg EXCEPT !.recv = "failed"]
    /\ UNCHANGED <<vars, server, split>>

\* The completion callback of a receive that failed.
DispatchReceiveFailure ==
    /\ neg.recv = "failed"
    /\ NegotiationFails
    /\ Forget
-----------------------------------------------------------------------------
\* process_receive_negotiate_complete.

Makes(request, responded) ==
    /\ neg' = [neg EXCEPT !.recv = "idle", !.state = responded,
                          !.step = 1, !.request = request]
    /\ UNCHANGED <<vars, server, split>>

GivesUp_KeepsSockets == /\ Forget /\ phase' = "over"
                        /\ UNCHANGED <<conn, io, swept, removed>>

GivesUp == NegotiationFails /\ Forget

\* The server's choice of a method cannot be served.
MethodRefused(m) == \/ m = Refused
                    \/ m = UserPassword /\ neg.cred # "good"

MethodAnswered_AlwaysPassword ==
    /\ Negotiating /\ neg.recv = "done" /\ neg.state = "login_sent"
    /\ IF neg.buf.ident[2] = Refused THEN GivesUp
       ELSE Makes(IF neg.cred = "good" THEN "password_sent"
                                       ELSE "connect_sent", "login_responded")

MethodAnswered ==
    /\ Negotiating /\ neg.recv = "done" /\ neg.state = "login_sent"
    /\ LET m == neg.buf.ident[2]
           refused == neg.buf.ident[1] # 5 \/ MethodRefused(m)
       IN \/ refused /\ GivesUp
          \/ /\ ~refused /\ m = UserPassword
             /\ Makes("password_sent", "login_responded")
          \/ /\ ~refused /\ m # UserPassword
             /\ Makes("connect_sent", "login_responded")

PasswordAnswered ==
    /\ Negotiating /\ neg.recv = "done" /\ neg.state = "password_sent"
    /\ \/ neg.buf.ident[2] # 0 /\ GivesUp
       \/ /\ neg.buf.ident[2] = 0
          /\ Makes("connect_sent", "password_responded")

ConnectAnswered_IgnoresVerdict ==
    /\ Negotiating /\ neg.recv = "done" /\ neg.state = "connect_sent"
    /\ StartLocal /\ Forget

ConnectAnswered ==
    /\ Negotiating /\ neg.recv = "done" /\ neg.state = "connect_sent"
    /\ \/ neg.buf.connect[2] # 0 /\ GivesUp
       \/ neg.buf.connect[2] = 0 /\ StartLocal /\ Forget
-----------------------------------------------------------------------------
\* The relay, and the sweep, which finds the connection idle only when no
\* handler is at work.
Relays == /\ \/ \E op \in Ops : \/ KernelCompletes(op)
                                \/ KernelFails(op)
                                \/ DispatchFailure(op)
             \/ \E x \in Sides : ProcessReceive(x) \/ ProcessSend(x)
             \/ StartRemote \/ Remove
             \/ neg.step = 0 /\ Sweep
          /\ UNCHANGED hsVars

HNext == \/ SendRequest \/ Remember \/ PostReceive
         \/ ServerAnswers \/ RequestLost
         \/ AnswerArrives \/ ReceiveFails \/ DispatchReceiveFailure
         \/ MethodAnswered \/ PasswordAnswered \/ ConnectAnswered
         \/ Relays

\* Handlers run to their end, the completion port dispatches what is queued,
\* closing a socket aborts what is pending on it, clear_thread never stops.
HFairness ==
    /\ WF_allVars(SendRequest) /\ WF_allVars(Remember) /\ WF_allVars(PostReceive)
    /\ WF_allVars(Closed(conn) /\ ReceiveFails)
    /\ WF_allVars(DispatchReceiveFailure)
    /\ WF_allVars(MethodAnswered \/ PasswordAnswered \/ ConnectAnswered)
    /\ \A op \in Ops :
         /\ WF_allVars(Closed(conn) /\ KernelFails(op) /\ UNCHANGED hsVars)
         /\ WF_allVars(DispatchFailure(op) /\ UNCHANGED hsVars)
    /\ \A x \in Sides : WF_allVars((ProcessReceive(x) \/ ProcessSend(x))
                                      /\ UNCHANGED hsVars)
    /\ WF_allVars(StartRemote /\ UNCHANGED hsVars)
    /\ WF_allVars(Remove /\ UNCHANGED hsVars)

HSpec == HInit /\ [][HNext]_allVars /\ HFairness
-----------------------------------------------------------------------------
HTypeOK ==
    /\ TypeOK
    /\ neg.recv \in {"idle", "pending", "done", "failed"}
    /\ neg.step \in 0 .. Len(Handler)
    /\ \/ neg = Forgotten.neg /\ phase # "negotiating"
       \/ /\ phase = "negotiating"
          /\ neg.cred \in Credentials
          /\ neg.state \in States /\ neg.request \in Requests
          /\ Len(neg.buf.ident) = 2 /\ Len(neg.buf.connect) = 3
    /\ server.stage \in Requests \cup {"granted", "refused", "over"}
    /\ server.request \in Requests \cup {"none"}
    /\ split \in BOOLEAN

\* An answer is handled in the state of the request it answers, although the
\* handler that sent the request may still be running when it comes; otherwise
\* no branch of process_receive_negotiate_complete takes it and the connection
\* hangs.
AnswerMeetsItsState ==
    neg.recv \in {"pending", "done"} =>
        neg.state = neg.request /\ neg.step = 0

\* A negotiation that is not over has a receive outstanding, or a thread at
\* work on it: it can neither be forgotten nor be worked on by two threads.
NegotiationAlive ==
    Negotiating => (neg.step = 0 <=> neg.recv # "idle")

\* Together: the negotiation goes on until it is over, whatever threads handle
\* its answers.
NegotiationAdvances == AnswerMeetsItsState /\ NegotiationAlive

\* The relay starts only when the server has granted the connection, provided
\* that no answer came in pieces (see README).
RelayOnlyIfGranted ==
    [][phase = "negotiating" /\ phase' = "starting" /\ ~split
         => server.stage = "granted" /\ server.out = << >>]_allVars

\* Username and password go to the wire only if the proxy has them and the
\* server has chosen this method, however its answer was cut.
PasswordOnlyIfChosen ==
    [][server'.request = "password_sent" /\ server.request = "none"
         => /\ neg.cred = "good"
            /\ server.stage = "password_sent"]_allVars

\* The handshake followed by the relay is the connection TcpProxySocket
\* specifies: no request, answer, failure or sweep of the negotiation touches
\* the sockets and buffers in another way.
ImplementsTcpProxySocket == Spec
=============================================================================
