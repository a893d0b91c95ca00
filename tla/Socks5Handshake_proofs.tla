----------------------- MODULE Socks5Handshake_proofs -----------------------
(***************************************************************************)
(* socks5_tcp_proxy_socket is a tcp_proxy_socket: whatever the SOCKS server *)
(* answers and however its answers are cut, the negotiation takes only     *)
(* steps of TcpProxySocket or none, so what TcpProxySocket_proofs shows of *)
(* the connection holds of the handshake followed by the relay.            *)
(*                                                                         *)
(* The negotiation itself never hangs between a request and its answer:    *)
(* the invariant says which step of the handler goes with which receive.   *)
(* Username and password are sent only where the server has chosen them,   *)
(* and the relay starts only where it has granted the connection: what is  *)
(* on its way is the whole answer to the last request, or nothing.         *)
(***************************************************************************)
EXTENDS Socks5Handshake, TcpProxySocket_proofs

\* Every step of the handshake is a step of the connection, or changes nothing
\* of it.
LEMMA HStepRefines == [HNext]_allVars => [Next]_vars
<1> SUFFICES ASSUME [HNext]_allVars PROVE [Next]_vars
  OBVIOUS
<1>1. CASE SendRequest
  <2>1. /\ phase = "negotiating" /\ ~removed
        /\ UNCHANGED <<io, phase, swept, removed>>
        /\ \/ UNCHANGED conn
           \/ conn' = CloseClient(conn, FALSE, "remote")
    BY <1>1 DEF SendRequest, At, Negotiating
  <2> QED
    BY <2>1 DEF vars, Next, RequestFails
<1>2. CASE Remember \/ ServerAnswers \/ AnswerArrives \/ ReceiveFails
  BY <1>2 DEF Remember, ServerAnswers, AnswerArrives, ReceiveFails
<1>3. CASE PostReceive \/ DispatchReceiveFailure
  BY <1>3 DEF PostReceive, DispatchReceiveFailure, Next
<1>4. CASE RequestLost
  BY <1>4 DEF RequestLost, Next
<1>5. CASE MethodAnswered \/ PasswordAnswered
  BY <1>5 DEF MethodAnswered, PasswordAnswered, Makes, GivesUp, Next
<1>6. CASE ConnectAnswered
  BY <1>6 DEF ConnectAnswered, GivesUp, Next
<1>7. CASE Relays
  BY <1>7 DEF Relays, Next
<1>8. CASE UNCHANGED allVars
  BY <1>8 DEF allVars, vars
<1> QED
  BY <1>1, <1>2, <1>3, <1>4, <1>5, <1>6, <1>7, <1>8 DEF HNext

\* The handshake and the relay that follows it implement the connection.
THEOREM HandshakeImplementsConnection == HSpec => ImplementsTcpProxySocket
<1>1. HInit => Init
  BY DEF HInit
<1> QED
  BY <1>1, HStepRefines, PTL DEF HSpec, Spec, ImplementsTcpProxySocket

\* A connection is destroyed only when it is unused, from the first request of
\* its negotiation on.
THEOREM HandshakeRemovedWhenUnused == HSpec => []RemovedWhenUnused
BY HandshakeImplementsConnection, ConnectionRemovedWhenUnused
   DEF ImplementsTcpProxySocket

\* The relay that follows a negotiation starts with lengths that tell what is
\* outstanding, and they go on telling it.
THEOREM HandshakeLengthsTell == HSpec => []LengthsTell
BY HandshakeImplementsConnection, ConnectionLengthsTell
   DEF ImplementsTcpProxySocket
-----------------------------------------------------------------------------
\* The state of a negotiation, as far as its progress goes.
Negotiations ==
    [cred : Credentials, state : States, step : 0 .. 3, request : Requests,
     recv : {"idle", "pending", "done", "failed"},
     buf : [ident : Seq(Int), connect : Seq(Int)]]

Servers == [stage : Requests \cup {"granted", "refused", "over"},
            request : Requests \cup {"none"}, out : Seq(Int)]

\* A handler at work has no receive outstanding; once it has remembered its
\* request the state is the one its answer is for.
HInv ==
    /\ phase # "negotiating" => neg = Forgotten.neg
    /\ phase = "negotiating" =>
         /\ neg \in Negotiations
         /\ server \in Servers
         /\ neg.step = 0 <=> neg.recv # "idle"
         /\ neg.step \in {0, 3} => neg.state = neg.request

\* The three statements of a handler, in their order.
LEMMA HandlerFacts ==
  /\ Len(Handler) = 3
  /\ \A i \in 1 .. 3 : /\ Handler[i] = "send" <=> i = 1
                       /\ Handler[i] = "remember" <=> i = 2
                       /\ Handler[i] = "receive" <=> i = 3
BY DEF Handler

\* To the next statement, and after the last one out of the handler.
LEMMA AdvanceFacts ==
  ASSUME NEW n \in Negotiations
  PROVE  /\ Advance(n) \in Negotiations
         /\ Advance(n).step = IF n.step = 3 THEN 0 ELSE n.step + 1
         /\ Advance(n).recv = n.recv /\ Advance(n).request = n.request
         /\ Advance(n).state = n.state
BY HandlerFacts, SMTT(30) DEF Advance, Negotiations

\* The negotiation has ended.
LEMMA Forgets ==
  ASSUME neg' = Forgotten.neg, phase' # "negotiating"
  PROVE  HInv'
BY DEF HInv

\* A connection whose negotiation has not begun.
LEMMA InitHInv == HInit => HInv
<1> SUFFICES ASSUME HInit PROVE HInv
  OBVIOUS
<1>1. PICK c \in Credentials :
         neg = [cred |-> c, state |-> "pre_login", step |-> 1,
                request |-> "login_sent", recv |-> "idle",
                buf |-> [ident |-> <<5, 0>>, connect |-> <<5, 0, 0>>]]
  BY DEF HInit
<1>2. <<5, 0>> \in Seq(Int) /\ <<5, 0, 0>> \in Seq(Int)
  OBVIOUS
<1>3. neg \in Negotiations /\ neg.step = 1 /\ neg.recv = "idle"
  BY <1>1, <1>2 DEF Negotiations, States, Requests
<1>4. phase = "negotiating" /\ server \in Servers
  BY DEF HInit, Init, Servers, Requests
<1> QED
  BY <1>3, <1>4 DEF HInv

\* A request is made.
LEMMA MakesStep ==
  ASSUME HInv, phase = "negotiating", NEW r \in Requests, NEW s \in States,
         Makes(r, s)
  PROVE  HInv'
<1>1. neg \in Negotiations /\ server \in Servers
  BY DEF HInv
<1>2. /\ phase' = "negotiating" /\ server' = server
      /\ neg' = [neg EXCEPT !.recv = "idle", !.state = s, !.step = 1,
                            !.request = r]
  BY DEF Makes, vars
<1>3. neg' \in Negotiations /\ neg'.step = 1 /\ neg'.recv = "idle"
  <2>1. neg' = [cred |-> neg.cred, state |-> s, step |-> 1, request |-> r,
                recv |-> "idle", buf |-> neg.buf]
    BY <1>1, <1>2 DEF Negotiations
  <2>2. neg.cred \in Credentials /\ neg.buf \in [ident : Seq(Int), connect : Seq(Int)]
    BY <1>1 DEF Negotiations
  <2> QED
    BY <2>1, <2>2 DEF Negotiations
<1> QED
  BY <1>1, <1>2, <1>3 DEF HInv

\* An operation of the kernel or of the server, which handles nothing.
LEMMA ReceiveStep ==
  ASSUME HInv, AnswerArrives \/ ReceiveFails
  PROVE  HInv'
<1>1. /\ neg \in Negotiations /\ server \in Servers
      /\ phase = "negotiating" /\ phase' = "negotiating"
      /\ neg.recv = "pending" /\ neg.step = 0 /\ neg.state = neg.request
  BY DEF HInv, AnswerArrives, ReceiveFails, Negotiating, vars
<1>2. CASE ReceiveFails
  <2>1. neg' = [neg EXCEPT !.recv = "failed"] /\ server' = server
    BY <1>2 DEF ReceiveFails
  <2>2. /\ neg' \in Negotiations /\ neg'.step = 0 /\ neg'.recv = "failed"
        /\ neg'.state = neg'.request
    BY <1>1, <2>1 DEF Negotiations
  <2> QED
    BY <1>1, <2>1, <2>2 DEF HInv
<1>3. CASE AnswerArrives
  <2> DEFINE b    == AnswerBuffer(neg.request)
             old  == neg.buf[b]
             sent == server.out
  <2>1. PICK k \in 1 .. Len(old) :
          /\ k <= Len(sent)
          /\ neg' = [neg EXCEPT !.recv = "done",
               !.buf[b] = SubSeq(sent, 1, k) \o SubSeq(old, k + 1, Len(old))]
          /\ server' = [server EXCEPT !.out = SubSeq(sent, k + 1, Len(sent))]
    BY <1>3 DEF AnswerArrives
  <2> DEFINE new == SubSeq(sent, 1, k) \o SubSeq(old, k + 1, Len(old))
  <2>2. b \in {"ident", "connect"} /\ old \in Seq(Int) /\ sent \in Seq(Int)
    BY <1>1 DEF Negotiations, AnswerBuffer, Servers
  <2>3. SubSeq(sent, 1, k) \in Seq(Int)
    BY <1>1, <2>1, <2>2
  <2>4. SubSeq(old, k + 1, Len(old)) \in Seq(Int)
    BY <2>1, <2>2
  <2>5. new \in Seq(Int)
    BY <2>3, <2>4
  <2> HIDE DEF new
  <2>6. neg' = [cred |-> neg.cred, state |-> neg.state, step |-> neg.step,
                request |-> neg.request, recv |-> "done",
                buf |-> [neg.buf EXCEPT ![b] = new]]
    BY <1>1, <2>1 DEF Negotiations, new
  <2>7. [neg.buf EXCEPT ![b] = new] \in [ident : Seq(Int), connect : Seq(Int)]
    BY <1>1, <2>2, <2>5 DEF Negotiations
  <2>8. /\ neg.cred \in Credentials /\ neg.state \in States
        /\ neg.step \in 0 .. 3 /\ neg.request \in Requests
    BY <1>1 DEF Negotiations
  <2>9. neg' \in Negotiations
    <3> HIDE DEF b
    <3> QED
      BY <2>6, <2>7, <2>8 DEF Negotiations
  <2>10. server' \in Servers
    <3>1. SubSeq(sent, k + 1, Len(sent)) \in Seq(Int)
      BY <2>1, <2>2
    <3> HIDE DEF sent
    <3> QED
      BY <1>1, <2>1, <3>1 DEF Servers
  <2> QED
    BY <1>1, <2>6, <2>9, <2>10 DEF HInv
<1> QED
  BY <1>2, <1>3

\* A request reaches the server, which answers, or is lost.
LEMMA ServerStep ==
  ASSUME HInv, ServerAnswers \/ RequestLost
  PROVE  HInv'
<1>1. /\ phase = "negotiating" /\ phase' = "negotiating" /\ neg' = neg
      /\ neg \in Negotiations /\ server \in Servers
  <2>1. CASE ServerAnswers
    BY <2>1 DEF HInv, ServerAnswers, Negotiating, vars
  <2>2. CASE RequestLost
    BY <2>2 DEF HInv, RequestLost, RequestFails
  <2> QED
    BY <2>1, <2>2
<1>2. server' \in Servers
  <2>1. CASE server' = [server EXCEPT !.stage = "refused", !.request = "none"]
    BY <1>1, <2>1 DEF Servers
  <2>2. CASE ServerAnswers /\ server.request = server.stage
    <3>1. PICK a \in Answers(server.stage) :
            server' = [stage |-> a[2], request |-> "none",
                       out |-> server.out \o a[1]]
      BY <2>2 DEF ServerAnswers
    <3>2. server.stage \in Requests
      BY <1>1, <2>2 DEF Servers, ServerAnswers
    <3>3. /\ a[1] \in Seq(Int)
          /\ a[2] \in {"refused", "connect_sent", "password_sent", "granted"}
      BY <3>1, <3>2, SMTT(30) DEF Answers, Requests, Refused, UserPassword
    <3> QED
      BY <1>1, <3>1, <3>3 DEF Servers, Requests
  <2> QED
    BY <2>1, <2>2 DEF ServerAnswers, RequestLost
<1> QED
  BY <1>1, <1>2 DEF HInv
-----------------------------------------------------------------------------
\* A handler sends its request, remembers it and posts the receive.
LEMMA HandlerStep ==
  ASSUME HInv, SendRequest \/ Remember \/ PostReceive
  PROVE  HInv'
<1>1. /\ phase = "negotiating" /\ neg \in Negotiations /\ server \in Servers
      /\ neg.step \in 1 .. 3 /\ neg.recv = "idle"
      /\ neg.step = 3 => neg.state = neg.request
  <2>1. /\ phase = "negotiating" /\ neg.step > 0
    BY DEF SendRequest, Remember, PostReceive, At, Negotiating
  <2>2. neg \in Negotiations
    BY <2>1 DEF HInv
  <2>3. neg.step \in 0 .. 3
    BY <2>2 DEF Negotiations
  <2> QED
    BY <2>1, <2>2, <2>3 DEF HInv, Negotiations
<1>2. CASE SendRequest
  <2>1. neg.step = 1 /\ phase' = phase /\ neg' = Advance(neg)
    BY <1>1, <1>2, HandlerFacts DEF SendRequest, At
  <2>2. server' \in Servers
    <3>1. neg.request \in Requests
      BY <1>1 DEF Negotiations
    <3> QED
      BY <1>1, <1>2, <3>1 DEF SendRequest, Servers
  <2> QED
    BY <1>1, <2>1, <2>2, AdvanceFacts DEF HInv
<1>3. CASE Remember
  <2>1. /\ neg.step = 2 /\ phase' = phase /\ server' = server
        /\ neg' = [Advance(neg) EXCEPT !.state = neg.request]
    BY <1>1, <1>3, HandlerFacts DEF Remember, At, vars
  <2>2. /\ Advance(neg) \in Negotiations /\ Advance(neg).step = 3
        /\ Advance(neg).recv = "idle" /\ Advance(neg).request = neg.request
        /\ neg.request \in States
    <3>1. neg.request \in States
      BY <1>1 DEF Negotiations, Requests, States
    <3> QED
      BY <1>1, <2>1, <3>1, AdvanceFacts
  <2>3. /\ neg' \in Negotiations /\ neg'.step = 3 /\ neg'.recv = "idle"
        /\ neg'.state = neg.request /\ neg'.request = neg.request
    <3> DEFINE n == Advance(neg)
    <3> HIDE DEF n
    <3>1. n \in Negotiations /\ neg' = [n EXCEPT !.state = neg.request]
      BY <2>1, <2>2 DEF n
    <3>2. n.step = 3 /\ n.recv = "idle" /\ n.request = neg.request
      BY <2>2 DEF n
    <3> QED
      BY <2>2, <3>1, <3>2 DEF Negotiations
  <2> QED
    BY <1>1, <2>1, <2>3 DEF HInv
<1>4. CASE PostReceive /\ NegotiationFails /\ Forget
  <2>1. phase' # "negotiating"
    BY <1>4 DEF NegotiationFails
  <2> QED
    BY <1>4, <2>1, Forgets DEF Forget
<1>5. CASE PostReceive /\ ~(NegotiationFails /\ Forget)
  <2>1. /\ neg.step = 3 /\ phase' = phase /\ server' = server
        /\ neg' = [Advance(neg) EXCEPT !.recv = "pending"]
    BY <1>1, <1>5, HandlerFacts DEF PostReceive, At, vars
  <2>2. /\ Advance(neg) \in Negotiations /\ Advance(neg).step = 0
        /\ Advance(neg).state = neg.state /\ Advance(neg).request = neg.request
    BY <1>1, <2>1, AdvanceFacts
  <2>3. /\ neg' \in Negotiations /\ neg'.step = 0 /\ neg'.recv = "pending"
        /\ neg'.state = neg.state /\ neg'.request = neg.request
    BY <2>1, <2>2 DEF Negotiations
  <2> QED
    BY <1>1, <2>1, <2>3 DEF HInv
<1> QED
  BY <1>2, <1>3, <1>4, <1>5

\* process_receive_negotiate_complete makes the next request or ends the
\* negotiation, as a failed receive does.
LEMMA AnswerStep ==
  ASSUME HInv, \/ MethodAnswered \/ PasswordAnswered \/ ConnectAnswered
               \/ DispatchReceiveFailure
  PROVE  HInv'
<1>1. phase = "negotiating"
  BY DEF MethodAnswered, PasswordAnswered, ConnectAnswered, Negotiating,
         DispatchReceiveFailure, NegotiationFails
<1>2. ASSUME GivesUp PROVE HInv'
  BY <1>2, Forgets DEF GivesUp, NegotiationFails, Forget
<1>3. ASSUME StartLocal, Forget PROVE HInv'
  <2>1. phase' # "negotiating"
    BY <1>3 DEF StartLocal
  <2> QED
    BY <1>3, <2>1, Forgets DEF Forget
<1>4. CASE MethodAnswered
  BY <1>1, <1>2, <1>4, MakesStep DEF MethodAnswered, Requests, States
<1>5. CASE PasswordAnswered
  BY <1>1, <1>2, <1>5, MakesStep DEF PasswordAnswered, Requests, States
<1>6. CASE ConnectAnswered
  BY <1>2, <1>3, <1>6 DEF ConnectAnswered
<1>7. CASE DispatchReceiveFailure
  BY <1>2, <1>7 DEF DispatchReceiveFailure, GivesUp
<1> QED
  BY <1>4, <1>5, <1>6, <1>7

\* The relay's steps begin no negotiation and end none.
LEMMA RelaysPhase ==
  ASSUME Relays
  PROVE  phase' = "negotiating" <=> phase = "negotiating"
<1>1. CASE \E op \in Ops : KernelCompletes(op) \/ KernelFails(op)
                          \/ DispatchFailure(op)
  BY <1>1 DEF KernelCompletes, KernelFails, DispatchFailure
<1>2. CASE \E x \in Sides : ProcessReceive(x) \/ ProcessSend(x)
  <2>1. ASSUME NEW x \in Sides, ProcessReceive(x) PROVE phase' = phase
    BY <2>1 DEF ProcessReceive
  <2>2. ASSUME NEW x \in Sides, ProcessSend(x) PROVE phase' = phase
    BY <2>2 DEF ProcessSend
  <2> QED
    BY <1>2, <2>1, <2>2
<1>3. CASE StartRemote \/ Remove \/ Sweep
  BY <1>3 DEF StartRemote, Remove, Sweep
<1> QED
  BY <1>1, <1>2, <1>3 DEF Relays

\* Every step of the handshake preserves its invariant.
LEMMA NextHInv == HInv /\ [HNext]_allVars => HInv'
<1> SUFFICES ASSUME HInv, [HNext]_allVars PROVE HInv'
  OBVIOUS
<1>1. CASE Relays
  <2>1. neg' = neg /\ server' = server
    BY <1>1 DEF Relays, hsVars
  <2>2. phase' = "negotiating" <=> phase = "negotiating"
    BY <1>1, RelaysPhase
  <2> QED
    BY <2>1, <2>2 DEF HInv
<1>2. CASE UNCHANGED allVars
  BY <1>2 DEF allVars, vars, hsVars, HInv
<1> QED
  BY <1>1, <1>2, HandlerStep, ServerStep, ReceiveStep, AnswerStep DEF HNext

\* A negotiation is always either waiting for an answer, in the state in which
\* that answer is handled, or being worked on by one thread.
THEOREM HandshakeAdvances == HSpec => []NegotiationAdvances
<1>1. HInv => NegotiationAdvances
  BY DEF HInv, NegotiationAdvances, AnswerMeetsItsState, NegotiationAlive,
         Negotiating, Forgotten, Negotiations
<1> QED
  BY <1>1, InitHInv, NextHInv, PTL DEF HSpec
-----------------------------------------------------------------------------
\* What stands in the answer buffer, or is on its way to it, can be taken for
\* the choice of username and password only if that is what the server chose.
NoPassword(s) == \A i \in 1 .. Len(s) : s[i] # UserPassword

\* Bytes put behind others bring no choice of a password.
LEMMA ConcatNoPassword ==
  ASSUME NEW s \in Seq(Int), NEW t \in Seq(Int), NoPassword(s), NoPassword(t)
  PROVE  NoPassword(s \o t)
<1>1. /\ Len(s \o t) = Len(s) + Len(t) /\ Len(s) \in Nat /\ Len(t) \in Nat
      /\ \A i \in 1 .. Len(s) + Len(t) :
           (s \o t)[i] = IF i <= Len(s) THEN s[i] ELSE t[i - Len(s)]
  OBVIOUS
<1>2. \A i \in 1 .. Len(s) + Len(t) :
        (i <= Len(s) /\ i \in 1 .. Len(s)) \/ i - Len(s) \in 1 .. Len(t)
  BY <1>1
<1> QED
  BY <1>1, <1>2 DEF NoPassword

\* Neither does reading some of them.
LEMMA RestNoPassword ==
  ASSUME NEW s \in Seq(Int), NoPassword(s), NEW k \in 1 .. Len(s)
  PROVE  NoPassword(SubSeq(s, k + 1, Len(s)))
<1>1. /\ Len(SubSeq(s, k + 1, Len(s))) = Len(s) - k /\ Len(s) \in Nat
      /\ \A i \in 1 .. Len(s) - k : SubSeq(s, k + 1, Len(s))[i] = s[i + k]
  OBVIOUS
<1>2. \A i \in 1 .. Len(s) - k : i + k \in 1 .. Len(s)
  BY <1>1
<1> QED
  BY <1>1, <1>2 DEF NoPassword

LoginInv ==
    neg.request = "login_sent" =>
      /\ server.request \in {"none", "login_sent"}
      /\ server.request = "login_sent" => server.stage = "login_sent"
      /\ neg.step = 1 => server.stage = "login_sent" /\ server.request = "none"
      /\ server.stage # "password_sent" =>
           neg.buf.ident[2] # UserPassword /\ NoPassword(server.out)

PasswordInv ==
    neg.request = "password_sent" =>
      /\ neg.cred = "good"
      /\ neg.step = 1 => /\ server.stage = "password_sent"
                         /\ server.request = "none"

ChoiceInv == phase = "negotiating" =>
                 Len(neg.buf.ident) = 2 /\ LoginInv /\ PasswordInv

\* Before the first byte the server has chosen nothing.
LEMMA InitChoice == HInit => ChoiceInv
BY DEF HInit, ChoiceInv, LoginInv, PasswordInv, NoPassword, UserPassword

\* What the handler's steps change, besides its progress.
LEMMA HandlerMoves ==
  ASSUME HInv, SendRequest \/ Remember \/ PostReceive,
         ~(PostReceive /\ NegotiationFails)
  PROVE  /\ phase = "negotiating" /\ phase' = phase /\ split' = split
         /\ neg \in Negotiations /\ server \in Servers
         /\ neg'.request = neg.request /\ neg'.cred = neg.cred
         /\ neg'.buf = neg.buf /\ neg'.step # 1 /\ neg'.recv # "done"
         /\ \/ server' = server
            \/ neg.step = 1 /\ server' = [server EXCEPT !.request = neg.request]
<1>1. /\ phase = "negotiating" /\ neg.step \in 1 .. 3 /\ neg \in Negotiations
      /\ server \in Servers /\ neg.recv = "idle"
  <2>1. /\ phase = "negotiating" /\ neg.step > 0
    BY DEF SendRequest, Remember, PostReceive, At, Negotiating
  <2>2. neg \in Negotiations
    BY <2>1 DEF HInv
  <2>3. neg.step \in 0 .. 3
    BY <2>2 DEF Negotiations
  <2> QED
    BY <2>1, <2>2, <2>3 DEF HInv
<1> DEFINE n == Advance(neg)
<1>2. /\ n \in Negotiations /\ n.request = neg.request
      /\ n.cred = neg.cred /\ n.buf = neg.buf /\ n.step # 1 /\ n.recv = "idle"
  <2>1. n.step # 1
    BY <1>1, AdvanceFacts
  <2> QED
    BY <1>1, <2>1, AdvanceFacts DEF Advance, Negotiations
<1>3. \/ neg' = n
      \/ neg' = [n EXCEPT !.state = neg.request]
      \/ neg' = [n EXCEPT !.recv = "pending"]
  BY DEF SendRequest, Remember, PostReceive
<1>4. phase' = phase /\ split' = split
  BY DEF SendRequest, Remember, PostReceive, vars
<1>5. \/ server' = server
      \/ neg.step = 1 /\ server' = [server EXCEPT !.request = neg.request]
  BY <1>1, HandlerFacts DEF SendRequest, Remember, PostReceive, At
<1> HIDE DEF n
<1>6. /\ neg'.request = neg.request /\ neg'.cred = neg.cred
      /\ neg'.buf = neg.buf /\ neg'.step # 1 /\ neg'.recv # "done"
  BY <1>2, <1>3 DEF Negotiations
<1> QED
  BY <1>1, <1>4, <1>5, <1>6

\* The handler's steps after Makes leave the choice alone, and its request
\* reaches the server in the stage it is for.
LEMMA HandlerChoice ==
  ASSUME HInv, ChoiceInv, SendRequest \/ Remember \/ PostReceive
  PROVE  ChoiceInv'
<1>1. CASE PostReceive /\ NegotiationFails
  BY <1>1 DEF NegotiationFails, ChoiceInv
<1>2. CASE ~(PostReceive /\ NegotiationFails)
  <2>1. /\ phase = "negotiating" /\ phase' = phase
        /\ neg \in Negotiations /\ server \in Servers
        /\ neg'.request = neg.request /\ neg'.cred = neg.cred
        /\ neg'.buf = neg.buf /\ neg'.step # 1
        /\ \/ server' = server
           \/ neg.step = 1 /\ server' = [server EXCEPT !.request = neg.request]
    BY <1>2, HandlerMoves
  <2>2. server'.stage = server.stage /\ server'.out = server.out
    BY <2>1 DEF Servers
  <2>3. neg.request = "login_sent" =>
          /\ server'.request \in {"none", "login_sent"}
          /\ server'.request = "login_sent" => server.stage = "login_sent"
    BY <2>1 DEF ChoiceInv, LoginInv, Servers
  <2> QED
    BY <2>1, <2>2, <2>3 DEF ChoiceInv, LoginInv, PasswordInv, NoPassword
<1> QED
  BY <1>1, <1>2

\* The server's only answer with the choice of a password takes it to the stage
\* in which it expects one.
LEMMA ServerChoice ==
  ASSUME HInv, ChoiceInv, ServerAnswers \/ RequestLost
  PROVE  ChoiceInv'
<1>1. /\ phase = "negotiating" /\ phase' = "negotiating" /\ neg' = neg
      /\ neg \in Negotiations /\ server \in Servers /\ server.request # "none"
  <2>1. CASE ServerAnswers
    BY <2>1 DEF HInv, ServerAnswers, Negotiating, vars
  <2>2. CASE RequestLost
    BY <2>2 DEF HInv, RequestLost, RequestFails
  <2> QED
    BY <2>1, <2>2
<1>2. ~(neg.request = "password_sent" /\ neg.step = 1)
  BY <1>1 DEF ChoiceInv, PasswordInv
<1>3. neg.request = "login_sent" =>
        /\ server.request = "login_sent" /\ server.stage = "login_sent"
        /\ neg.step # 1 /\ neg.buf.ident[2] # UserPassword
        /\ NoPassword(server.out)
  BY <1>1 DEF ChoiceInv, LoginInv
<1>4. neg.request = "login_sent" =>
        /\ server'.request = "none"
        /\ server'.stage # "password_sent" => NoPassword(server'.out)
  <2> SUFFICES ASSUME neg.request = "login_sent"
               PROVE  /\ server'.request = "none"
                      /\ server'.stage # "password_sent" =>
                           NoPassword(server'.out)
    OBVIOUS
  <2>1. CASE server' = [server EXCEPT !.stage = "refused", !.request = "none"]
    BY <1>1, <1>3, <2>1 DEF Servers
  <2>2. CASE ServerAnswers /\ server.request = server.stage
    <3>1. PICK a \in Answers("login_sent") :
            server' = [stage |-> a[2], request |-> "none",
                       out |-> server.out \o a[1]]
      BY <1>3, <2>2 DEF ServerAnswers
    <3>2. a[2] # "password_sent" => a[1] \in {<<5, Refused>>, <<5, 0>>}
      BY <3>1 DEF Answers
    <3>3. server.out \in Seq(Int)
      BY <1>1 DEF Servers
    <3>4. ASSUME NEW s \in {<<5, Refused>>, <<5, 0>>}
          PROVE  NoPassword(server.out \o s)
      <4>1. /\ <<5, 255>> \in Seq(Int) /\ <<5, 0>> \in Seq(Int)
            /\ NoPassword(<<5, 255>>) /\ NoPassword(<<5, 0>>)
        BY DEF NoPassword, UserPassword
      <4>2. s \in Seq(Int) /\ NoPassword(s)
        BY <3>4, <4>1 DEF Refused
      <4> QED
        BY <1>3, <3>3, <4>2, ConcatNoPassword
    <3> QED
      BY <3>1, <3>2, <3>4
  <2> QED
    BY <2>1, <2>2 DEF ServerAnswers, RequestLost
<1> QED
  BY <1>1, <1>2, <1>3, <1>4 DEF ChoiceInv, LoginInv, PasswordInv

\* What arrives in the buffer is what was on its way, or what it held.
LEMMA ArrivalChoice ==
  ASSUME HInv, ChoiceInv, AnswerArrives \/ ReceiveFails
  PROVE  ChoiceInv'
<1>1. /\ neg \in Negotiations /\ server \in Servers
      /\ phase = "negotiating" /\ phase' = "negotiating" /\ neg.step = 0
      /\ Len(neg.buf.ident) = 2 /\ LoginInv /\ PasswordInv
  BY DEF HInv, ChoiceInv, AnswerArrives, ReceiveFails, Negotiating, vars
<1>2. CASE ReceiveFails
  <2>1. neg' = [neg EXCEPT !.recv = "failed"] /\ server' = server
    BY <1>2 DEF ReceiveFails
  <2>2. /\ neg'.request = neg.request /\ neg'.step = neg.step
        /\ neg'.buf = neg.buf /\ neg'.cred = neg.cred
    BY <1>1, <2>1 DEF Negotiations
  <2> QED
    BY <1>1, <2>1, <2>2 DEF ChoiceInv, LoginInv, PasswordInv, NoPassword
<1>3. CASE AnswerArrives
  <2> DEFINE b    == AnswerBuffer(neg.request)
             old  == neg.buf[b]
             sent == server.out
  <2>1. PICK k \in 1 .. Len(old) :
          /\ k <= Len(sent)
          /\ neg' = [neg EXCEPT !.recv = "done",
               !.buf[b] = SubSeq(sent, 1, k) \o SubSeq(old, k + 1, Len(old))]
          /\ server' = [server EXCEPT !.out = SubSeq(sent, k + 1, Len(sent))]
    BY <1>3 DEF AnswerArrives
  <2> DEFINE new  == SubSeq(sent, 1, k) \o SubSeq(old, k + 1, Len(old))
             rest == SubSeq(sent, k + 1, Len(sent))
  <2>2. /\ b \in {"ident", "connect"} /\ old \in Seq(Int) /\ sent \in Seq(Int)
        /\ neg.request # "connect_sent" => b = "ident"
        /\ b = "ident" => old = neg.buf.ident
    BY <1>1 DEF Negotiations, AnswerBuffer, Servers
  <2>3. Len(new) = Len(old) /\ new \in Seq(Int)
    <3>1. SubSeq(sent, 1, k) \in Seq(Int) /\ Len(SubSeq(sent, 1, k)) = k
      BY <2>1, <2>2, SMTT(30)
    <3>2. /\ SubSeq(old, k + 1, Len(old)) \in Seq(Int)
          /\ Len(SubSeq(old, k + 1, Len(old))) = Len(old) - k
      BY <2>1, <2>2, SMTT(30)
    <3> QED
      BY <2>1, <2>2, <3>1, <3>2, SMTT(30)
  <2>4. Len(old) = 2 => new[2] = old[2] \/ \E i \in 1 .. Len(sent) : new[2] = sent[i]
    <3> SUFFICES ASSUME Len(old) = 2
                 PROVE  new[2] = old[2] \/ \E i \in 1 .. Len(sent) : new[2] = sent[i]
      OBVIOUS
    <3>1. CASE k = 2
      <4>1. SubSeq(sent, 1, k) \in Seq(Int) /\ Len(SubSeq(sent, 1, k)) = 2
            /\ SubSeq(sent, 1, k)[2] = sent[2]
        BY <2>1, <2>2, <3>1
      <4>2. SubSeq(old, k + 1, Len(old)) \in Seq(Int)
        BY <2>1, <2>2
      <4>3. new[2] = sent[2] /\ 2 \in 1 .. Len(sent)
        BY <2>1, <2>2, <3>1, <4>1, <4>2
      <4> HIDE DEF new, sent, old
      <4> QED
        BY <4>3
    <3>2. CASE k = 1
      <4>1. SubSeq(sent, 1, k) \in Seq(Int) /\ Len(SubSeq(sent, 1, k)) = 1
        BY <2>1, <2>2, <3>2
      <4>2. /\ SubSeq(old, k + 1, Len(old)) \in Seq(Int)
            /\ Len(SubSeq(old, k + 1, Len(old))) = 1
            /\ SubSeq(old, k + 1, Len(old))[1] = old[2]
        BY <2>1, <2>2, <3>2
      <4> QED
        BY <4>1, <4>2
    <3> QED
      BY <2>1, <3>1, <3>2
  <2>5. NoPassword(sent) => NoPassword(rest)
    <3>1. k \in 1 .. Len(sent)
      BY <2>1, <2>2
    <3> HIDE DEF sent
    <3> QED
      BY <2>2, <3>1, RestNoPassword
  <2> HIDE DEF new, rest
  <2>6. neg' = [cred |-> neg.cred, state |-> neg.state, step |-> neg.step,
                request |-> neg.request, recv |-> "done",
                buf |-> [neg.buf EXCEPT ![b] = new]]
    BY <1>1, <2>1 DEF Negotiations, new
  <2>7. server'.stage = server.stage /\ server'.request = server.request
        /\ server'.out = rest
    BY <1>1, <2>1 DEF Servers, rest
  <2>8. /\ neg'.cred = neg.cred /\ neg'.request = neg.request
        /\ neg'.step = neg.step /\ neg'.buf = [neg.buf EXCEPT ![b] = new]
    <3> HIDE DEF b
    <3> QED
      BY <2>6
  <2>9. neg'.buf.ident = IF b = "ident" THEN new ELSE neg.buf.ident
    <3> HIDE DEF b
    <3> QED
      BY <1>1, <2>2, <2>8 DEF Negotiations
  <2>10. Len(neg'.buf.ident) = 2
    BY <1>1, <2>2, <2>3, <2>9
  <2>11. LoginInv'
    <3> SUFFICES ASSUME neg.request = "login_sent" PROVE LoginInv'
      BY <2>8 DEF LoginInv
    <3>1. b = "ident" /\ Len(old) = 2 /\ neg'.buf.ident = new
      BY <1>1, <2>2, <2>9
    <3>2. server.stage # "password_sent" =>
            /\ old[2] # UserPassword /\ NoPassword(sent)
      BY <1>1, <2>2, <3>1 DEF LoginInv
    <3>3. server.stage # "password_sent" => new[2] # UserPassword
      BY <2>4, <3>1, <3>2 DEF NoPassword
    <3> QED
      BY <1>1, <2>5, <2>7, <2>8, <3>1, <3>2, <3>3 DEF LoginInv
  <2> QED
    BY <1>1, <2>7, <2>8, <2>10, <2>11 DEF ChoiceInv, PasswordInv
<1> QED
  BY <1>2, <1>3

\* process_receive_negotiate_complete asks for the password only when the
\* buffer holds that choice and the proxy has username and password.
LEMMA AnswerChoice ==
  ASSUME HInv, ChoiceInv, \/ MethodAnswered \/ PasswordAnswered
                          \/ ConnectAnswered \/ DispatchReceiveFailure
  PROVE  ChoiceInv'
<1>1. phase = "negotiating" /\ neg \in Negotiations /\ server \in Servers
  BY DEF HInv, MethodAnswered, PasswordAnswered, ConnectAnswered, Negotiating,
         DispatchReceiveFailure, NegotiationFails
<1>2. ASSUME NEW r, NEW s, Makes(r, s)
      PROVE  /\ neg'.request = r /\ neg'.step = 1 /\ neg'.cred = neg.cred
             /\ neg'.buf = neg.buf /\ server' = server /\ phase' = phase
  BY <1>1, <1>2 DEF Makes, Negotiations, vars
<1>3. ASSUME NEW s, Makes("connect_sent", s) PROVE ChoiceInv'
  BY <1>1, <1>2, <1>3 DEF ChoiceInv, LoginInv, PasswordInv
<1>4. ASSUME phase' # "negotiating" PROVE ChoiceInv'
  BY <1>4 DEF ChoiceInv
<1>5. CASE MethodAnswered
  <2>1. CASE GivesUp
    BY <1>4, <2>1 DEF GivesUp, NegotiationFails
  <2>2. CASE Makes("connect_sent", "login_responded")
    BY <1>3, <2>2
  <2>3. CASE /\ Makes("password_sent", "login_responded")
             /\ ~MethodRefused(neg.buf.ident[2])
             /\ neg.buf.ident[2] = UserPassword
             /\ neg.recv = "done" /\ neg.state = "login_sent"
    <3>1. neg.request = "login_sent" /\ neg.cred = "good"
      BY <1>1, <2>3 DEF HInv, MethodRefused
    <3>2. server.stage = "password_sent" /\ server.request = "none"
      BY <1>1, <2>3, <3>1 DEF ChoiceInv, LoginInv
    <3> QED
      BY <1>1, <1>2, <2>3, <3>1, <3>2 DEF ChoiceInv, LoginInv, PasswordInv
  <2> QED
    BY <1>5, <2>1, <2>2, <2>3 DEF MethodAnswered
<1>6. CASE PasswordAnswered
  BY <1>3, <1>4, <1>6 DEF PasswordAnswered, GivesUp, NegotiationFails
<1>7. CASE ConnectAnswered \/ DispatchReceiveFailure
  BY <1>4, <1>7 DEF ConnectAnswered, DispatchReceiveFailure, GivesUp,
     NegotiationFails, StartLocal
<1> QED
  BY <1>5, <1>6, <1>7

\* A byte that chooses the password stands in the stream only after the server
\* was asked.
LEMMA NextChoice == HInv /\ ChoiceInv /\ [HNext]_allVars => ChoiceInv'
<1> SUFFICES ASSUME HInv, ChoiceInv, [HNext]_allVars PROVE ChoiceInv'
  OBVIOUS
<1>1. CASE Relays
  <2>1. neg' = neg /\ server' = server
    BY <1>1 DEF Relays, hsVars
  <2>2. phase' = "negotiating" <=> phase = "negotiating"
    BY <1>1, RelaysPhase
  <2> QED
    BY <2>1, <2>2 DEF ChoiceInv, LoginInv, PasswordInv, NoPassword
<1>2. CASE UNCHANGED allVars
  BY <1>2 DEF allVars, vars, hsVars, ChoiceInv, LoginInv, PasswordInv, NoPassword
<1> QED
  BY <1>1, <1>2, HandlerChoice, ServerChoice, ArrivalChoice, AnswerChoice
     DEF HNext

\* Username and password go to the wire only when the proxy has them and the
\* server has asked for them, in whatever pieces its answer came.
THEOREM HandshakePasswordOnlyIfChosen == HSpec => PasswordOnlyIfChosen
<1>1. HInv /\ ChoiceInv /\ [HNext]_allVars =>
        [server'.request = "password_sent" /\ server.request = "none"
           => /\ neg.cred = "good"
              /\ server.stage = "password_sent"]_allVars
  <2> SUFFICES ASSUME HInv, ChoiceInv, HNext,
                      server'.request = "password_sent",
                      server.request = "none"
               PROVE  neg.cred = "good" /\ server.stage = "password_sent"
    OBVIOUS
  <2>1. server' # server
    OBVIOUS
  <2>2. CASE SendRequest
    <3>1. phase = "negotiating" /\ neg.step > 0
      BY <2>2 DEF SendRequest, At, Negotiating
    <3>2. neg \in Negotiations /\ server \in Servers
      BY <3>1 DEF HInv
    <3>3. neg.step = 1 /\ neg.request = "password_sent"
      <4>1. neg.step \in 1 .. 3
        BY <3>1, <3>2 DEF Negotiations
      <4> QED
        BY <2>1, <2>2, <3>2, <4>1, HandlerFacts
           DEF SendRequest, At, Negotiations, Servers
    <3> QED
      BY <3>1, <3>3 DEF ChoiceInv, PasswordInv
  <2>3. CASE ServerAnswers \/ RequestLost
    BY <2>3 DEF ServerAnswers, RequestLost
  <2>4. CASE AnswerArrives
    <3>1. server \in Servers
      BY <2>4 DEF HInv, AnswerArrives, Negotiating
    <3> QED
      BY <2>4, <3>1 DEF AnswerArrives, Servers
  <2>5. CASE PostReceive \/ DispatchReceiveFailure \/ ConnectAnswered
    BY <2>1, <2>5 DEF PostReceive, DispatchReceiveFailure, ConnectAnswered,
       Forget, Forgotten, GivesUp
  <2>6. CASE MethodAnswered \/ PasswordAnswered
    BY <2>1, <2>6 DEF MethodAnswered, PasswordAnswered, GivesUp, Makes,
       Forget, Forgotten
  <2>7. CASE Remember \/ ReceiveFails \/ Relays
    BY <2>1, <2>7 DEF Remember, ReceiveFails, Relays, hsVars
  <2> QED
    BY <2>2, <2>3, <2>4, <2>5, <2>6, <2>7 DEF HNext
<1> QED
  BY <1>1, InitHInv, NextHInv, InitChoice, NextChoice, PTL
     DEF HSpec, PasswordOnlyIfChosen
-----------------------------------------------------------------------------
\* As long as no answer has come in pieces, what is on its way is the whole
\* answer to the last request or nothing, and nothing is left of it when it is
\* handled.
Drained == server.request = "none" /\ server.out = << >>

WholeInv ==
    /\ neg.recv = "done" \/ neg.step = 1 => Drained
    /\ server.request # "none" => /\ server.request = neg.request
                                  /\ server.out = << >>
    /\ server.out # << >> =>
         Len(server.out) = Len(neg.buf[AnswerBuffer(neg.request)])
    /\ neg.request = "connect_sent" =>
         /\ server.out # << >> /\ server.out[2] = 0 => server.stage = "granted"
         /\ neg.recv = "done" /\ neg.buf.connect[2] = 0 =>
              server.stage = "granted"

AnswersInv ==
    /\ split \in BOOLEAN
    /\ phase # "negotiating" => server = Forgotten.server
    /\ phase = "negotiating" =>
         /\ Len(neg.buf.ident) = 2 /\ Len(neg.buf.connect) = 3
         /\ ~split => WholeInv

\* Before the first request there is no answer.
LEMMA InitAnswers == HInit => AnswersInv
<1> SUFFICES ASSUME HInit PROVE AnswersInv
  OBVIOUS
<1>1. /\ phase = "negotiating" /\ split = FALSE
      /\ neg.buf = [ident |-> <<5, 0>>, connect |-> <<5, 0, 0>>]
      /\ neg.recv = "idle" /\ neg.request = "login_sent" /\ Drained
  BY DEF HInit, Init, Drained
<1>2. Len(neg.buf.ident) = 2 /\ Len(neg.buf.connect) = 3
  <2>1. neg.buf.ident = <<5, 0>> /\ neg.buf.connect = <<5, 0, 0>>
    BY <1>1
  <2> QED
    BY <2>1
<1> QED
  BY <1>1, <1>2 DEF AnswersInv, WholeInv, Drained

\* The negotiation has ended.
LEMMA ForgetAnswers ==
  ASSUME Forget, phase' # "negotiating"
  PROVE  AnswersInv'
BY DEF Forget, AnswersInv

\* The request of the handler finds nothing on its way.
LEMMA HandlerAnswers ==
  ASSUME HInv, AnswersInv, SendRequest \/ Remember \/ PostReceive
  PROVE  AnswersInv'
<1>1. CASE PostReceive /\ NegotiationFails
  <2>1. Forget
    BY <1>1 DEF PostReceive, NegotiationFails, vars
  <2> QED
    BY <1>1, <2>1, ForgetAnswers DEF NegotiationFails
<1>2. CASE ~(PostReceive /\ NegotiationFails)
  <2>1. /\ phase = "negotiating" /\ phase' = phase /\ split' = split
        /\ neg \in Negotiations /\ server \in Servers
        /\ neg'.request = neg.request /\ neg'.buf = neg.buf
        /\ neg'.step # 1 /\ neg'.recv # "done"
        /\ \/ server' = server
           \/ neg.step = 1 /\ server' = [server EXCEPT !.request = neg.request]
    BY <1>2, HandlerMoves
  <2>2. CASE server' = server
    BY <2>1, <2>2 DEF AnswersInv, WholeInv, Drained
  <2>3. CASE neg.step = 1 /\ server' = [server EXCEPT !.request = neg.request]
    <3>1. server'.request = neg.request /\ server'.out = server.out
      BY <2>1, <2>3 DEF Servers
    <3>2. ~split => server.out = << >>
      BY <2>1, <2>3 DEF AnswersInv, WholeInv, Drained
    <3> QED
      BY <2>1, <3>1, <3>2 DEF AnswersInv, WholeInv, Drained
  <2> QED
    BY <2>1, <2>2, <2>3
<1> QED
  BY <1>1, <1>2

\* The server sends the whole answer, and grants the connection only when it
\* says so.
LEMMA ServerAnswersWhole ==
  ASSUME HInv, AnswersInv, ServerAnswers \/ RequestLost
  PROVE  AnswersInv'
<1>1. /\ phase = "negotiating" /\ phase' = "negotiating" /\ neg' = neg
      /\ split' = split
      /\ neg \in Negotiations /\ server \in Servers /\ server.request # "none"
  <2>1. CASE ServerAnswers
    BY <2>1 DEF HInv, ServerAnswers, Negotiating, vars
  <2>2. CASE RequestLost
    BY <2>2 DEF HInv, RequestLost, RequestFails
  <2> QED
    BY <2>1, <2>2
<1>2. ASSUME ~split PROVE WholeInv'
  <2>1. /\ server.request = neg.request /\ server.out = << >>
        /\ neg.recv # "done" /\ neg.step # 1
    BY <1>1, <1>2 DEF AnswersInv, WholeInv, Drained
  <2>2. CASE server' = [server EXCEPT !.stage = "refused", !.request = "none"]
    <3>1. server'.request = "none" /\ server'.out = << >>
      BY <1>1, <2>1, <2>2 DEF Servers
    <3> QED
      BY <1>1, <2>1, <3>1 DEF WholeInv
  <2>3. CASE ServerAnswers /\ server.request = server.stage
    <3>1. PICK a \in Answers(neg.request) :
            server' = [stage |-> a[2], request |-> "none",
                       out |-> server.out \o a[1]]
      BY <2>1, <2>3 DEF ServerAnswers
    <3>2. neg.request \in Requests
      BY <1>1 DEF Negotiations
    <3>3. /\ a[1] \in Seq(Int)
          /\ Len(a[1]) = IF neg.request = "connect_sent" THEN 3 ELSE 2
          /\ neg.request = "connect_sent" /\ a[1][2] = 0 => a[2] = "granted"
      <4>1. CASE neg.request = "login_sent"
        <5>1. a[1] \in {<<5, 255>>, <<5, 0>>, <<5, 2>>}
          BY <3>1, <4>1 DEF Answers, Refused, UserPassword
        <5>2. /\ <<5, 255>> \in Seq(Int) /\ Len(<<5, 255>>) = 2
              /\ <<5, 0>> \in Seq(Int) /\ Len(<<5, 0>>) = 2
              /\ <<5, 2>> \in Seq(Int) /\ Len(<<5, 2>>) = 2
          OBVIOUS
        <5>3. a[1] \in Seq(Int) /\ Len(a[1]) = 2
          BY <5>1, <5>2
        <5> QED
          BY <4>1, <5>3
      <4>2. CASE neg.request = "password_sent"
        <5>1. a[1] \in {<<1, 0>>, <<1, 1>>}
          BY <3>1, <4>2 DEF Answers
        <5>2. /\ <<1, 0>> \in Seq(Int) /\ Len(<<1, 0>>) = 2
              /\ <<1, 1>> \in Seq(Int) /\ Len(<<1, 1>>) = 2
          OBVIOUS
        <5>3. a[1] \in Seq(Int) /\ Len(a[1]) = 2
          BY <5>1, <5>2
        <5> QED
          BY <4>2, <5>3
      <4>3. CASE neg.request = "connect_sent"
        <5>1. \/ a[1] = <<5, 0, 0>> /\ a[2] = "granted"
              \/ a[1] = <<5, 1, 0>>
          BY <3>1, <4>3 DEF Answers
        <5>2. /\ <<5, 0, 0>> \in Seq(Int) /\ Len(<<5, 0, 0>>) = 3
              /\ <<5, 1, 0>> \in Seq(Int) /\ Len(<<5, 1, 0>>) = 3
              /\ <<5, 1, 0>>[2] # 0
          OBVIOUS
        <5>3. /\ a[1] \in Seq(Int) /\ Len(a[1]) = 3
              /\ a[1][2] = 0 => a[2] = "granted"
          BY <5>1, <5>2
        <5> QED
          BY <4>3, <5>3
      <4> QED
        BY <3>2, <4>1, <4>2, <4>3 DEF Requests
    <3>4. /\ server'.request = "none" /\ server'.stage = a[2]
          /\ server'.out = a[1]
      BY <2>1, <3>1, <3>3
    <3>5. Len(neg.buf[AnswerBuffer(neg.request)]) =
            IF neg.request = "connect_sent" THEN 3 ELSE 2
      BY <1>1 DEF AnswersInv, AnswerBuffer
    <3> QED
      BY <1>1, <2>1, <3>3, <3>4, <3>5 DEF WholeInv
  <2> QED
    BY <2>2, <2>3 DEF ServerAnswers, RequestLost
<1> QED
  BY <1>1, <1>2 DEF AnswersInv

\* An answer that comes whole leaves nothing behind.
LEMMA ArrivalAnswers ==
  ASSUME HInv, AnswersInv, AnswerArrives \/ ReceiveFails
  PROVE  AnswersInv'
<1>1. /\ neg \in Negotiations /\ server \in Servers
      /\ phase = "negotiating" /\ phase' = "negotiating" /\ neg.step = 0
      /\ Len(neg.buf.ident) = 2 /\ Len(neg.buf.connect) = 3
      /\ split \in BOOLEAN /\ neg.recv # "done"
  BY DEF HInv, AnswersInv, AnswerArrives, ReceiveFails, Negotiating, vars
<1>2. CASE ReceiveFails
  <2>1. /\ neg' = [neg EXCEPT !.recv = "failed"] /\ server' = server
        /\ split' = split
    BY <1>2 DEF ReceiveFails
  <2>2. /\ neg'.request = neg.request /\ neg'.step = neg.step
        /\ neg'.buf = neg.buf /\ neg'.recv = "failed"
    BY <1>1, <2>1 DEF Negotiations
  <2> QED
    BY <1>1, <2>1, <2>2 DEF AnswersInv, WholeInv, Drained
<1>3. CASE AnswerArrives
  <2> DEFINE b    == AnswerBuffer(neg.request)
             old  == neg.buf[b]
             sent == server.out
  <2>1. PICK k \in 1 .. Len(old) :
          /\ k <= Len(sent)
          /\ neg' = [neg EXCEPT !.recv = "done",
               !.buf[b] = SubSeq(sent, 1, k) \o SubSeq(old, k + 1, Len(old))]
          /\ server' = [server EXCEPT !.out = SubSeq(sent, k + 1, Len(sent))]
          /\ split' = (split \/ k < Len(old))
    BY <1>3 DEF AnswerArrives
  <2> DEFINE new  == SubSeq(sent, 1, k) \o SubSeq(old, k + 1, Len(old))
             rest == SubSeq(sent, k + 1, Len(sent))
  <2>2. /\ b = IF neg.request = "connect_sent" THEN "connect" ELSE "ident"
        /\ old \in Seq(Int) /\ sent \in Seq(Int)
    BY <1>1 DEF Negotiations, AnswerBuffer, Servers
  <2>3. /\ Len(new) = Len(old) /\ new \in Seq(Int)
        /\ k = 3 => new[2] = sent[2]
    <3>1. /\ SubSeq(sent, 1, k) \in Seq(Int) /\ Len(SubSeq(sent, 1, k)) = k
          /\ k = 3 => SubSeq(sent, 1, k)[2] = sent[2]
      BY <2>1, <2>2, SMTT(30)
    <3>2. /\ SubSeq(old, k + 1, Len(old)) \in Seq(Int)
          /\ Len(SubSeq(old, k + 1, Len(old))) = Len(old) - k
      BY <2>1, <2>2, SMTT(30)
    <3> QED
      BY <2>1, <2>2, <3>1, <3>2, SMTT(30)
  <2>4. Len(sent) = k => rest = << >>
    BY <2>1, <2>2
  <2>5. sent # << >> /\ Len(old) \in Nat
    BY <2>1, <2>2
  <2> HIDE DEF new, rest
  <2>6. neg' = [cred |-> neg.cred, state |-> neg.state, step |-> neg.step,
                request |-> neg.request, recv |-> "done",
                buf |-> [neg.buf EXCEPT ![b] = new]]
    BY <1>1, <2>1 DEF Negotiations, new
  <2>7. /\ server'.stage = server.stage /\ server'.request = server.request
        /\ server'.out = rest
    BY <1>1, <2>1 DEF Servers, rest
  <2>8. /\ neg'.request = neg.request /\ neg'.recv = "done"
        /\ neg'.step = neg.step /\ neg'.buf = [neg.buf EXCEPT ![b] = new]
    <3> HIDE DEF b
    <3> QED
      BY <2>6
  <2>9. /\ neg'.buf.ident = IF b = "ident" THEN new ELSE neg.buf.ident
        /\ neg'.buf.connect = IF b = "connect" THEN new ELSE neg.buf.connect
    <3> HIDE DEF b
    <3> QED
      BY <1>1, <2>2, <2>8 DEF Negotiations
  <2>10. Len(neg'.buf.ident) = 2 /\ Len(neg'.buf.connect) = 3
    BY <1>1, <2>2, <2>3, <2>9
  <2>11. split' \in BOOLEAN
    BY <2>1
  <2>12. ASSUME ~split' PROVE WholeInv'
    <3>1. ~split /\ k = Len(old)
      <4>1. ~split /\ ~(k < Len(old))
        <5> HIDE DEF old
        <5> QED
          BY <2>1, <2>12, Zenon
      <4> HIDE DEF old
      <4> QED
        BY <2>5, <4>1
    <3>2. WholeInv
      BY <1>1, <3>1 DEF AnswersInv
    <3>3. server.request = "none" /\ Len(sent) = Len(old)
      BY <2>5, <3>2 DEF WholeInv
    <3>4. server'.request = "none" /\ server'.out = << >>
      BY <2>4, <2>7, <3>1, <3>3
    <3>5. ASSUME neg.request = "connect_sent", neg'.buf.connect[2] = 0
          PROVE  server.stage = "granted"
      <4>1. k = 3 /\ neg'.buf.connect = new
        BY <1>1, <2>2, <2>9, <3>1, <3>5
      <4>2. sent[2] = 0
        BY <2>3, <3>5, <4>1
      <4> QED
        BY <2>5, <3>2, <3>5, <4>2 DEF WholeInv
    <3> QED
      BY <2>7, <2>8, <3>4, <3>5 DEF WholeInv, Drained
  <2> QED
    BY <1>1, <2>10, <2>11, <2>12 DEF AnswersInv
<1> QED
  BY <1>2, <1>3

\* The next request is made when nothing is left of the answer.
LEMMA AnswerAnswers ==
  ASSUME HInv, AnswersInv, \/ MethodAnswered \/ PasswordAnswered
                           \/ ConnectAnswered \/ DispatchReceiveFailure
  PROVE  AnswersInv'
<1>1. phase = "negotiating" /\ neg \in Negotiations /\ server \in Servers
  BY DEF HInv, MethodAnswered, PasswordAnswered, ConnectAnswered, Negotiating,
         DispatchReceiveFailure, NegotiationFails
<1>2. ASSUME NEW r, NEW s, Makes(r, s), neg.recv = "done" PROVE AnswersInv'
  <2>1. /\ neg'.request = r /\ neg'.step = 1 /\ neg'.recv = "idle"
        /\ neg'.buf = neg.buf /\ server' = server /\ phase' = phase
        /\ split' = split
    BY <1>1, <1>2 DEF Makes, Negotiations, vars
  <2>2. ~split => Drained
    BY <1>1, <1>2 DEF AnswersInv, WholeInv
  <2> QED
    BY <1>1, <2>1, <2>2 DEF AnswersInv, WholeInv, Drained
<1>3. ASSUME GivesUp PROVE AnswersInv'
  BY <1>3, ForgetAnswers DEF GivesUp, NegotiationFails
<1>4. ASSUME StartLocal, Forget PROVE AnswersInv'
  BY <1>4, ForgetAnswers DEF StartLocal
<1>5. CASE MethodAnswered
  BY <1>2, <1>3, <1>5 DEF MethodAnswered
<1>6. CASE PasswordAnswered
  BY <1>2, <1>3, <1>6 DEF PasswordAnswered
<1>7. CASE ConnectAnswered
  BY <1>3, <1>4, <1>7 DEF ConnectAnswered
<1>8. CASE DispatchReceiveFailure
  BY <1>3, <1>8 DEF DispatchReceiveFailure, GivesUp
<1> QED
  BY <1>5, <1>6, <1>7, <1>8

\* An answer that comes whole is answered by whole answers only.
LEMMA NextAnswers == HInv /\ AnswersInv /\ [HNext]_allVars => AnswersInv'
<1> SUFFICES ASSUME HInv, AnswersInv, [HNext]_allVars PROVE AnswersInv'
  OBVIOUS
<1>1. CASE Relays
  <2>1. neg' = neg /\ server' = server /\ split' = split
    BY <1>1 DEF Relays, hsVars
  <2>2. phase' = "negotiating" <=> phase = "negotiating"
    BY <1>1, RelaysPhase
  <2> QED
    BY <2>1, <2>2 DEF AnswersInv, WholeInv, Drained
<1>2. CASE UNCHANGED allVars
  BY <1>2 DEF allVars, vars, hsVars, AnswersInv, WholeInv, Drained
<1> QED
  BY <1>1, <1>2, HandlerAnswers, ServerAnswersWhole, ArrivalAnswers,
     AnswerAnswers DEF HNext

\* The relay starts only with a connection that the server has granted, and
\* with none of its answer left for the relay to take for data, as long as the
\* answers came whole.
THEOREM HandshakeRelayOnlyIfGranted == HSpec => RelayOnlyIfGranted
<1>1. HInv /\ AnswersInv /\ [HNext]_allVars =>
        [phase = "negotiating" /\ phase' = "starting" /\ ~split
           => server.stage = "granted" /\ server.out = << >>]_allVars
  <2> SUFFICES ASSUME HInv, AnswersInv, HNext, phase = "negotiating",
                      phase' = "starting", ~split
               PROVE  server.stage = "granted" /\ server.out = << >>
    OBVIOUS
  <2>1. neg \in Negotiations /\ WholeInv
    BY DEF HInv, AnswersInv
  <2>2. CASE ConnectAnswered
    <3>1. /\ neg.recv = "done" /\ neg.state = "connect_sent"
          /\ neg.buf.connect[2] = 0
      BY <2>2 DEF ConnectAnswered, GivesUp, NegotiationFails
    <3>2. neg.request = "connect_sent"
      BY <2>1, <3>1 DEF HInv
    <3> QED
      BY <2>1, <3>1, <3>2 DEF WholeInv, Drained
  <2>3. CASE \/ MethodAnswered \/ PasswordAnswered \/ DispatchReceiveFailure
             \/ PostReceive
    BY <2>3 DEF MethodAnswered, PasswordAnswered, DispatchReceiveFailure,
       PostReceive, GivesUp, NegotiationFails, Makes, vars
  <2>4. CASE SendRequest \/ Remember
    BY <2>4 DEF SendRequest, Remember, vars
  <2>5. CASE ServerAnswers \/ RequestLost \/ AnswerArrives \/ ReceiveFails
    BY <2>5 DEF ServerAnswers, RequestLost, RequestFails, AnswerArrives,
       ReceiveFails, vars
  <2>6. CASE Relays
    BY <2>6, RelaysPhase
  <2> QED
    BY <2>2, <2>3, <2>4, <2>5, <2>6 DEF HNext
<1> QED
  BY <1>1, InitHInv, NextHInv, InitAnswers, NextAnswers, PTL
     DEF HSpec, RelayOnlyIfGranted

\* The negotiation's state has its type until the negotiation is over and is
\* then never looked at again, and the buffers keep their lengths; the sockets,
\* the WSABUFs and their operations have theirs throughout.
THEOREM HandshakeTypes == HSpec => []HTypeOK
<1>1. HSpec => []TypeOK
  BY HandshakeImplementsConnection, ConnectionTypes DEF ImplementsTcpProxySocket
<1>2. HInv /\ AnswersInv /\ TypeOK => HTypeOK
  <2> SUFFICES ASSUME HInv, AnswersInv, TypeOK PROVE HTypeOK
    OBVIOUS
  <2>1. CASE phase = "negotiating"
    BY <2>1, HandlerFacts
       DEF HInv, AnswersInv, HTypeOK, Negotiations, Servers
  <2>2. CASE phase # "negotiating"
    <3>1. neg = Forgotten.neg /\ server = Forgotten.server
      BY <2>2 DEF HInv, AnswersInv
    <3>2. /\ neg.recv = "idle" /\ neg.step = 0
          /\ server.stage = "over" /\ server.request = "none"
      BY <3>1 DEF Forgotten
    <3> QED
      BY <2>2, <3>1, <3>2, HandlerFacts DEF AnswersInv, HTypeOK
  <2> QED
    BY <2>1, <2>2
<1> QED
  BY <1>1, <1>2, InitHInv, NextHInv, InitAnswers, NextAnswers, PTL DEF HSpec
=============================================================================
