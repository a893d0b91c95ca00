----------------------------- MODULE MCUdpProxy -----------------------------
(***************************************************************************)
(* UdpProxy for model checking: a listed program with two sockets, bound in *)
(* either way.  One of them is then closed, and its port taken by another  *)
(* program or by the same one.                                             *)
(***************************************************************************)
EXTENDS UdpProxy

CONSTANTS app, other

\* Port 2 is this program's, bound in another way, or another's, or nobody's.
BindingsOfPorts ==
    {1 :> <<AnyAddress, app>> @@ 2 :> b :
        b \in {<<Home, app>>, <<AnyAddress, other>>, Unbound}}

\* Bound: once a port has changed hands, no minutes pass, no answers come and
\* stop() is not called; none of these looks at whose a port is.
PortsChangeAlone ==
    count.rebinds > 0 =>
        count.ticks = 0 /\ count.answers = 0 /\ phase = "running"

MCInit == Init /\ bound[2] = <<Home, app>>

MCSpec == MCInit /\ [][Next /\ PortsChangeAlone']_vars /\ Fairness
=============================================================================
