-------------------------- MODULE MCRouterRedirect --------------------------
(***************************************************************************)
(* An instance of RouterRedirect: a proxy for TCP and one for UDP, an      *)
(* input the dialog refuses and one that does not resolve, two peers, one  *)
(* of them on the host of a SOCKS server, and one client port.             *)
(***************************************************************************)
EXTENDS RouterRedirect

CONSTANTS app, other

Input(ip, tcp, udp) == [ip |-> ip, port |-> "1080", tcp |-> tcp, udp |-> udp]

MCInputs == {Input("socks1", TRUE, FALSE), Input("socks2", FALSE, TRUE),
             Input("0.0.0.0", TRUE, FALSE), Input("socks1", FALSE, FALSE)}
MCUnresolvable == {"0.0.0.0"}
MCFilters == {{app}}
MCPeers == {"peer", "socks1"}
MCPorts == {"p"}
MCTcpPorts == <<"tcp1", "tcp2">>
MCUdpPorts == <<"udp1", "udp2">>
=============================================================================
