---------------------------- MODULE UdpRedirect -----------------------------
(***************************************************************************)
(* socks5_udp_local_redirect: the ports of redirected UDP clients with the *)
(* age of their last datagram, in units of 2.5 minutes.  Datagrams to the  *)
(* local proxy get the header of the SOCKS protocol in front of the        *)
(* payload, answers lose it.  A datagram has the port of its client, a     *)
(* length and a mark whether it is a fragment.                             *)
(***************************************************************************)
EXTENDS Naturals

HeaderLength == 10       \* sizeof(socks5_udp_header)
EndpointExpired == 6     \* 15 minutes

Refresh(endpoints, port) ==
    [p \in DOMAIN endpoints \cup {port} |->
        IF p = port THEN 0 ELSE endpoints[p]]

\* is_new_endpoint; the caller registers the port, a fragment's, too.
IsNewEndpoint(endpoints, port) == port \notin DOMAIN endpoints

Refused(endpoints, d) == d.fragment \/ d.port \notin DOMAIN endpoints

\* process_client_to_server_packet
ClientToServer(endpoints, d) ==
    IF Refused(endpoints, d)
    THEN [done |-> FALSE, endpoints |-> endpoints, datagram |-> d]
    ELSE [done |-> TRUE, endpoints |-> Refresh(endpoints, d.port),
          datagram |-> [d EXCEPT !.length = @ + HeaderLength]]

\* process_server_to_client_packet
ServerToClient(endpoints, d) ==
    IF Refused(endpoints, d)
    THEN [done |-> FALSE, endpoints |-> endpoints, datagram |-> d]
    ELSE [done |-> TRUE, endpoints |-> Refresh(endpoints, d.port),
          datagram |-> [d EXCEPT !.length = @ - HeaderLength]]

\* Two and a half minutes pass.
AgeEndpoints(endpoints) ==
    [p \in DOMAIN endpoints |-> IF endpoints[p] < EndpointExpired
                                THEN endpoints[p] + 1 ELSE endpoints[p]]

\* The cleanup thread, every 5 seconds.
CleanupEndpoints(endpoints) ==
    [p \in {p \in DOMAIN endpoints : endpoints[p] < EndpointExpired} |->
        endpoints[p]]
=============================================================================
