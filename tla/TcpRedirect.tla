---------------------------- MODULE TcpRedirect ----------------------------
(***************************************************************************)
(* tcp_local_redirect: the table of redirected connections and the two     *)
(* translations.  The key is the peer's address and the client's port, the *)
(* entry holds the peer's port and the age of its last packet: 0 or 1 in   *)
(* units of 2.5 minutes, or Expired when more than 5 minutes have passed.  *)
(*                                                                         *)
(* A packet has a protocol, addresses, ports and a flag; the fields that   *)
(* the properties do not tell apart are left out.  A translation returns   *)
(* the table, the packet and whether it was done.                          *)
(***************************************************************************)
EXTENDS Naturals

Expired == 2

Put(t, k, e) == [x \in DOMAIN t \cup {k} |-> IF x = k THEN e ELSE t[x]]
Drop(t, k)   == [x \in DOMAIN t \ {k} |-> t[x]]

Result(done, t, p) == [done |-> done, table |-> t, packet |-> p]

\* FIN and RST end the entry, every other packet of the connection refreshes it.
Touch(t, k, flag) == IF flag = "fin" THEN Drop(t, k)
                     ELSE [t EXCEPT ![k].age = 0]

\* A slip in ServerToClient: the peer is found by the port alone.
ServerToClient_ByPort(t, p) ==
    LET ks == {k \in DOMAIN t : k[2] = p.dport} IN
    IF ks = {} THEN Result(FALSE, t, p)
    ELSE LET k == CHOOSE k \in ks : TRUE IN
         Result(TRUE, Touch(t, k, p.flag),
                [p EXCEPT !.src = k[1], !.dst = p.src, !.sport = t[k].port])

\* process_client_to_server_packet: the packet is sent back to this machine as
\* if the peer had sent it, to the local proxy's port.  A SYN whose key is in
\* the table already is not translated.
ClientToServer(t, p, port) ==
    LET k == <<p.dst, p.sport>>
        translated == [p EXCEPT !.src = p.dst, !.dst = p.src, !.dport = port]
    IN IF p.flag = "syn"
       THEN IF k \in DOMAIN t THEN Result(FALSE, t, p)
            ELSE Result(TRUE, Put(t, k, [port |-> p.dport, age |-> 0]),
                        translated)
       ELSE IF k \notin DOMAIN t THEN Result(FALSE, t, p)
            ELSE Result(TRUE, Touch(t, k, p.flag), translated)

\* process_server_to_client_packet
ServerToClient(t, p) ==
    LET k == <<p.dst, p.dport>> IN
    IF k \notin DOMAIN t THEN Result(FALSE, t, p)
    ELSE Result(TRUE, Touch(t, k, p.flag),
                [p EXCEPT !.src = p.dst, !.dst = p.src, !.sport = t[k].port])

\* 2.5 minutes pass.
Age(t) == [k \in DOMAIN t |-> [t[k] EXCEPT !.age = IF @ < Expired THEN @ + 1
                                                                  ELSE @]]

\* A slip in the next definition: half the time.
Cleanup_Early(t) == [k \in {k \in DOMAIN t : t[k].age < 1} |-> t[k]]

\* The cleanup thread erases, once a second, what has been idle for 5 minutes.
Cleanup(t) == [k \in {k \in DOMAIN t : t[k].age < Expired} |-> t[k]]
=============================================================================
