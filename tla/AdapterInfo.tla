---------------------------- MODULE AdapterInfo -----------------------------
(***************************************************************************)
(* network_adapter_info and update_network_configuration: what the router  *)
(* reads of a network adapter, when two readings are the same, and which   *)
(* interface of the filter belongs to it.  A reading has the adapter's     *)
(* luid, whether it is up, a loopback, a PPP connection, and the sequence  *)
(* of its unicast addresses.  An interface has the luid of its adapter and *)
(* the addresses of the PPP connections it carries.                        *)
(***************************************************************************)
EXTENDS Integers, Sequences

CONSTANTS Adapters,      \* readings
          NoAdapter,     \* no route to 1.1.1.1
          Interfaces     \* the filter's network_interfaces_, a sequence

Elements(s) == {s[i] : i \in DOMAIN s}

\* The type of an adapter is part of its luid; the system lists the addresses of
\* an adapter, each once.
ASSUME AdapterAssumption ==
    /\ NoAdapter \notin Adapters
    /\ \A a, b \in Adapters : a.luid = b.luid => a.ppp = b.ppp
    /\ \A a \in Adapters :
         /\ a.addresses \in Seq(Elements(a.addresses))
         /\ \A i, j \in DOMAIN a.addresses :
              a.addresses[i] = a.addresses[j] => i = j

NoInterface == 0

\* get_external_network_connections
External(a) == a.addresses # << >> /\ a.up /\ ~a.loopback

\* get_best_interface: a is the adapter that the system routes through.
BestInterface(a) == IF a \in Adapters /\ External(a) THEN a ELSE NoAdapter

\* operator== and is_same_address_info<false>
SameAdapter(a, b) == a.luid = b.luid
SameAddressInfo(a, b) == /\ Len(a.addresses) = Len(b.addresses)
                         /\ Elements(b.addresses) \subseteq Elements(a.addresses)

HasAddress(a, address) == address \in Elements(a.addresses)

\* A PPP connection has no interface of its own name.
Matches(i, a) ==
    IF a.ppp THEN \E link \in Interfaces[i].links : HasAddress(a, link)
             ELSE Interfaces[i].luid = a.luid

Matching(a) == {i \in DOMAIN Interfaces : Matches(i, a)}

\* if_index_ as update_network_configuration leaves it, counted from 1: the first
\* that matches; or NoInterface, when it returns false.
FindInterface(a) == IF a = NoAdapter \/ Matching(a) = {} THEN NoInterface
                    ELSE CHOOSE i \in Matching(a) : \A j \in Matching(a) : i <= j
=============================================================================
