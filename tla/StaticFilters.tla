--------------------------- MODULE StaticFilters ---------------------------
(***************************************************************************)
(* static_filters: the filters the router stores in the driver, which      *)
(* decide on a packet before it is redirected to the program.  A field of  *)
(* a filter that is not set is Unset; the driver compares the fields its     *)
(* STATIC_FILTER declares valid and takes the first entry that fits.       *)
(***************************************************************************)
EXTENDS Sequences, Naturals

CONSTANT Unset

\* filter<T>: everything unset, both directions, action pass.
NewFilter == [protocol |-> Unset, direction |-> "both", action |-> "pass",
              address |-> Unset, port |-> Unset]

Directions(d) == IF d = "both" THEN {"in", "out"} ELSE {d}

\* A slip that the properties must catch: one layer's fields are not declared.
ToStaticFilter_NoTransport(f) ==
    [flags |-> Directions(f.direction), action |-> f.action,
     valid |-> IF f.address # Unset \/ f.protocol # Unset
               THEN {"network"} ELSE {},
     filter |-> f]

\* to_static_filter, and what of it the driver will compare: the network layer
\* if an address or the protocol is set, the transport layer if a port is.
ToStaticFilter(f) ==
    [flags |-> Directions(f.direction), action |-> f.action,
     valid |-> (IF f.address # Unset \/ f.protocol # Unset
                THEN {"network"} ELSE {})
                   \cup (IF f.port # Unset THEN {"transport"} ELSE {}),
     filter |-> f]

AddFilterBack(table, f) == Append(table, ToStaticFilter(f))

\* One call for each filter of a sequence.
AddFiltersBack(table, fs) == table \o [k \in DOMAIN fs |-> ToStaticFilter(fs[k])]

\* The driver: does an entry fit the packet?
Fits(e, direction, packet) ==
    LET Eq(field, value) == field \in {Unset, value} IN
    /\ direction \in e.flags
    /\ "network" \in e.valid => /\ Eq(e.filter.protocol, packet.protocol)
                                /\ Eq(e.filter.address, packet.dst)
    /\ "transport" \in e.valid => Eq(e.filter.port, packet.dport)

First(places) == CHOOSE i \in places : \A j \in places : i <= j

\* The driver: the first entry that fits decides, otherwise the packet is
\* redirected to the program.
Verdict(table, direction, packet) ==
    LET fitting == {i \in DOMAIN table : Fits(table[i], direction, packet)}
    IN IF fitting = {} THEN "redirect"
       ELSE table[First(fitting)].action
=============================================================================
