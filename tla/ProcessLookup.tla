--------------------------- MODULE ProcessLookup ---------------------------
(***************************************************************************)
(* process_lookup: which process a TCP session or a UDP endpoint belongs   *)
(* to.  The tables are copies of the system's, taken when something is not *)
(* found in them; until then a session keeps the process it had when the   *)
(* copy was taken.  A table here is a function from the sessions it has.   *)
(***************************************************************************)
EXTENDS Naturals

CONSTANT NoProcess    \* a null pointer

EmptyTable == << >>

\* initialize_tcp_table and initialize_udp_table: the old table is cleared
\* first, so that it is empty if the system does not answer.
Actualize(system, ok) == IF ok THEN system ELSE EmptyTable

\* A slip that the properties must catch: the old entries survive.
Lookup_Endpoint(table, s) ==
    LET same == {k \in DOMAIN table : k[1] = s[1]}
    IN IF same = {} THEN NoProcess ELSE table[CHOOSE k \in same : TRUE]

\* lookup_process_for_tcp<false>
Lookup(table, s) == IF s \in DOMAIN table THEN table[s] ELSE NoProcess

AnyAddress == "any"

\* A slip in LookupUdp: endpoints bound to all addresses are not looked for.
LookupUdp_Exact(table, e) == Lookup(table, e)

\* lookup_process_for_udp<false>: also the endpoint bound to all addresses.
LookupUdp(table, e) ==
    IF e \in DOMAIN table THEN table[e] ELSE Lookup(table, <<AnyAddress, e[2]>>)

Find(protocol, table, s) == IF protocol = "tcp" THEN Lookup(table, s)
                                                ELSE LookupUdp(table, s)

\* What the packet callback does: look up, actualize, look up again and keep
\* the default process if that fails, too.
Resolve(protocol, table, s, system, ok, default) ==
    IF Find(protocol, table, s) # NoProcess
    THEN [process |-> Find(protocol, table, s), table |-> table]
    ELSE LET fresh == Actualize(system, ok)
             found == Find(protocol, fresh, s)
         IN IF found # NoProcess
            THEN [process |-> found, table |-> fresh]
            ELSE [process |-> default,
                  table |-> [k \in DOMAIN fresh \cup {s} |->
                                IF k = s THEN default ELSE fresh[k]]]
=============================================================================
