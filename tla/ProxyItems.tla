----------------------------- MODULE ProxyItems -----------------------------
(***************************************************************************)
(* The main window's list of proxies and what "Start" makes of it:         *)
(* processProxyItems creates one pair of local proxy servers per item in a *)
(* new router and attaches the item's filters to it, by the number the     *)
(* router returns.  An item may fail and is then skipped, so that numbers  *)
(* and rows differ.  The list may be edited while the router runs; edits   *)
(* take effect at the next start.                                          *)
(*                                                                         *)
(* A process filter is the set of processes it matches: none for           *)
(* NoneFilter, all for AllFilter, those with the name or the identifier    *)
(* for the others.                                                         *)
(***************************************************************************)
EXTENDS StaticFilters, SequencesExt

CONSTANTS Inputs,        \* what the user may enter in the proxy dialog
          Filters,       \* process filters the user may choose
          Processes,     \* processes that use the network
          Self,          \* this program
          System,        \* the process assumed when none is found
          Unresolvable,  \* addresses that parse_endpoint rejects
          TcpPorts, UdpPorts,   \* the ports the n-th local servers listen on
          MaxItems, MaxEdits, MaxStarts     \* bounds

ASSUME ItemsAssumption ==
    /\ Self \notin Processes /\ System \notin Processes /\ Self # System
    /\ \A f \in Filters : f \subseteq Processes \cup {Self, System}
    /\ \A i \in Inputs : /\ DOMAIN i = {"ip", "port", "tcp", "udp"}
                          /\ Unset \notin {i.ip, i.port}
    /\ Unset \notin {"tcp", "udp", "icmp"}
    /\ {Len(TcpPorts), Len(UdpPorts)} \subseteq {n \in Nat : n >= MaxItems}
    /\ MaxItems \in Nat /\ MaxEdits \in Nat /\ MaxStarts \in Nat

AllFilter == Processes \cup {Self, System}

VARIABLES
    list,      \* proxyList, a sequence of items
    started,   \* m_Started
    router,    \* the router's static filters, servers and their filters
    shown,     \* ghost: the list when the router was started
    edits, starts

uiVars == <<list, started, router, shown, edits, starts>>

\* QProxyItem(): what is wrong with an input, in the order of the tests.
ItemError(i) ==
    CASE i.ip = "" -> "InvalidIPv4"
      [] i.ip # "" /\ i.port = "" -> "InvalidPort"
      [] i.ip = "invalid" /\ i.port # "" -> "InvalidIPv4"
      [] i.port = "invalid" /\ i.ip \notin {"", "invalid"} -> "InvalidPort"
      [] ~i.tcp /\ ~i.udp /\ {i.ip, i.port} \cap {"", "invalid"} = {}
             -> "NoProtocols"
      [] OTHER -> "None"

\* socks_local_router(): ICMP passes the driver.
NewRouter ==
    [statics |-> AddFilterBack(<< >>, [NewFilter EXCEPT !.protocol = "icmp"]),
     servers |-> << >>, filters |-> << >>]

NoRouter == [statics |-> << >>, servers |-> << >>, filters |-> << >>]

UiInit == /\ list = << >> /\ started = FALSE /\ router = NoRouter
          /\ shown = << >> /\ edits = 0 /\ starts = 0
-----------------------------------------------------------------------------
\* A slip that the properties must catch.

ServersFilters_UdpOnly(i) ==
    LET out(protocol) == [NewFilter EXCEPT !.protocol = protocol,
            !.direction = "out", !.address = i.ip, !.port = i.port]
    IN IF i.udp THEN <<out("tcp"), out("udp")>> ELSE << >>

-----------------------------------------------------------------------------
\* The static filters of a proxy: TCP also for a proxy that serves UDP alone.
\* The filters "in" compare the destination, too.
ServersFilters(i) ==
    LET to(protocol, d) == [NewFilter EXCEPT !.protocol = protocol,
            !.direction = d, !.address = i.ip, !.port = i.port]
    IN <<to("tcp", "out"), to("tcp", "in")>>
         \o IF i.udp THEN <<to("udp", "out"), to("udp", "in")>> ELSE << >>

\* add_socks5_proxy with start = true.  Filters are stored before the servers
\* are created, and stay if one of these cannot be started (~ok).
AddSocks5Proxy(r, i, ok) ==
    IF i.ip \in Unresolvable THEN r
    ELSE LET n  == Len(r.servers) + 1
             r1 == [r EXCEPT !.statics =
                       AddFiltersBack(@, ServersFilters(i))]
         IN IF ~ok THEN r1
            ELSE [r1 EXCEPT
                    !.servers = Append(@, [ip |-> i.ip, port |-> i.port,
                        tcp |-> IF i.tcp THEN TcpPorts[n] ELSE Unset,
                        udp |-> IF i.udp THEN UdpPorts[n] ELSE Unset]),
                    !.filters = Append(@, << >>)]

\* add_filter_to_proxy, for each of the filters.
AddFilters(r, id, fs) == IF id > Len(r.servers) THEN r
                         ELSE [r EXCEPT !.filters[id] = @ \o fs]

\* A slip in Register: the filters go to the row's number.
Register_ByRow(r, row, item, ok) ==
    AddFilters(AddSocks5Proxy(r, item.input, ok), row, item.filters)

\* One item of processProxyItems; without a proxy id it is skipped.
Register(r, row, item, ok) ==
    LET r1 == AddSocks5Proxy(r, item.input, ok)
        id == Len(r1.servers)
    IN IF id = Len(r.servers) THEN r1 ELSE AddFilters(r1, id, item.filters)

\* processProxyItems; ok[row] says whether the servers of the row can start.
ProcessProxyItems(items, ok) ==
    LET built[row \in 0 .. Len(items)] ==
            IF row = 0 THEN NewRouter
            ELSE Register(built[row - 1], row, items[row], ok[row])
    IN built[Len(items)]
-----------------------------------------------------------------------------
\* Bounds: MaxEdits edits before the start, or fewer and one while running.
EditsList == /\ edits < MaxEdits
             /\ edits' = IF started THEN MaxEdits ELSE edits + 1
             /\ UNCHANGED <<started, router, shown, starts>>

\* A new proxy matches all processes until its filters are edited.
AddProxyItem ==
    /\ EditsList
    /\ Len(list) < MaxItems
    /\ \E i \in Inputs :
         /\ ItemError(i) = "None"
         /\ list' = Append(list, [input |-> i, filters |-> <<AllFilter>>])

\* "Edit Proxy": a new item takes the row and the filters of the old one.
EditProxy ==
    /\ EditsList
    /\ \E row \in DOMAIN list, i \in Inputs :
         /\ ItemError(i) = "None"
         /\ list' = [list EXCEPT ![row].input = i]

\* "Edit Filters": the dialog's one filter replaces those of the item.
EditFilters ==
    /\ EditsList
    /\ \E row \in DOMAIN list, f \in Filters :
         list' = [list EXCEPT ![row].filters = <<f>>]

DeleteItem ==
    /\ EditsList
    /\ \E row \in DOMAIN list : list' = RemoveAt(list, row)

StartButton ==
    /\ ~started /\ starts < MaxStarts
    /\ started' = TRUE /\ starts' = starts + 1
    /\ \E ok \in [DOMAIN list -> BOOLEAN] :
         router' = ProcessProxyItems(list, ok)
    /\ shown' = list
    /\ UNCHANGED <<list, edits>>

StopButton ==
    /\ started
    /\ started' = FALSE
    /\ router' = NoRouter /\ shown' = << >>
    /\ UNCHANGED <<list, edits, starts>>

Edit == AddProxyItem \/ EditProxy \/ EditFilters \/ DeleteItem
-----------------------------------------------------------------------------
\* Every server of the router has the endpoint and exactly the filters of one
\* row of the list as it was at the start, in the same order, whichever rows
\* could not be registered and however the list has been edited since.
OwnFilters ==
    \E rows \in [DOMAIN router.servers -> DOMAIN shown] :
        /\ \A i, j \in DOMAIN rows : i < j => rows[i] < rows[j]
        /\ \A i \in DOMAIN rows :
             /\ router.servers[i].ip = shown[rows[i]].input.ip
             /\ router.servers[i].port = shown[rows[i]].input.port
             /\ router.filters[i] = shown[rows[i]].filters
=============================================================================
