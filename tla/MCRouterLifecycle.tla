------------------------- MODULE MCRouterLifecycle -------------------------
(***************************************************************************)
(* RouterLifecycle for model checking: an adapter, a PPP connection that   *)
(* moves to another interface with its address, an adapter without         *)
(* interface and one that has no address yet.                              *)
(***************************************************************************)
EXTENDS RouterLifecycle

Reading(luid, ppp, addresses) ==
    [luid |-> luid, up |-> TRUE, loopback |-> FALSE, ppp |-> ppp,
     addresses |-> addresses]

MCAdapters ==
    {Reading("wifi", FALSE, <<"a", "b">>), Reading("dialup", TRUE, <<"c">>),
     Reading("dialup", TRUE, <<"d">>), Reading("tunnel", FALSE, <<"e">>),
     Reading("cable", FALSE, << >>)}

MCInterfaces ==
    <<[luid |-> "wifi", links |-> {}], [luid |-> "wan1", links |-> {"c"}],
      [luid |-> "wan2", links |-> {"d"}], [luid |-> "cable", links |-> {}]>>
=============================================================================
