---------------------------- MODULE RelayChannel ----------------------------
(***************************************************************************)
(* What one direction of a relayed TCP connection promises: a bounded      *)
(* first-in first-out byte channel that may close at any time.  A byte of  *)
(* the stream is named by its position in it, so that the accepted stream  *)
(* is known from the number of bytes accepted.                             *)
(***************************************************************************)
EXTENDS Integers, Sequences

CONSTANTS Capacity,      \* how many bytes may be accepted but not delivered
          StreamLength   \* how many bytes the sender sends in all

VARIABLES accepted,      \* number of bytes taken from the sender
          out,           \* the bytes delivered to the receiver, in order
          open           \* FALSE once the connection has been closed

vars == <<accepted, out, open>>

\* The first n bytes of the stream.
Stream(n) == [i \in 1 .. n |-> i]

Init == accepted = 0 /\ out = <<>> /\ open = TRUE

Accept == /\ open
          /\ \E n \in accepted + 1 .. StreamLength :
                /\ n - Len(out) =< Capacity
                /\ accepted' = n
          /\ UNCHANGED <<out, open>>

Deliver == /\ open
           /\ \E n \in Len(out) + 1 .. accepted : out' = Stream(n)
           /\ UNCHANGED <<accepted, open>>

Close == open' = FALSE /\ UNCHANGED <<accepted, out>>

Next == Accept \/ Deliver \/ Close

Spec == Init /\ [][Next]_vars
=============================================================================
