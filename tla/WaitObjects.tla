---------------------------- MODULE WaitObjects ----------------------------
(***************************************************************************)
(* tcp_proxy_server::wait_for_multiple_objects: WaitForMultipleObjects for *)
(* more handles than Windows accepts in one call.  Too long an array is    *)
(* halved and the halves are waited for in a random order; the index found *)
(* in the upper half is then adjusted.                                     *)
(***************************************************************************)
EXTENDS Integers

CONSTANT MaxWait  \* MAXIMUM_WAIT_OBJECTS, 64 in the source

ASSUME MaxWaitAssumption == MaxWait \in Nat \ {0, 1}

Timeout == -1     \* WAIT_TIMEOUT, distinct from every index

\* WaitForMultipleObjects on the n handles from off on: the index, relative to
\* off, of the first signalled one, as the only member of a set.
FirstSignalled(signalled, off, n) ==
    LET first == {i \in 0 .. n - 1 :
                    /\ off + i \in signalled
                    /\ \A j \in 0 .. i - 1 : off + j \notin signalled}
    IN IF first = {} THEN {Timeout} ELSE first

\* The index found in the upper half, which begins at split, is adjusted; the
\* source compares it with the length of the lower half.
AdjustUpper(result, split) ==
    IF result \in 0 .. split - 1 THEN result + split ELSE result

\* All the indices that may be returned for handles 0 .. count - 1, of which
\* those in signalled are signalled.
WaitResults(signalled, count) ==
    IF count < MaxWait THEN FirstSignalled(signalled, 0, count)
    ELSE LET W[off \in 0 .. count, n \in 0 .. count] ==
               IF n < MaxWait THEN FirstSignalled(signalled, off, n)
               ELSE LET split == n \div 2
                        lower == W[off, split]
                        upper == {AdjustUpper(r, split) :
                                     r \in W[off + split, n - split]}
                        found == (lower \cup upper) \ {Timeout}
                    IN IF found = {} THEN {Timeout} ELSE found
         IN W[0, count]
=============================================================================
