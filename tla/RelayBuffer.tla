---------------------------- MODULE RelayBuffer ----------------------------
(***************************************************************************)
(* Pointer arithmetic of the cyclic buffer through which tcp_proxy_socket  *)
(* relays one direction of a connection.  The source keeps two WSABUFs per *)
(* direction: a receive buffer (buf, len) that the kernel fills and a send *)
(* buffer (buf, len) that it empties.  Addresses are offsets from data();  *)
(* BufferSize is data() + size(), one past the last cell.                  *)
(***************************************************************************)
EXTENDS Integers

CONSTANT BufferSize  \* send_receive_buffer_size, 65536 in the source

ASSUME BufferSizeAssumption == BufferSize \in Nat \ {0}

Cells == 0 .. BufferSize - 1

\* The send buffer's address before the first receive: below every cell.
NullPtr == -1

-----------------------------------------------------------------------------
\* Slips in the arithmetic below that the properties must catch.

RecvPos_NoWrap(r, s) == r

RecvLen_IgnoresUnsent(r, s) == IF r < BufferSize THEN BufferSize - r ELSE s

SendLen_NoWrap(s, r) == IF s < r THEN r - s ELSE 0
-----------------------------------------------------------------------------
\* Address of the next receive once the data end at r and the unsent data
\* begin at s: the receive pointer wraps when it reaches the end.
RecvPos(r, s) == IF r > s /\ r = BufferSize THEN 0 ELSE r

\* Room of the next receive: to the end of the buffer, or to the unsent data
\* when the receive pointer has wrapped (0 means the buffer is full).
RecvLen(r, s) ==
    IF r > s THEN IF r < BufferSize THEN BufferSize - r ELSE s
             ELSE s - r

\* The send pointer wraps when it reaches the end.
SendPos(s) == IF s = BufferSize THEN 0 ELSE s

\* Length of the next send: the unsent bytes that lie contiguously from s
\* (0 means everything received has been sent).
SendLen(s, r) ==
    IF s = r THEN 0 ELSE IF s < r THEN r - s ELSE BufferSize - s
=============================================================================
