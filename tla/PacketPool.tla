----------------------------- MODULE PacketPool -----------------------------
(***************************************************************************)
(* packet_pool: stacks of packets that are not in use, one per size class. *)
(* A packet is its max_size_.  Every packet is handled as the type with    *)
(* the largest buffer, whatever its own is, so that only max_size_ tells   *)
(* how much it can hold and to which stack it belongs.                     *)
(***************************************************************************)
EXTENDS Naturals, Sequences

CONSTANT PoolCountLimit    \* pool_count_limit_

ASSUME PoolAssumption == PoolCountLimit \in Nat

Sizes == {32, 64, 128, 256, 512, 1024, 2048, 65536}
LargestSize == 65536

NoPacket == 0

EmptyPool == [class \in Sizes |-> << >>]

\* A slip in the next definition: a class is left when it is just large enough
\* for the next smaller one.
SizeClass_Below(size) ==
    CHOOSE class \in Sizes : /\ 2 * class > size
                             /\ \A c \in Sizes : 2 * c > size => class <= c

\* The first of the tests size <= 32, size <= 64, ... that holds.
SizeClass(size) ==
    CHOOSE class \in Sizes : /\ class >= size
                             /\ \A c \in Sizes : c >= size => class <= c

\* allocate: a packet of the stack, or a new one; the caller sets its length.
Allocate(pool, size) ==
    IF size > LargestSize THEN [packet |-> NoPacket, pool |-> pool]
    ELSE LET class == SizeClass(size)
             stack == pool[class]
         IN IF stack = << >> THEN [packet |-> class, pool |-> pool]
            ELSE [packet |-> stack[Len(stack)],
                  pool |-> [pool EXCEPT ![class] =
                                SubSeq(stack, 1, Len(stack) - 1)]]

\* A slip in Free: the limit is compared after the push only.
Free_Unlimited(pool, packet) ==
    IF packet \in Sizes THEN [pool EXCEPT ![packet] = Append(@, packet)]
                        ELSE pool

\* free: back to its stack, or deleted if that has reached the limit.
Free(pool, packet) ==
    IF packet \in Sizes /\ Len(pool[packet]) < PoolCountLimit
    THEN [pool EXCEPT ![packet] = Append(@, packet)]
    ELSE pool

\* What every caller relies on: each stack holds packets of its own size, and
\* no more of them than the limit.
PoolOK(pool) ==
    \A class \in Sizes : /\ pool[class] \in Seq({class})
                         /\ Len(pool[class]) <= PoolCountLimit
=============================================================================
