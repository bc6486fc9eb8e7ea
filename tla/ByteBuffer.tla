----------------------------- MODULE ByteBuffer -----------------------------
(***************************************************************************)
(* buffer.c: an array with a place to read from and a place to write to.   *)
(* Both only go up, and back to the start of the array when everything has *)
(* been read or when the buffer is compacted.                              *)
(***************************************************************************)
EXTENDS Integers, Sequences

\* Places count from 0, as pointers relative to data.
Buffer(Byte, n) ==
    {b \in [data : [0 .. n - 1 -> Byte], limit : {n}, read : 0 .. n, write : 0 .. n] :
        b.read <= b.write}

buffer_reset(b) == [b EXCEPT !.read = 0, !.write = 0]

\* The array itself is cleared by whoever owns it.
buffer_init(n, byte) ==
    buffer_reset([data |-> [i \in 0 .. n - 1 |-> byte], limit |-> n, read |-> 0, write |-> 0])

buffer_can_write(b) == b.limit - b.write > 0
buffer_can_read(b)  == b.write - b.read > 0

\* *nbyte of buffer_write_ptr and of buffer_read_ptr
Room(b)   == b.limit - b.write
Unread(b) == [i \in 1 .. b.write - b.read |-> b.data[b.read + i - 1]]

\* Mutant: the place to read from stays where it was.
CompactWriteOnly(b) == [b EXCEPT !.write = b.write - b.read]

\* memmove, or nothing to move.  The bytes behind keep their old value.
buffer_compact(b) ==
    LET n == b.write - b.read IN
    IF b.read = 0 THEN b
    ELSE [b EXCEPT !.data = [i \in DOMAIN @ |-> IF i < n THEN @[b.read + i] ELSE @[i]],
                   !.read = 0, !.write = n]

\* A negative count, the result of a failed call, moves nothing.
buffer_write_adv(b, bytes) ==
    IF bytes > -1 THEN [b EXCEPT !.write = @ + bytes] ELSE b

buffer_read_adv(b, bytes) ==
    IF bytes > -1
    THEN LET moved == [b EXCEPT !.read = @ + bytes]
         IN IF moved.read = moved.write THEN buffer_compact(moved) ELSE moved
    ELSE b

\* What recv() or strcpy() leaves at buffer_write_ptr, and buffer_write_adv
Filled(b, s) ==
    buffer_write_adv(
      [b EXCEPT !.data = [i \in DOMAIN @ |-> IF i \in b.write .. b.write + Len(s) - 1
                                             THEN s[i - b.write + 1] ELSE @[i]]],
      Len(s))

=============================================================================
