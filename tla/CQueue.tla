------------------------------- MODULE CQueue -------------------------------
(***************************************************************************)
(* The circular byte queue of src/src/common/cqueue.c.  The read and write *)
(* positions are free-running unsigned counters that are never reduced     *)
(* modulo the size: they wrap at the width of uint32_t, so the data length *)
(* and the free space are unsigned differences and the cell of a position  *)
(* is its low bits (size is a power of two).  Word is 2^32 in the firmware.   *)
(***************************************************************************)
EXTENDS Integers, Sequences

CONSTANTS Word,      \* number of values of uint32_t
          Powers,    \* the powers of two a uint32_t can hold
          Byte,      \* the values of one cell
          MaxReq,    \* largest size passed to cqueue_init
          MaxLen     \* largest length passed to put, get, read and discard

(* Each power of two below the range of the counters divides it. *)
ASSUME WordAssumption == /\ Word \in Nat \ {0}
                         /\ Powers \subseteq 1..(Word - 1)
                         /\ 1 \in Powers
                         /\ \A p \in Powers : Word % p = 0
                         /\ MaxReq \in 1..(Word - 1)
                         /\ \A p \in 1..MaxReq : p \in Powers <=> \E k \in 0..MaxReq : p = 2^k
                         /\ MaxLen \in Nat
                         /\ Byte # {}

VARIABLES buffer,    \* queue->buffer: the cells, empty before cqueue_init
          size,      \* queue->size
          in,        \* queue->in: position of the next write
          out,       \* queue->out: position of the next read
          call       \* the last call: operation, argument and bytes copied out

vars == <<buffer, size, in, out, call>>

(* Unsigned arithmetic on counters. *)
Add(a, b) == (a + b) % Word
Sub(a, b) == (a - b) % Word
least(a, b) == IF a < b THEN a ELSE b

(* The loop halves the top power of two until it is not above val. *)
align_to_power(val) ==
  CHOOSE p \in Powers : p <= val /\ \A r \in Powers : r <= val => r <= p

cqueue_datalen == Sub(in, out)
cqueue_surplus == Add(Sub(size, in), out)

(* The cell of counter value c: the mask c & (size - 1). *)
Cell(c) == c % size

(* The n cells from counter value c on: the part up to the end of the      *)
(* buffer and the part that continues at its start, as the two memcpy.     *)
Slice(c, n) ==
  LET l == least(n, size - Cell(c))
  IN  [k \in 1..n |-> IF k <= l THEN buffer[Cell(c) + k - 1] ELSE buffer[k - l - 1]]

Stored(c, d, n) ==
  LET l == least(n, size - Cell(c))
  IN  [i \in DOMAIN buffer |->
        IF i >= Cell(c) /\ i < Cell(c) + l THEN d[i - Cell(c) + 1]
        ELSE IF i < n - l THEN d[i + l + 1]
        ELSE buffer[i]]
-----------------------------------------------------------------------------
(* A queue in static memory before its first initialisation. *)
Init == /\ buffer = <<>>
        /\ size = 0
        /\ in = 0
        /\ out = 0
        /\ call = <<"none">>

(* cqueue_init with a size of 0 returns before it touches the queue; the   *)
(* memory it is given holds whatever was there before.                     *)
cqueue_init(sz) ==
  /\ sz # 0
  /\ size' = align_to_power(sz)
  /\ buffer' \in [0..(align_to_power(sz) - 1) -> Byte]
  /\ in' = 0
  /\ out' = 0
  /\ call' = <<"init", sz>>

(* Wrong: the put is not limited to the free space. *)
PutUnbounded(d) ==
  /\ size # 0
  /\ buffer' = Stored(in, d, least(Len(d), size))
  /\ in' = Add(in, Len(d))
  /\ call' = <<"put", d>>
  /\ UNCHANGED <<size, out>>

(* Wrong: the part that continues at the start of the buffer is lost.     *)
PutOneCopy(d) ==
  LET n == least(Len(d), cqueue_surplus)
  IN  /\ size # 0
      /\ buffer' = Stored(in, d, least(n, size - Cell(in)))
      /\ in' = Add(in, n)
      /\ call' = <<"put", d>>
      /\ UNCHANGED <<size, out>>

cqueue_put(d) ==
  LET n == least(Len(d), cqueue_surplus)
  IN  /\ size # 0
      /\ buffer' = Stored(in, d, n)
      /\ in' = Add(in, n)
      /\ call' = <<"put", d>>
      /\ UNCHANGED <<size, out>>

cqueue_get(len) ==
  LET n == least(len, cqueue_datalen)
  IN  /\ size # 0
      /\ call' = <<"get", len, Slice(out, n)>>
      /\ out' = Add(out, n)
      /\ UNCHANGED <<buffer, size, in>>

cqueue_read(len) ==
  /\ size # 0
  /\ call' = <<"read", len, Slice(out, least(len, cqueue_datalen))>>
  /\ UNCHANGED <<buffer, size, in, out>>

cqueue_discard(len) ==
  /\ size # 0
  /\ out' = Add(out, least(len, cqueue_datalen))
  /\ call' = <<"discard", len>>
  /\ UNCHANGED <<buffer, size, in>>

Next == \/ \E sz \in 0..MaxReq : cqueue_init(sz)
        \/ \E n \in 0..MaxLen : \E d \in [1..n -> Byte] : cqueue_put(d)
        \/ \E n \in 0..MaxLen : cqueue_get(n)
        \/ \E n \in 0..MaxLen : cqueue_read(n)
        \/ \E n \in 0..MaxLen : cqueue_discard(n)

Spec == Init /\ [][Next]_vars
-----------------------------------------------------------------------------
(* Type invariant: the counters are words, a queue in use has one cell per *)
(* index, and the sizes cqueue_init chooses divide the counter's range.    *)
TypeOK == /\ in \in 0..(Word - 1)
          /\ out \in 0..(Word - 1)
          /\ size \in 0..(Word - 1)
          /\ size # 0 => Word % size = 0
          /\ buffer \in [0..(size - 1) -> Byte]

(* cqueue_put, cqueue_get and cqueue_discard keep the unsigned difference  *)
(* of the counters within the size, across every wrap of either counter:   *)
(* the free space never underflows and no unread byte is overwritten.      *)
Occupancy == cqueue_datalen <= size /\ cqueue_surplus = size - cqueue_datalen

(* The queue behaves as a bounded FIFO: put appends what fits, get, read   *)
(* and discard deliver and drop from the front, in order, at every         *)
(* position of the counters and of the two-part copies.                    *)
Fifo == INSTANCE BoundedFifo
          WITH q <- Slice(out, cqueue_datalen), cap <- size
IsFifo == Fifo!Spec
=============================================================================
