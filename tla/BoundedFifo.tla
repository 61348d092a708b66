---------------------------- MODULE BoundedFifo ----------------------------
(***************************************************************************)
(* The abstract specification of the byte queue every message path of the  *)
(* firmware is built on (src/src/common/cqueue.c): a sequence of at most   *)
(* cap elements.  A put appends as much of its argument as fits, a get or  *)
(* a discard removes as much as there is, and nothing else ever happens to *)
(* the contents.  The circular buffer with free-running unsigned counters  *)
(* of module CQueue is shown to implement it.                              *)
(***************************************************************************)
EXTENDS Naturals, Sequences, FiniteSetsExt

CONSTANTS Byte,      \* the values a cell holds
          MaxReq,    \* bound on a requested capacity
          MaxLen     \* bound on the length of one transfer

VARIABLES q,         \* the contents, oldest element first
          cap,       \* the capacity, 0 before the first initialisation
          call       \* the last call: operation, argument and bytes returned

vars == <<q, cap, call>>

(* The first n elements of s, or all of them, and what is left of s. *)
Prefix(s, n) == SubSeq(s, 1, Min({n, Len(s)}))
Rest(s, n)   == SubSeq(s, Min({n, Len(s)}) + 1, Len(s))

Init == q = <<>> /\ cap = 0 /\ call = <<"none">>

(* The capacity is the largest power of two the request has room for. *)
Reinit(req) == /\ call' = <<"init", req>>
               /\ q' = <<>>
               /\ cap' = Max({p \in 1..req : \E k \in 0..MaxReq : p = 2^k})

Put(d) == /\ call' = <<"put", d>>
          /\ q' = q \o Prefix(d, cap - Len(q))
          /\ UNCHANGED cap

Get(n) == /\ call' = <<"get", n, Prefix(q, n)>>
          /\ q' = Rest(q, n)
          /\ UNCHANGED cap

Read(n) == /\ call' = <<"read", n, Prefix(q, n)>>
           /\ UNCHANGED <<q, cap>>

Discard(n) == /\ call' = <<"discard", n>>
              /\ q' = Rest(q, n)
              /\ UNCHANGED cap

(* Nobody calls. *)
Idle == UNCHANGED vars

Next == \/ Idle
        \/ \E req \in 1..MaxReq : Reinit(req)
        \/ \E n \in 0..MaxLen : \E d \in [1..n -> Byte] : Put(d)
        \/ \E n \in 0..MaxLen : Get(n) \/ Read(n) \/ Discard(n)

Spec == Init /\ [][Next]_vars
=============================================================================
