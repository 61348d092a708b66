---------------------------- MODULE J1939Filter -----------------------------
(***************************************************************************)
(* Which frames reach the J1939 stack: the sorted table of                 *)
(* src/src/service/j1939/j1939_pgn.c, through which j1939_dl_process sends *)
(* every received frame, and the subscriptions of j1939_al.c that fill it. *)
(***************************************************************************)
EXTENDS Integers, Sequences, FiniteSets

CONSTANTS KnownPgns,    \* the parameter groups of the initial table
          OtherPgns,    \* further ones that are subscribed
          SourceAddrs,  \* source addresses, of frames and of subscriptions
          TableSize,    \* PGN_TABLE_SIZE
          MaxSubs       \* AL_SUBSCRIBE_CNT_MAX

ASSUME FilterAssumption == /\ IsFiniteSet(KnownPgns \cup OtherPgns)
                           /\ KnownPgns \cup OtherPgns \subseteq Nat
                           /\ SourceAddrs \subseteq Nat \ {0}
                           /\ TableSize \in Nat /\ Cardinality(KnownPgns) <= TableSize
                           /\ MaxSubs \in Nat

VARIABLES pgn_table,   \* entries of source address and parameter group
          al_table     \* what j1939_al_subscribe accepted

filterVars == <<pgn_table, al_table>>

AnyAddr == 0
Address == {AnyAddr} \cup SourceAddrs
Pgn == KnownPgns \cup OtherPgns
Entry == [addr : Address, pgn : Pgn]

(* j1939_pgn_init sorts the initial table, whose entries are for any source*)
j1939_pgn_init ==
  CHOOSE t \in [1..Cardinality(KnownPgns) -> [addr : {AnyAddr}, pgn : KnownPgns]] :
    \A i, j \in DOMAIN t : i < j => t[i].pgn < t[j].pgn

FilterInit == pgn_table = j1939_pgn_init /\ al_table = <<>>

(* One turn of the binary search in an interval, <<lo, hi>>: it ends at an *)
(* entry or at 0, or goes on in the half that f gives the end of.          *)
Halve(f, x, pgn) ==
  LET m == (x[1] + x[2]) \div 2
  IN IF x[1] > x[2] THEN 0
     ELSE IF pgn > pgn_table[m].pgn THEN f[<<m + 1, x[2]>>]
     ELSE IF pgn < pgn_table[m].pgn THEN f[<<x[1], m - 1>>]
     ELSE m

Intervals == (1..(Len(pgn_table) + 1)) \X (0..Len(pgn_table))

Search(pgn) ==
  LET f[x \in Intervals] == Halve(f, x, pgn)
  IN f[<<1, Len(pgn_table)>>]

j1939_pgn_filter(addr, pgn) ==
  LET m == Search(pgn)
  IN m # 0 /\ pgn_table[m].addr \in {AnyAddr, addr}

(* Wrong: a new entry goes to the end. *)
AddAtEnd(addr, pgn) == Append(pgn_table, [addr |-> addr, pgn |-> pgn])

(* A new entry goes before the first one with a greater number.            *)
j1939_pgn_add(addr, pgn) ==
  LET after == {i \in DOMAIN pgn_table : pgn < pgn_table[i].pgn}
      at == Len(pgn_table) - Cardinality(after)
  IN SubSeq(pgn_table, 1, at) \o <<[addr |-> addr, pgn |-> pgn]>>
       \o SubSeq(pgn_table, at + 1, Len(pgn_table))

Subscribed(addr, pgn) ==
  IF Len(al_table) < MaxSubs
  THEN al_table' = Append(al_table, [addr |-> addr, pgn |-> pgn])
  ELSE UNCHANGED al_table

j1939_al_subscribe(addr, pgn) ==
  IF j1939_pgn_filter(addr, pgn)
  THEN Subscribed(addr, pgn) /\ UNCHANGED pgn_table
  ELSE /\ Len(pgn_table) < TableSize
       /\ pgn_table' = j1939_pgn_add(addr, pgn)
       /\ Subscribed(addr, pgn)

FilterNext == \E addr \in Address, pgn \in Pgn : j1939_al_subscribe(addr, pgn)

FilterSpec == FilterInit /\ [][FilterNext]_filterVars
-----------------------------------------------------------------------------
(* The table stays sorted and within its array, or the search misses what  *)
(* is there; every subscription that was accepted has its group in it.     *)
TableSorted ==
  /\ pgn_table \in Seq(Entry) /\ Len(pgn_table) <= TableSize
  /\ \A i, j \in DOMAIN pgn_table : i < j => pgn_table[i].pgn <= pgn_table[j].pgn
  /\ \A k \in DOMAIN al_table :
       \E i \in DOMAIN pgn_table : pgn_table[i].pgn = al_table[k].pgn

(* The search looks at one entry of a parameter group only.                *)
SharedPgn(pgn) ==
  \E i, j \in DOMAIN pgn_table :
    i # j /\ pgn_table[i].pgn = pgn /\ pgn_table[j].pgn = pgn

(* A frame somebody subscribed to passes the filter, whatever was          *)
(* subscribed before and after, and the groups of the initial table always *)
(* do.  The exception is a group subscribed for several addresses: only    *)
(* the entry the search happens to meet counts.                            *)
SubscribedPasses ==
  /\ TableSorted
  /\ \A k \in DOMAIN al_table, a \in SourceAddrs :
       al_table[k].addr \in {AnyAddr, a} /\ ~SharedPgn(al_table[k].pgn)
         => j1939_pgn_filter(a, al_table[k].pgn)
  /\ \A p \in KnownPgns, a \in Address : j1939_pgn_filter(a, p)
=============================================================================
