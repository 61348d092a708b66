------------------------------ MODULE MemPool ------------------------------
(***************************************************************************)
(* The memory of the core: mp_alloc and mp_free of                         *)
(* src/src/common/tbox_mp.c, under tbox_memory_alloc and tbox_memory_free  *)
(* of core/tbox_memory.c.                                                  *)
(*                                                                         *)
(* A chunk is carved from the rest of the pool with the size of its class, *)
(* and goes to the free list of its class, for ever.  Its header and its   *)
(* two guards lie in the chunk around the caller's bytes.  A call is one   *)
(* action, as it holds the mutex of the pool.  Addresses count from the    *)
(* start of the buffer.                                                    *)
(***************************************************************************)
EXTENDS Integers, Sequences, FiniteSets, SequencesExt

CONSTANTS PoolBytes,      \* TBOX_MEMORY_CORE_SIZE
          BlockSizes,     \* sizes that are asked for, far below 2^32
          MaxChunks       \* bound on the chunks that are carved

ASSUME MemAssumption ==
  /\ PoolBytes \in Nat /\ MaxChunks \in Nat
  /\ \A size \in BlockSizes : size \in Nat /\ 0 < size /\ size < 65536

VARIABLES pos,            \* where the rest of the pool begins
          chunks,         \* headers by address: is it used, and the size asked for
          free_lists      \* the free chunks with their zones, oldest first

memVars == <<pos, chunks, free_lists>>

MEM_ZONE_COUNT == 72
MEM_GUARD_SIZE == 4
ChunkHeader == 12         \* sizeof(MEM_CHUNK)
ZoneHeader == 16          \* sizeof(MEM_ZONE)

Upto(n, step) == ((n + step - 1) \div step) * step

MEM_CHUNK_SIZE(size) == Upto(ChunkHeader + size + 2 * MEM_GUARD_SIZE, 4)

mem_chunk_size ==
  <<8, 16, 24, 32, 40, 48, 56, 64, 72, 80, 88, 96, 104, 112, 120, 128,
    144, 160, 176, 192, 208, 224, 240, 256, 288, 320, 352, 384, 416, 448, 480, 512,
    576, 640, 704, 770, 834, 898, 962, 1024, 1152, 1280, 1408, 1536, 1664, 1792, 1920, 2048,
    2304, 2560, 2816, 3072, 3328, 3584, 3840, 4096, 4608, 5120, 5632, 6144, 6656, 7168, 7680,
    8192, 9216, 10240, 11264, 12288, 13312, 14336, 15360, 16384>>

(* The branches of mem_zoneindex: below a limit, sizes go up in steps.     *)
Branches ==
  <<[limit |-> 128, step |-> 8, offset |-> -1], [limit |-> 256, step |-> 16, offset |-> 7],
    [limit |-> 512, step |-> 32, offset |-> 15], [limit |-> 1024, step |-> 64, offset |-> 23],
    [limit |-> 2048, step |-> 128, offset |-> 31], [limit |-> 4096, step |-> 256, offset |-> 39],
    [limit |-> 8192, step |-> 512, offset |-> 47], [limit |-> 16384, step |-> 1024, offset |-> 55]>>

Branch(n) ==
  LET i == CHOOSE i \in DOMAIN Branches :
             n < Branches[i].limit /\ \A j \in 1..(i - 1) : n >= Branches[j].limit
  IN Branches[i]

(* mem_zoneindex returns the zone, and by its parameter the size of the    *)
(* class, which is what is carved.                                         *)
mem_zoneindex(n) ==
  IF n >= 16384 THEN MEM_ZONE_COUNT
  ELSE Upto(n, Branch(n).step) \div Branch(n).step + Branch(n).offset

(* Wrong: the parameter keeps what was asked for.                          *)
AsAsked(n) == n

ClassSize(n) == IF n >= 16384 THEN n ELSE Upto(n, Branch(n).step)

MemInit ==
  /\ pos = ZoneHeader * MEM_ZONE_COUNT
  /\ chunks = << >>
  /\ free_lists = << >>
-----------------------------------------------------------------------------
InUse(size) == [used |-> TRUE, size |-> size]

(* The zone takes the request: it exists and its table entry is enough.    *)
ZoneTakes(n) ==
  mem_zoneindex(n) < MEM_ZONE_COUNT /\ ClassSize(n) <= mem_chunk_size[mem_zoneindex(n) + 1]

OfZone(zone) == {i \in DOMAIN free_lists : free_lists[i].zone = zone}

(* mp_alloc with an empty list: mem_alloc_internal.                        *)
Carve(size) ==
  LET n == MEM_CHUNK_SIZE(size) IN
  /\ ZoneTakes(n) /\ OfZone(mem_zoneindex(n)) = {}
  /\ pos + ClassSize(n) <= PoolBytes
  /\ Cardinality(DOMAIN chunks) < MaxChunks
  /\ pos' = pos + ClassSize(n)
  /\ chunks' = [a \in DOMAIN chunks \cup {pos} |-> IF a = pos THEN InUse(size) ELSE chunks[a]]
  /\ UNCHANGED free_lists

(* mp_alloc with a chunk in the list: the one that waits longest.          *)
Reuse(size) ==
  LET n == MEM_CHUNK_SIZE(size)
      zone == mem_zoneindex(n)
  IN /\ ZoneTakes(n) /\ OfZone(zone) # {}
     /\ LET i == CHOOSE i \in OfZone(zone) : \A j \in OfZone(zone) : i <= j
        IN /\ chunks' = [chunks EXCEPT ![free_lists[i].at] = InUse(size)]
           /\ free_lists' = RemoveAt(free_lists, i)
     /\ UNCHANGED pos

mp_alloc(size) == Carve(size) \/ Reuse(size)

(* mp_free finds the class by the size in the header.  A chunk that is     *)
(* free already is left alone.                                             *)
mp_free(a) ==
  LET zone == mem_zoneindex(MEM_CHUNK_SIZE(chunks[a].size)) IN
  /\ chunks[a].used /\ zone < MEM_ZONE_COUNT
  /\ chunks[a].size <= mem_chunk_size[zone + 1]
  /\ chunks' = [chunks EXCEPT ![a] = [used |-> FALSE, size |-> 0]]
  /\ free_lists' = Append(free_lists, [zone |-> zone, at |-> a])
  /\ UNCHANGED pos

MemNext ==
  \/ \E size \in BlockSizes : mp_alloc(size)
  \/ \E a \in DOMAIN chunks : mp_free(a)

MemSpec == MemInit /\ [][MemNext]_memVars
-----------------------------------------------------------------------------
(* What a chunk must have for itself: a used one its header, guards and    *)
(* bytes, a free one the header with the links of its list.                *)
Extent(a) == IF chunks[a].used THEN MEM_CHUNK_SIZE(chunks[a].size) ELSE ChunkHeader

Apart == \A a, b \in DOMAIN chunks : a < b => a + Extent(a) <= b

InPool ==
  \A a \in DOMAIN chunks : a >= ZoneHeader * MEM_ZONE_COUNT /\ a + Extent(a) <= PoolBytes

(* A free chunk is in one place of one list, a used one in none.           *)
ListedOnce ==
  /\ \A a \in DOMAIN chunks :
       ~chunks[a].used => \E i \in DOMAIN free_lists : free_lists[i].at = a
  /\ \A i \in DOMAIN free_lists :
       /\ free_lists[i].at \in DOMAIN chunks /\ ~chunks[free_lists[i].at].used
       /\ \A j \in DOMAIN free_lists : free_lists[i].at = free_lists[j].at => i = j

(* Nobody writes on another's bytes, guards or links, nor on the heads of  *)
(* the zones, nor behind the pool: however blocks of different sizes are   *)
(* given, freed and given again within a class.  And no chunk gets lost or *)
(* is given twice.                                                         *)
BlocksApart == Apart /\ InPool /\ ListedOnce
=============================================================================
