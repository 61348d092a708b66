----------------------------- MODULE CoreProofs -----------------------------
(***************************************************************************)
(* Three parts that others build on: BlocksApart of MemPool, for every     *)
(* size of the pool and of the blocks; RunloopsRepaired of Runloops, for   *)
(* any number of runloops, control blocks and deaths; and TimersInPlace    *)
(* and DueIsNoticed of STimer, for any timers, periods and size of the     *)
(* wheel.                                                                  *)
(*                                                                         *)
(* What holds the blocks apart is that a chunk keeps the size of its       *)
(* class: the class a block is freed to, found by what was asked for, is   *)
(* the one that it was carved for.                                         *)
(***************************************************************************)
EXTENDS MemPool, Runloops, STimer,
        SequenceTheorems, FiniteSetTheorems, WellFoundedInduction, TLAPS

(* The size of the chunks in a zone, by the number of the zone.            *)
SizeOfZone(z) ==
  IF z <= 15 THEN 8 * (z + 1)
  ELSE IF z <= 23 THEN 16 * (z - 7)
  ELSE IF z <= 31 THEN 32 * (z - 15)
  ELSE IF z <= 39 THEN 64 * (z - 23)
  ELSE IF z <= 47 THEN 128 * (z - 31)
  ELSE IF z <= 55 THEN 256 * (z - 39)
  ELSE IF z <= 63 THEN 512 * (z - 47)
  ELSE 1024 * (z - 55)

(* The branch of mem_zoneindex that a size takes, with its limit and step. *)
LEMMA BranchIs ==
  ASSUME NEW n \in Nat, n < 16384
  PROVE  \/ n < 128 /\ Branch(n) = [limit |-> 128, step |-> 8, offset |-> -1]
         \/ n >= 128 /\ n < 256 /\ Branch(n) = [limit |-> 256, step |-> 16, offset |-> 7]
         \/ n >= 256 /\ n < 512 /\ Branch(n) = [limit |-> 512, step |-> 32, offset |-> 15]
         \/ n >= 512 /\ n < 1024 /\ Branch(n) = [limit |-> 1024, step |-> 64, offset |-> 23]
         \/ n >= 1024 /\ n < 2048 /\ Branch(n) = [limit |-> 2048, step |-> 128, offset |-> 31]
         \/ n >= 2048 /\ n < 4096 /\ Branch(n) = [limit |-> 4096, step |-> 256, offset |-> 39]
         \/ n >= 4096 /\ n < 8192 /\ Branch(n) = [limit |-> 8192, step |-> 512, offset |-> 47]
         \/ n >= 8192 /\ n < 16384 /\ Branch(n) = [limit |-> 16384, step |-> 1024, offset |-> 55]
<1> DEFINE Fits(i) == n < Branches[i].limit /\ \A j \in 1..(i - 1) : n >= Branches[j].limit
<1>1. DOMAIN Branches = 1..8
  BY DEF Branches
<1>2. /\ Branches[1] = [limit |-> 128, step |-> 8, offset |-> -1]
      /\ Branches[2] = [limit |-> 256, step |-> 16, offset |-> 7]
      /\ Branches[3] = [limit |-> 512, step |-> 32, offset |-> 15]
      /\ Branches[4] = [limit |-> 1024, step |-> 64, offset |-> 23]
      /\ Branches[5] = [limit |-> 2048, step |-> 128, offset |-> 31]
      /\ Branches[6] = [limit |-> 4096, step |-> 256, offset |-> 39]
      /\ Branches[7] = [limit |-> 8192, step |-> 512, offset |-> 47]
      /\ Branches[8] = [limit |-> 16384, step |-> 1024, offset |-> 55]
  BY DEF Branches
<1>3. \E i \in 1..8 : Fits(i)
  <2>1. /\ Branches[1].limit = 128 /\ Branches[2].limit = 256 /\ Branches[3].limit = 512
        /\ Branches[4].limit = 1024 /\ Branches[5].limit = 2048 /\ Branches[6].limit = 4096
        /\ Branches[7].limit = 8192 /\ Branches[8].limit = 16384
    BY <1>2
  <2>2. n < 128 => Fits(1)
    BY <2>1
  <2>3. (n >= 128 /\ n < 256) => Fits(2)
    BY <2>1
  <2>4. n >= 256 /\ n < 512 => Fits(3)
    BY <2>1
  <2>5. n >= 512 /\ n < 1024 => Fits(4)
    BY <2>1
  <2>6. n >= 1024 /\ n < 2048 => Fits(5)
    BY <2>1
  <2>7. n >= 2048 /\ n < 4096 => Fits(6)
    BY <2>1
  <2>8. n >= 4096 /\ n < 8192 => Fits(7)
    BY <2>1
  <2>9. n >= 8192 /\ n < 16384 => Fits(8)
    BY <2>1
  <2> HIDE DEF Fits
  <2> QED
    BY <2>2, <2>3, <2>4, <2>5, <2>6, <2>7, <2>8, <2>9
<1>4. Branch(n) = Branches[CHOOSE k \in DOMAIN Branches : Fits(k)]
  BY DEF Branch
<1>5. PICK i \in 1..8 : Fits(i) /\ Branch(n) = Branches[i]
  BY <1>1, <1>3, <1>4
<1>6. \A j \in 1..(i - 1) : n >= Branches[j].limit
  BY <1>5
<1>7. n < Branches[i].limit
  BY <1>5
<1> QED
  BY <1>2, <1>5, <1>6, <1>7
-----------------------------------------------------------------------------
(* A chunk holds its request, the header and the guard.                    *)
LEMMA ChunkSizeIs ==
  ASSUME NEW size \in Nat, size > 0
  PROVE  MEM_CHUNK_SIZE(size) \in Nat /\ MEM_CHUNK_SIZE(size) >= size + 20
  BY DEF MEM_CHUNK_SIZE, Upto, ChunkHeader, MEM_GUARD_SIZE

(* The zones of chunks; those of zone 0 would have no room for a guard.    *)
Zone == 1..(MEM_ZONE_COUNT - 1)

(* A chunk of any zone is more than its header.                            *)
LEMMA ZoneSize ==
  ASSUME NEW z \in Zone
  PROVE  SizeOfZone(z) \in Nat /\ SizeOfZone(z) > ChunkHeader
  BY DEF SizeOfZone, ChunkHeader, Zone, MEM_ZONE_COUNT

(* The zone and the size that mem_zoneindex returns agree: the size is the *)
(* zone's, and enough.                                                     *)
LEMMA ZoneIs ==
  ASSUME NEW n \in Nat, n >= 21, n < 16384
  PROVE  /\ mem_zoneindex(n) \in Zone
         /\ ClassSize(n) = SizeOfZone(mem_zoneindex(n))
         /\ ClassSize(n) >= n
<1> DEFINE step == Branch(n).step
           k == (n + step - 1) \div step
<1>1. /\ mem_zoneindex(n) = (k * step) \div step + Branch(n).offset
      /\ ClassSize(n) = k * step
  BY DEF mem_zoneindex, ClassSize, Upto
<1>2. CASE n < 128 /\ Branch(n) = [limit |-> 128, step |-> 8, offset |-> -1]
  <2>1. step = 8 /\ Branch(n).offset = -1
    BY <1>2
  <2> QED
    BY <1>1, <1>2, <2>1 DEF SizeOfZone, Zone, MEM_ZONE_COUNT
<1>3. CASE n >= 128 /\ n < 256 /\ Branch(n) = [limit |-> 256, step |-> 16, offset |-> 7]
  <2>1. step = 16 /\ Branch(n).offset = 7
    BY <1>3
  <2> QED
    BY <1>1, <1>3, <2>1 DEF SizeOfZone, Zone, MEM_ZONE_COUNT
<1>4. CASE n >= 256 /\ n < 512 /\ Branch(n) = [limit |-> 512, step |-> 32, offset |-> 15]
  <2>1. step = 32 /\ Branch(n).offset = 15
    BY <1>4
  <2> QED
    BY <1>1, <1>4, <2>1 DEF SizeOfZone, Zone, MEM_ZONE_COUNT
<1>5. CASE n >= 512 /\ n < 1024 /\ Branch(n) = [limit |-> 1024, step |-> 64, offset |-> 23]
  <2>1. step = 64 /\ Branch(n).offset = 23
    BY <1>5
  <2> QED
    BY <1>1, <1>5, <2>1 DEF SizeOfZone, Zone, MEM_ZONE_COUNT
<1>6. CASE n >= 1024 /\ n < 2048 /\ Branch(n) = [limit |-> 2048, step |-> 128, offset |-> 31]
  <2>1. step = 128 /\ Branch(n).offset = 31
    BY <1>6
  <2> QED
    BY <1>1, <1>6, <2>1 DEF SizeOfZone, Zone, MEM_ZONE_COUNT
<1>7. CASE n >= 2048 /\ n < 4096 /\ Branch(n) = [limit |-> 4096, step |-> 256, offset |-> 39]
  <2>1. step = 256 /\ Branch(n).offset = 39
    BY <1>7
  <2> QED
    BY <1>1, <1>7, <2>1 DEF SizeOfZone, Zone, MEM_ZONE_COUNT
<1>8. CASE n >= 4096 /\ n < 8192 /\ Branch(n) = [limit |-> 8192, step |-> 512, offset |-> 47]
  <2>1. step = 512 /\ Branch(n).offset = 47
    BY <1>8
  <2> QED
    BY <1>1, <1>8, <2>1 DEF SizeOfZone, Zone, MEM_ZONE_COUNT
<1>9. CASE n >= 8192 /\ n < 16384 /\ Branch(n) = [limit |-> 16384, step |-> 1024, offset |-> 55]
  <2>1. step = 1024 /\ Branch(n).offset = 55
    BY <1>9
  <2> QED
    BY <1>1, <1>9, <2>1 DEF SizeOfZone, Zone, MEM_ZONE_COUNT
<1> QED
  BY <1>2, <1>3, <1>4, <1>5, <1>6, <1>7, <1>8, <1>9, BranchIs

(* What mp_alloc finds for a request it serves: a zone, the zone's size,   *)
(* and that it is enough.                                                  *)
LEMMA RequestIs ==
  ASSUME NEW size \in BlockSizes, mem_zoneindex(MEM_CHUNK_SIZE(size)) < MEM_ZONE_COUNT
  PROVE  LET n == MEM_CHUNK_SIZE(size) IN
         /\ n \in Nat
         /\ mem_zoneindex(n) \in Zone
         /\ ClassSize(n) = SizeOfZone(mem_zoneindex(n))
         /\ n <= SizeOfZone(mem_zoneindex(n))
<1>1. size \in Nat /\ size > 0
  BY MemAssumption
<1>2. MEM_CHUNK_SIZE(size) \in Nat /\ MEM_CHUNK_SIZE(size) >= 21
  <2>1. MEM_CHUNK_SIZE(size) \in Nat /\ MEM_CHUNK_SIZE(size) >= size + 20
    BY <1>1, ChunkSizeIs
  <2> QED
    BY <1>1, <2>1
<1>3. MEM_CHUNK_SIZE(size) < 16384
  BY <1>2 DEF mem_zoneindex, MEM_ZONE_COUNT
<1> QED
  BY <1>2, <1>3, ZoneIs

(* RemoveAt takes out one element and closes the gap.                      *)
LEMMA Removed ==
  ASSUME NEW T, NEW s \in Seq(T), NEW i \in DOMAIN s
  PROVE  /\ RemoveAt(s, i) \in Seq(T) /\ DOMAIN RemoveAt(s, i) = 1..(Len(s) - 1)
         /\ \A j \in 1..(Len(s) - 1) : RemoveAt(s, i)[j] = IF j < i THEN s[j] ELSE s[j + 1]
<1>1. i \in 1..Len(s) /\ Len(s) \in Nat
  OBVIOUS
<1> DEFINE l == SubSeq(s, 1, i - 1)
           r == SubSeq(s, i + 1, Len(s))
<1>2. l \in Seq(T) /\ Len(l) = i - 1 /\ \A j \in 1..(i - 1) : l[j] = s[j]
  BY <1>1
<1>3. r \in Seq(T) /\ Len(r) = Len(s) - i /\ \A j \in 1..(Len(s) - i) : r[j] = s[i + j]
  BY <1>1
<1>4. RemoveAt(s, i) = l \o r
  BY DEF RemoveAt
<1> HIDE DEF l, r
<1>5. /\ l \o r \in Seq(T) /\ Len(l \o r) = Len(l) + Len(r)
      /\ \A j \in 1..(Len(l) + Len(r)) :
           (l \o r)[j] = IF j <= Len(l) THEN l[j] ELSE r[j - Len(l)]
  BY <1>2, <1>3, ConcatProperties
<1>6. Len(l) + Len(r) = Len(s) - 1
  BY <1>1, <1>2, <1>3
<1>7. ASSUME NEW j \in 1..(Len(s) - 1)
      PROVE  (l \o r)[j] = IF j < i THEN s[j] ELSE s[j + 1]
  <2>1. CASE j < i
    BY <1>1, <1>2, <1>5, <1>6, <2>1
  <2>2. CASE ~(j < i)
    <3>1. j - (i - 1) \in 1..(Len(s) - i) /\ i + (j - (i - 1)) = j + 1 /\ ~(j <= i - 1)
      BY <1>1, <2>2
    <3> QED
      BY <1>2, <1>3, <1>5, <1>6, <2>2, <3>1
  <2> QED
    BY <2>1, <2>2
<1>8. DOMAIN (l \o r) = 1..(Len(s) - 1)
  BY <1>5, <1>6
<1> QED
  BY <1>4, <1>5, <1>7, <1>8

(* A set of natural numbers that is not empty has a least one.             *)
LEMMA SmallestIsIn ==
  ASSUME NEW S \in SUBSET Nat, S # {}
  PROVE  LET m == CHOOSE i \in S : \A j \in S : i <= j IN m \in S
<1>1. PICK i \in S : \A j \in S : ~(<<j, i>> \in OpToRel(<, Nat))
  BY NatLessThanWellFounded, WFMin
<1>2. ASSUME NEW j \in S PROVE i <= j
  <2>1. i \in Nat /\ j \in Nat /\ ~(j < i)
    BY <1>1 DEF OpToRel
  <2> QED
    BY <2>1
<1> QED
  BY <1>2
-----------------------------------------------------------------------------
Chunk == [used : BOOLEAN, size : Nat]
FreeEntry == [zone : Nat, at : Nat]

MemTyped ==
  /\ pos \in Nat /\ pos >= ZoneHeader * MEM_ZONE_COUNT
  /\ DOMAIN chunks \subseteq Nat /\ chunks \in [DOMAIN chunks -> Chunk]
  /\ free_lists \in Seq(FreeEntry)

(* The chunk at a is used or waits in a list, and belongs to zone z.       *)
OfItsZone(a, z) ==
  IF chunks[a].used
  THEN /\ chunks[a].size \in BlockSizes
       /\ mem_zoneindex(MEM_CHUNK_SIZE(chunks[a].size)) = z
  ELSE \E i \in DOMAIN free_lists : free_lists[i] = [zone |-> z, at |-> a]

(* The chunks, with the zone of each, lie behind one another.              *)
Tiled(zones) ==
  /\ \A a \in DOMAIN chunks :
       /\ OfItsZone(a, zones[a])
       /\ a >= ZoneHeader * MEM_ZONE_COUNT
       /\ a + SizeOfZone(zones[a]) <= pos /\ a + SizeOfZone(zones[a]) <= PoolBytes
  /\ \A a, b \in DOMAIN chunks : a < b => a + SizeOfZone(zones[a]) <= b

(* Every chunk has the zone it was carved for.                             *)
MemInv == /\ MemTyped /\ ListedOnce
          /\ \E zones \in [DOMAIN chunks -> Zone] : Tiled(zones)

(* An empty pool satisfies the invariant.                                  *)
LEMMA MemInitHolds == MemInit => MemInv
<1> SUFFICES ASSUME MemInit PROVE MemInv
  OBVIOUS
<1>1. DOMAIN chunks = {} /\ DOMAIN free_lists = {}
  BY DEF MemInit
<1>2. MemTyped
  BY <1>1 DEF MemInit, MemTyped, ZoneHeader, MEM_ZONE_COUNT
<1>3. [a \in DOMAIN chunks |-> 1] \in [DOMAIN chunks -> Zone]
  BY DEF Zone, MEM_ZONE_COUNT
<1>4. Tiled([a \in DOMAIN chunks |-> 1])
  BY <1>1 DEF Tiled
<1> QED
  BY <1>1, <1>2, <1>3, <1>4 DEF MemInv, ListedOnce

(* A new chunk lies behind all others, with the size of its zone.          *)
LEMMA CarveHolds ==
  ASSUME MemInv, NEW size \in BlockSizes, Carve(size)
  PROVE  MemInv'
<1> DEFINE n == MEM_CHUNK_SIZE(size)
           zone == mem_zoneindex(n)
<1>1. /\ n \in Nat /\ zone \in Zone /\ ClassSize(n) = SizeOfZone(zone)
      /\ SizeOfZone(zone) \in Nat /\ SizeOfZone(zone) > 12
  BY RequestIs, ZoneSize DEF Carve, ZoneTakes, ChunkHeader
<1> HIDE DEF n, zone
<1>2. /\ pos + SizeOfZone(zone) <= PoolBytes /\ pos' = pos + SizeOfZone(zone)
      /\ chunks' = [a \in DOMAIN chunks \cup {pos} |-> IF a = pos THEN InUse(size) ELSE chunks[a]]
      /\ free_lists' = free_lists
  BY <1>1 DEF Carve, n
<1>3. MemTyped /\ ListedOnce
  BY DEF MemInv
<1>4. PICK zones \in [DOMAIN chunks -> Zone] : Tiled(zones)
  BY DEF MemInv
<1>5. pos \in Nat /\ PoolBytes \in Nat /\ size \in Nat
  <2>1. size \in Nat /\ PoolBytes \in Nat
    BY MemAssumption
  <2> QED
    BY <1>3, <2>1 DEF MemTyped
<1>6. \A a \in DOMAIN chunks : a \in Nat /\ SizeOfZone(zones[a]) \in Nat /\ SizeOfZone(zones[a]) > 12
                               /\ a + SizeOfZone(zones[a]) <= pos
  BY <1>3, <1>4, ZoneSize DEF MemTyped, Tiled, ChunkHeader
<1>7. \A a \in DOMAIN chunks : a < pos
  BY <1>5, <1>6
<1>8. /\ DOMAIN chunks' = DOMAIN chunks \cup {pos} /\ chunks'[pos] = InUse(size)
      /\ \A a \in DOMAIN chunks : chunks'[a] = chunks[a]
  BY <1>2, <1>5, <1>7
<1>9. MemTyped'
  <2>1. pos' \in Nat /\ pos' >= ZoneHeader * MEM_ZONE_COUNT
    BY <1>1, <1>2, <1>3, <1>5 DEF MemTyped, ZoneHeader, MEM_ZONE_COUNT
  <2>2. InUse(size) \in Chunk
    BY <1>5 DEF InUse, Chunk
  <2>3. DOMAIN chunks' \subseteq Nat
    BY <1>3, <1>5, <1>8 DEF MemTyped
  <2>4. chunks' \in [DOMAIN chunks' -> Chunk]
    BY <1>2, <1>3, <1>8, <2>2 DEF MemTyped
  <2> QED
    BY <1>2, <1>3, <2>1, <2>3, <2>4 DEF MemTyped
<1>10. ListedOnce'
  BY <1>2, <1>3, <1>8 DEF ListedOnce, InUse
<1>11. PICK zones1 \in [DOMAIN chunks' -> Zone] :
         /\ zones1[pos] = zone /\ \A a \in DOMAIN chunks : zones1[a] = zones[a]
  <2> DEFINE z == [a \in DOMAIN chunks' |-> IF a = pos THEN zone ELSE zones[a]]
  <2>1. z \in [DOMAIN chunks' -> Zone]
    BY <1>1, <1>8
  <2>2. z[pos] = zone /\ \A a \in DOMAIN chunks : z[a] = zones[a]
    BY <1>5, <1>7, <1>8
  <2> QED
    BY <2>1, <2>2
<1>12. ASSUME NEW a \in DOMAIN chunks'
       PROVE  /\ OfItsZone(a, zones1[a])'
              /\ a >= ZoneHeader * MEM_ZONE_COUNT
              /\ a + SizeOfZone(zones1[a]) <= pos' /\ a + SizeOfZone(zones1[a]) <= PoolBytes
  <2>1. CASE a = pos
    BY <1>1, <1>2, <1>3, <1>5, <1>8, <1>11, <2>1 DEF OfItsZone, InUse, n, zone, MemTyped
  <2>2. CASE a \in DOMAIN chunks
    <3>1. chunks'[a] = chunks[a] /\ zones1[a] = zones[a]
      BY <1>8, <1>11, <2>2
    <3>2. OfItsZone(a, zones[a]) /\ a >= ZoneHeader * MEM_ZONE_COUNT
      BY <1>4, <2>2 DEF Tiled
    <3>3. OfItsZone(a, zones1[a])'
      BY <1>2, <3>1, <3>2 DEF OfItsZone
    <3> QED
      BY <1>1, <1>2, <1>5, <1>6, <2>2, <3>1, <3>2, <3>3
  <2> QED
    BY <1>8, <2>1, <2>2
<1>13. ASSUME NEW a \in DOMAIN chunks', NEW b \in DOMAIN chunks', a < b
       PROVE  a + SizeOfZone(zones1[a]) <= b
  <2>1. CASE a \in DOMAIN chunks /\ b \in DOMAIN chunks
    BY <1>4, <1>11, <1>13, <2>1 DEF Tiled
  <2>2. CASE a \in DOMAIN chunks /\ b = pos
    BY <1>6, <1>11, <2>2
  <2>3. a # pos
    BY <1>5, <1>6, <1>7, <1>8, <1>13
  <2> QED
    BY <1>8, <2>1, <2>2, <2>3
<1>14. Tiled(zones1)'
  BY <1>12, <1>13 DEF Tiled
<1> QED
  BY <1>9, <1>10, <1>11, <1>14 DEF MemInv

(* The chunk that is reused is in the list of the zone of the request, and *)
(* keeps its zone.                                                         *)
LEMMA ReuseHolds ==
  ASSUME MemInv, NEW size \in BlockSizes, Reuse(size)
  PROVE  MemInv'
<1> DEFINE n == MEM_CHUNK_SIZE(size)
           zone == mem_zoneindex(n)
<1>1. zone \in Zone /\ size \in Nat
  BY RequestIs, MemAssumption DEF Reuse, ZoneTakes
<1>2. OfZone(zone) # {} /\ UNCHANGED pos
  BY DEF Reuse
<1>3. MemTyped /\ ListedOnce
  BY DEF MemInv
<1>4. PICK zones \in [DOMAIN chunks -> Zone] : Tiled(zones)
  BY DEF MemInv
<1>5. OfZone(zone) \subseteq Nat
  BY <1>3 DEF OfZone, MemTyped
<1> DEFINE i == CHOOSE i \in OfZone(zone) : \A j \in OfZone(zone) : i <= j
           a == free_lists[i].at
<1>6. i \in OfZone(zone)
  BY <1>2, <1>5, SmallestIsIn
<1>7. /\ chunks' = [chunks EXCEPT ![a] = InUse(size)]
      /\ free_lists' = RemoveAt(free_lists, i)
  BY DEF Reuse
<1> HIDE DEF i
<1>8. /\ i \in DOMAIN free_lists /\ free_lists[i].zone = zone
      /\ a \in DOMAIN chunks /\ ~chunks[a].used
      /\ \A j \in DOMAIN free_lists : j # i => free_lists[j].at # a
  BY <1>3, <1>6 DEF OfZone, ListedOnce
<1> HIDE DEF a
<1>9. zones[a] = zone
  BY <1>4, <1>8 DEF Tiled, OfItsZone, a
<1>10. /\ DOMAIN chunks' = DOMAIN chunks /\ chunks'[a] = InUse(size)
       /\ \A b \in DOMAIN chunks : b # a => chunks'[b] = chunks[b]
  BY <1>7, <1>8
<1>11. /\ free_lists' \in Seq(FreeEntry) /\ DOMAIN free_lists' = 1..(Len(free_lists) - 1)
       /\ \A j \in 1..(Len(free_lists) - 1) :
            free_lists'[j] = IF j < i THEN free_lists[j] ELSE free_lists[j + 1]
  BY <1>3, <1>7, <1>8, Removed DEF MemTyped
<1>12. DOMAIN free_lists = 1..Len(free_lists) /\ Len(free_lists) \in Nat
  BY <1>3 DEF MemTyped
<1>13. \A j \in DOMAIN free_lists' : \E k \in DOMAIN free_lists :
         k # i /\ free_lists'[j] = free_lists[k] /\ k = IF j < i THEN j ELSE j + 1
  BY <1>8, <1>11, <1>12
<1>14. \A k \in DOMAIN free_lists : k # i => \E j \in DOMAIN free_lists' : free_lists'[j] = free_lists[k]
  <2> TAKE k \in DOMAIN free_lists
  <2> HAVE k # i
  <2>1. CASE k < i
    BY <1>8, <1>11, <1>12, <2>1
  <2>2. CASE k > i
    <3>1. k - 1 \in DOMAIN free_lists' /\ ~(k - 1 < i) /\ (k - 1) + 1 = k
      BY <1>8, <1>11, <1>12, <2>2
    <3> QED
      BY <1>11, <3>1
  <2> QED
    BY <1>8, <1>12, <2>1, <2>2
<1>15. MemTyped'
  <2>1. InUse(size) \in Chunk
    BY <1>1 DEF InUse, Chunk
  <2> QED
    BY <1>2, <1>3, <1>7, <1>8, <1>11, <2>1 DEF MemTyped
<1>16. ListedOnce'
  <2>1. ASSUME NEW b \in DOMAIN chunks', ~chunks'[b].used
        PROVE  \E j \in DOMAIN free_lists' : free_lists'[j].at = b
    BY <1>3, <1>8, <1>10, <1>14, <2>1 DEF ListedOnce, InUse, a
  <2>2. ASSUME NEW j \in DOMAIN free_lists'
        PROVE  /\ free_lists'[j].at \in DOMAIN chunks' /\ ~chunks'[free_lists'[j].at].used
               /\ \A k \in DOMAIN free_lists' : free_lists'[j].at = free_lists'[k].at => j = k
    <3>1. PICK j1 \in DOMAIN free_lists :
            j1 # i /\ free_lists'[j] = free_lists[j1] /\ j1 = IF j < i THEN j ELSE j + 1
      BY <1>13
    <3>2. free_lists[j1].at # a
      BY <1>8, <3>1
    <3>3. free_lists[j1].at \in DOMAIN chunks /\ ~chunks[free_lists[j1].at].used
      BY <1>3 DEF ListedOnce
    <3>4. ASSUME NEW k \in DOMAIN free_lists', free_lists'[j].at = free_lists'[k].at
          PROVE  j = k
      <4>1. PICK k1 \in DOMAIN free_lists :
              k1 # i /\ free_lists'[k] = free_lists[k1] /\ k1 = IF k < i THEN k ELSE k + 1
        BY <1>13
      <4>2. j1 = k1
        BY <1>3, <3>1, <3>4, <4>1 DEF ListedOnce
      <4> QED
        BY <1>8, <1>11, <1>12, <3>1, <4>1, <4>2
    <3> QED
      BY <1>10, <3>1, <3>2, <3>3, <3>4
  <2> QED
    BY <2>1, <2>2 DEF ListedOnce
<1>17. ASSUME NEW b \in DOMAIN chunks PROVE OfItsZone(b, zones[b])'
  <2>1. CASE b = a
    BY <1>9, <1>10, <2>1 DEF OfItsZone, InUse
  <2>2. CASE b # a
    <3>1. OfItsZone(b, zones[b]) /\ chunks'[b] = chunks[b]
      BY <1>4, <1>10, <2>2 DEF Tiled
    <3>2. ASSUME NEW j \in DOMAIN free_lists, free_lists[j] = [zone |-> zones[b], at |-> b]
          PROVE  \E k \in DOMAIN free_lists' : free_lists'[k] = [zone |-> zones[b], at |-> b]
      BY <1>14, <2>2, <3>2 DEF a
    <3> QED
      BY <3>1, <3>2 DEF OfItsZone
  <2> QED
    BY <2>1, <2>2
<1>18. Tiled(zones)'
  BY <1>2, <1>4, <1>10, <1>17 DEF Tiled
<1> QED
  BY <1>10, <1>15, <1>16, <1>18 DEF MemInv

(* mp_free puts the chunk into the list of the zone it was carved for.     *)
LEMMA FreeHolds ==
  ASSUME MemInv, NEW a \in DOMAIN chunks, mp_free(a)
  PROVE  MemInv'
<1> DEFINE zone == mem_zoneindex(MEM_CHUNK_SIZE(chunks[a].size))
           e == [zone |-> zone, at |-> a]
<1>1. MemTyped /\ ListedOnce
  BY DEF MemInv
<1>2. PICK zones \in [DOMAIN chunks -> Zone] : Tiled(zones)
  BY DEF MemInv
<1>3. /\ chunks[a].used /\ UNCHANGED pos
      /\ chunks' = [chunks EXCEPT ![a] = [used |-> FALSE, size |-> 0]]
      /\ free_lists' = Append(free_lists, e)
  BY DEF mp_free
<1>4. zones[a] = zone /\ zone \in Zone /\ a \in Nat
  BY <1>1, <1>2, <1>3 DEF Tiled, OfItsZone, MemTyped
<1>5. zone \in Nat
  BY <1>4 DEF Zone, MEM_ZONE_COUNT
<1> HIDE DEF zone
<1>6. e \in FreeEntry /\ e.at = a /\ e.zone = zone
  BY <1>4, <1>5 DEF FreeEntry
<1> HIDE DEF e
<1>7. /\ free_lists' \in Seq(FreeEntry) /\ Len(free_lists) \in Nat
      /\ DOMAIN free_lists = 1..Len(free_lists) /\ DOMAIN free_lists' = 1..(Len(free_lists) + 1)
      /\ \A j \in 1..Len(free_lists) : free_lists'[j] = free_lists[j]
      /\ free_lists'[Len(free_lists) + 1] = e
  BY <1>1, <1>3, <1>6, AppendProperties DEF MemTyped
<1>8. /\ DOMAIN chunks' = DOMAIN chunks /\ chunks'[a] = [used |-> FALSE, size |-> 0]
      /\ \A b \in DOMAIN chunks : b # a => chunks'[b] = chunks[b]
  BY <1>3
<1>9. MemTyped'
  <2>1. [used |-> FALSE, size |-> 0] \in Chunk
    BY DEF Chunk
  <2> QED
    BY <1>1, <1>3, <1>7, <2>1 DEF MemTyped
<1>10. \A j \in DOMAIN free_lists : free_lists[j].at # a
  BY <1>1, <1>3 DEF ListedOnce
<1>11. ListedOnce'
  <2>1. ASSUME NEW b \in DOMAIN chunks', ~chunks'[b].used
        PROVE  \E j \in DOMAIN free_lists' : free_lists'[j].at = b
    <3>1. CASE b = a
      BY <1>6, <1>7, <3>1
    <3>2. CASE b # a
      <4>1. PICK j \in DOMAIN free_lists : free_lists[j].at = b
        BY <1>1, <1>8, <2>1, <3>2 DEF ListedOnce
      <4> QED
        BY <1>7, <4>1
    <3> QED
      BY <3>1, <3>2
  <2>2. ASSUME NEW j \in DOMAIN free_lists'
        PROVE  /\ free_lists'[j].at \in DOMAIN chunks' /\ ~chunks'[free_lists'[j].at].used
               /\ \A k \in DOMAIN free_lists' : free_lists'[j].at = free_lists'[k].at => j = k
    <3>1. j \in DOMAIN free_lists \/ j = Len(free_lists) + 1
      BY <1>7
    <3>2. CASE j \in DOMAIN free_lists
      BY <1>1, <1>6, <1>7, <1>8, <1>10, <3>2 DEF ListedOnce
    <3>3. CASE j = Len(free_lists) + 1
      BY <1>6, <1>7, <1>8, <1>10, <3>3
    <3> QED
      BY <3>1, <3>2, <3>3
  <2> QED
    BY <2>1, <2>2 DEF ListedOnce
<1>12. ASSUME NEW b \in DOMAIN chunks PROVE OfItsZone(b, zones[b])'
  <2>1. CASE b = a
    BY <1>4, <1>7, <1>8, <2>1 DEF OfItsZone, e
  <2>2. CASE b # a
    <3>1. OfItsZone(b, zones[b]) /\ chunks'[b] = chunks[b]
      BY <1>2, <1>8, <2>2 DEF Tiled
    <3> QED
      BY <1>7, <3>1 DEF OfItsZone
  <2> QED
    BY <2>1, <2>2
<1>13. Tiled(zones)'
  BY <1>2, <1>3, <1>8, <1>12 DEF Tiled
<1> QED
  BY <1>8, <1>9, <1>11, <1>13 DEF MemInv
-----------------------------------------------------------------------------
(* Chunks that lie behind one another by their zones' sizes do not touch.  *)
LEMMA MemInvIsApart == MemInv => BlocksApart
<1> SUFFICES ASSUME MemInv PROVE BlocksApart
  OBVIOUS
<1>1. MemTyped /\ ListedOnce
  BY DEF MemInv
<1>2. PICK zones \in [DOMAIN chunks -> Zone] : Tiled(zones)
  BY DEF MemInv
<1>3. ASSUME NEW a \in DOMAIN chunks
      PROVE  /\ a \in Nat /\ Extent(a) \in Nat /\ SizeOfZone(zones[a]) \in Nat
             /\ Extent(a) <= SizeOfZone(zones[a])
  <2>1. a \in Nat /\ zones[a] \in Zone /\ OfItsZone(a, zones[a])
    BY <1>1, <1>2 DEF MemTyped, Tiled
  <2>2. SizeOfZone(zones[a]) \in Nat /\ SizeOfZone(zones[a]) > ChunkHeader
    BY <2>1, ZoneSize
  <2>3. CASE chunks[a].used
    <3>1. /\ chunks[a].size \in BlockSizes
          /\ mem_zoneindex(MEM_CHUNK_SIZE(chunks[a].size)) = zones[a]
      BY <2>1, <2>3 DEF OfItsZone
    <3>2. zones[a] < MEM_ZONE_COUNT
      BY <2>1 DEF Zone, MEM_ZONE_COUNT
    <3> QED
      BY <2>1, <2>2, <2>3, <3>1, <3>2, RequestIs DEF Extent
  <2>4. CASE ~chunks[a].used
    BY <2>1, <2>2, <2>4 DEF Extent, ChunkHeader
  <2> QED
    BY <2>3, <2>4
<1>4. /\ \A a \in DOMAIN chunks : a >= ZoneHeader * MEM_ZONE_COUNT
                                  /\ a + SizeOfZone(zones[a]) <= PoolBytes
      /\ \A a, b \in DOMAIN chunks : a < b => a + SizeOfZone(zones[a]) <= b
  BY <1>2 DEF Tiled
<1>5. Apart
  BY <1>3, <1>4 DEF Apart
<1>6. InPool
  BY <1>3, <1>4, MemAssumption DEF InPool
<1> QED
  BY <1>1, <1>5, <1>6 DEF BlocksApart

(* Blocks of any sizes, given and given back in any order, do not touch    *)
(* one another nor the zones, and no chunk is lost or in two lists: mp_free *)
(* finds by the size that was asked for the zone mp_alloc carved it for.   *)
THEOREM BlocksStayApart == MemSpec => []BlocksApart
<1>1. MemInit => MemInv
  BY MemInitHolds
<1>2. MemInv /\ [MemNext]_memVars => MemInv'
  <2> SUFFICES ASSUME MemInv, [MemNext]_memVars PROVE MemInv'
    OBVIOUS
  <2>1. ASSUME NEW size \in BlockSizes, mp_alloc(size) PROVE MemInv'
    BY <2>1, CarveHolds, ReuseHolds DEF mp_alloc
  <2>2. ASSUME NEW a \in DOMAIN chunks, mp_free(a) PROVE MemInv'
    BY <2>2, FreeHolds
  <2>3. CASE UNCHANGED memVars
    BY <2>3 DEF memVars, MemInv, MemTyped, ListedOnce, Tiled, OfItsZone
  <2> QED
    BY <2>1, <2>2, <2>3 DEF MemNext
<1>3. MemInv => BlocksApart
  BY MemInvIsApart
<1> QED
  BY <1>1, <1>2, <1>3, PTL DEF MemSpec
-----------------------------------------------------------------------------
(***************************************************************************)
(* Runloops.  A living task is the one that the table names, or the one    *)
(* just created; a report or notice names a living task only of a runloop  *)
(* that got a block still named; and the module's copy is the handle of    *)
(* its task, or a notice that waits makes it so, behind which none waits   *)
(* that would take it away again.                                          *)
(***************************************************************************)
Blocks == {DeadBlock, FreeBlock} \cup {Task(r) : r \in Runloop}
Reports == [r : Runloop \cup {NoRunloop}, handle : Handles \cup {NULL_PTR}]
Notes == [to : Subscribers, kind : {"ABNORMAL", "UPDATE"}, r : Runloop,
          handle : Handles \cup {NULL_PTR}]
Places == [at : {"wait", "check", "look", "reset", "create", "enter", "tell"}, r : Nat,
           handle : Handles \cup {NULL_PTR}]

(* The types of the state, and which runloop and block the supervisor has.  *)
RunloopTyped ==
  /\ runloops \in [Runloop -> Handles \cup {NULL_PTR}]
  /\ tcb \in [Handles -> Blocks]
  /\ supervisor \in Places
  /\ supervisor.at \notin {"wait", "check"} => supervisor.r \in Runloop
  /\ supervisor.at \in {"look", "enter", "tell"} => supervisor.handle \in Handles
  /\ sup_queue \in Seq(Reports)
  /\ module_handle \in [Subscribers -> Handles \cup {NULL_PTR}]
  /\ notes \in Seq(Notes)
  /\ excused \in [Excuses -> SUBSET Runloop]

(* The three states of a control block differ, and a task names its runloop. *)
LEMMA BlockIs ==
  /\ \A b \in Blocks : b.is = "task" => \E r \in Runloop : b = Task(r)
  /\ \A r : Task(r).is = "task"
  /\ \A q, r : Task(q) = Task(r) => q = r
  /\ DeadBlock.is # "task" /\ FreeBlock.is # "task" /\ DeadBlock # FreeBlock
  BY DEF Blocks, DeadBlock, FreeBlock, Task

(* The numbers of runloops and control blocks, with none as 0.              *)
LEMMA RunloopsAre ==
  /\ Runloop \subseteq Nat /\ Handles \subseteq Nat
  /\ NULL_PTR \notin Handles /\ NoRunloop \notin Runloop
  /\ Subscribers \subseteq Runloop /\ Runloop \subseteq Handles
  BY RunloopAssumption DEF Runloop, Handles, NULL_PTR, NoRunloop

(* The sequence of a finite set has all of its elements and no others.      *)
LEMMA SetToSeqIs ==
  ASSUME NEW S, IsFiniteSet(S)
  PROVE  /\ SetToSeq(S) \in Seq(S)
         /\ \A x \in S : \E i \in 1..Len(SetToSeq(S)) : SetToSeq(S)[i] = x
<1> DEFINE n == Cardinality(S)
<1>1. n \in Nat /\ ExistsBijection(1..n, S)
  BY FS_CardinalityType
<1>2. PICK f \in Bijection(1..n, S) : TRUE
  BY <1>1 DEF ExistsBijection
<1>3. f \in [1..n -> S] /\ IsInjective(f)
  BY <1>2 DEF Bijection, Injection, IsInjective
<1>4. SetToSeq(S) \in [1..n -> S] /\ IsInjective(SetToSeq(S))
  BY <1>3 DEF SetToSeq
<1> DEFINE g == SetToSeq(S)
<1>5. g \in Seq(S) /\ Len(g) = n
  BY <1>1, <1>4
<1>6. g \in Surjection(1..n, S)
  <2>1. g \in Injection(1..n, S) /\ Cardinality(1..n) = n
    BY <1>1, <1>4, FS_Interval DEF Injection
  <2> QED BY <2>1, FS_Injection
<1>7. \A x \in S : \E i \in 1..n : g[i] = x
  BY <1>6 DEF Surjection
<1> QED BY <1>5, <1>7

(* What a notice says, whoever it is for.                                   *)
Says(n, kind, r, h) == n.kind = kind /\ n.r = r /\ n.handle = h

(* tbox_message_publish puts a message for each subscriber behind those     *)
(* that wait, but for the one that is lost.                                 *)
LEMMA Published ==
  ASSUME RunloopTyped, NEW kind \in {"ABNORMAL", "UPDATE"}, NEW r \in Runloop,
         NEW h \in Handles \cup {NULL_PTR}, Publish(kind, r, h)
  PROVE  \E lost \in SUBSET Subscribers, added \in Seq(Notes) :
           /\ notes' = notes \o added
           /\ \A i \in 1..Len(added) : Says(added[i], kind, r, h)
           /\ \A s \in Subscribers \ lost : \E i \in 1..Len(added) : added[i].to = s
           /\ \/ UNCHANGED excused /\ (kind = "ABNORMAL" \/ r \notin lost)
              \/ excused' = Excuse("missed", {r}) /\ kind = "UPDATE"
<1>1. PICK lost \in {{}} \cup {{s} : s \in Subscribers} :
        /\ notes' = notes \o SetToSeq({Note(s, kind, r, h) : s \in Subscribers \ lost})
        /\ excused' = IF kind = "UPDATE" /\ r \in lost THEN Excuse("missed", {r}) ELSE excused
  BY DEF Publish
<1> DEFINE S == {Note(s, kind, r, h) : s \in Subscribers \ lost}
           added == SetToSeq(S)
<1>2. IsFiniteSet(S)
  <2>1. IsFiniteSet(Runloop)
    <3>1. 1 \in Int /\ RunloopNum \in Int
      BY RunloopAssumption
    <3>2. IsFiniteSet(1..RunloopNum)
      BY <3>1, FS_Interval
    <3> QED BY <3>2 DEF Runloop
  <2>2. IsFiniteSet(Subscribers \ lost)
    BY <2>1, FS_Subset, RunloopsAre
  <2>3. [s \in Subscribers \ lost |-> Note(s, kind, r, h)] \in Surjection(Subscribers \ lost, S)
    BY DEF Surjection
  <2> QED BY <2>2, <2>3, FS_Surjection
<1>3. S \subseteq Notes
  BY DEF Note, Notes
<1>4. added \in Seq(S) /\ \A x \in S : \E i \in 1..Len(added) : added[i] = x
  BY <1>2, SetToSeqIs
<1> HIDE DEF added
<1>5. added \in Seq(Notes) /\ \A i \in 1..Len(added) : added[i] \in S
  BY <1>3, <1>4
<1>6. \A i \in 1..Len(added) : Says(added[i], kind, r, h)
  BY <1>5 DEF Note, Says
<1>7. ASSUME NEW s \in Subscribers \ lost PROVE \E i \in 1..Len(added) : added[i].to = s
  <2>1. Note(s, kind, r, h) \in S /\ Note(s, kind, r, h).to = s
    BY DEF Note
  <2> QED BY <1>4, <2>1
<1>8. lost \in SUBSET Subscribers
  BY <1>1
<1>9. notes' = notes \o added
  BY <1>1 DEF added
<1> QED BY <1>1, <1>5, <1>6, <1>7, <1>8, <1>9

(* An excuse adds runloops to one list, and takes none from any.            *)
LEMMA ExcuseIs ==
  ASSUME RunloopTyped, NEW e \in Excuses, NEW R \in SUBSET Runloop
  PROVE  /\ Excuse(e, R) \in [Excuses -> SUBSET Runloop]
         /\ \A d \in Excuses : excused[d] \subseteq Excuse(e, R)[d]
         /\ R \subseteq Excuse(e, R)[e]
  BY DEF Excuse, RunloopTyped

(* The places that the actions send the supervisor to.                      *)
LEMMA PlaceIs ==
  ASSUME NEW step, NEW r, NEW h
  PROVE  /\ At(step, r, h).at = step /\ At(step, r, h).r = r /\ At(step, r, h).handle = h
         /\ WaitsForWork.at = "wait"
         /\ step \in {"wait", "check", "look", "reset", "create", "enter", "tell"} /\ r \in Nat
              /\ h \in Handles \cup {NULL_PTR} => At(step, r, h) \in Places
         /\ WaitsForWork \in Places
  BY DEF At, WaitsForWork, Places, NoRunloop

(* The variables that tell of supervisor and reports.                       *)
LEMMA StepTyped ==
  ASSUME RunloopTyped, RunloopNext
  PROVE  RunloopTyped'
<1> DEFINE Table == runloops \in [Runloop -> Handles \cup {NULL_PTR}]
           Block == tcb \in [Handles -> Blocks]
           Place == /\ supervisor \in Places
                    /\ supervisor.at \notin {"wait", "check"} => supervisor.r \in Runloop
                    /\ supervisor.at \in {"look", "enter", "tell"} => supervisor.handle \in Handles
           Queue == sup_queue \in Seq(Reports)
           Copy == module_handle \in [Subscribers -> Handles \cup {NULL_PTR}]
           Mail == notes \in Seq(Notes)
           Luck == excused \in [Excuses -> SUBSET Runloop]
<1>0. Table /\ Block /\ Place /\ Queue /\ Copy /\ Mail /\ Luck
  BY DEF RunloopTyped
<1>1. SUFFICES Table' /\ Block' /\ Place' /\ Queue' /\ Copy' /\ Mail' /\ Luck'
  BY DEF RunloopTyped
<1>2. supervisor \in Places /\ supervisor.r \in Nat /\ supervisor.r + 1 \in Nat /\ 1 \in Nat
      /\ (supervisor.at \in {"reset", "create", "enter", "tell"} => supervisor.r \in Runloop)
  BY <1>0 DEF Places
<1>3. ASSUME NEW h \in Handles, Dies(h) \/ IdleFrees(h)
      PROVE  Table' /\ Block' /\ Place' /\ Queue' /\ Copy' /\ Mail' /\ Luck'
  BY <1>0, <1>3 DEF Dies, IdleFrees, Blocks
<1>4. CASE Timeout
  <2>1. Queue'
    <3>1. SlotReport \in Reports
      BY DEF SlotReport, Reports
    <3>2. sup_queue' = sup_queue \/ sup_queue' = Append(sup_queue, SlotReport)
      BY <1>4 DEF Timeout
    <3> QED BY <1>0, <3>1, <3>2
  <2>2. Place'
    BY <1>2, <1>4, PlaceIs DEF Timeout
  <2> QED BY <1>0, <1>4, <2>1, <2>2 DEF Timeout
<1>5. CASE CheckRunloop
  <2>1. Place'
    <3>1. CASE runloops[supervisor.r] = NULL_PTR
      BY <1>0, <1>2, <1>5, <3>1 DEF CheckRunloop, Places
    <3>2. CASE runloops[supervisor.r] # NULL_PTR
      BY <1>0, <1>2, <1>5, <3>2, PlaceIs DEF CheckRunloop
    <3> QED BY <3>1, <3>2
  <2> QED BY <1>0, <1>5, <2>1 DEF CheckRunloop
<1>6. CASE LooksAlive \/ CheckEnds
  <2>1. Place'
    BY <1>2, <1>6, PlaceIs DEF LooksAlive, CheckEnds
  <2> QED BY <1>0, <1>6, <2>1 DEF LooksAlive, CheckEnds
<1>7. CASE FoundDead
  <2>1. Place'
    BY <1>2, <1>7, PlaceIs DEF FoundDead
  <2>2. supervisor.r \in Runloop /\ supervisor.handle \in Handles
    BY <1>0, <1>7 DEF FoundDead
  <2>3. Queue'
    <3> DEFINE rep == [r |-> supervisor.r, handle |-> supervisor.handle]
    <3>1. rep \in Reports
      BY <2>2 DEF Reports
    <3>2. UNCHANGED sup_queue \/ sup_queue' = Append(sup_queue, rep)
      BY <1>7 DEF FoundDead
    <3> HIDE DEF rep
    <3> QED BY <1>0, <3>1, <3>2
  <2>5. Table'
    BY <1>0, <1>7 DEF FoundDead
  <2>4. Luck'
    BY <1>0, <1>7, <2>2, ExcuseIs DEF FoundDead, Excuses
  <2> QED BY <1>0, <1>7, <2>1, <2>3, <2>4, <2>5 DEF FoundDead
<1>8. CASE TakeReport
  <2>1. Table' /\ Block' /\ Copy'
    BY <1>0, <1>8 DEF TakeReport
  <2>2. CASE sup_queue = <<>> \/ Head(sup_queue).r = NoRunloop
    <3>1. Queue' /\ UNCHANGED <<supervisor, notes, excused>>
      BY <1>0, <1>8, <2>2 DEF TakeReport
    <3> QED BY <1>0, <2>1, <3>1
  <2>3. CASE sup_queue # <<>> /\ Head(sup_queue).r # NoRunloop
    <3> DEFINE rep == Head(sup_queue)
    <3>1. /\ Queue' /\ rep.r \in Runloop /\ rep.handle \in Handles \cup {NULL_PTR}
          /\ supervisor' = At("reset", rep.r, NULL_PTR) /\ Publish("ABNORMAL", rep.r, rep.handle)
      <4>1. sup_queue \in Seq(Reports) /\ rep \in Reports /\ Tail(sup_queue) \in Seq(Reports)
        BY <1>0, <2>3
      <4>2. rep.r \in Runloop /\ rep.handle \in Handles \cup {NULL_PTR}
        BY <4>1, <2>3 DEF Reports
      <4>3. /\ sup_queue' = Tail(sup_queue)
            /\ supervisor' = At("reset", rep.r, NULL_PTR) /\ Publish("ABNORMAL", rep.r, rep.handle)
        BY <1>8, <2>3 DEF TakeReport
      <4> QED BY <4>1, <4>2, <4>3
    <3> HIDE DEF rep
    <3>2. Place'
      <4>1. rep.r \in Nat /\ At("reset", rep.r, NULL_PTR) \in Places
        BY <3>1, PlaceIs, RunloopsAre
      <4> QED BY <3>1, <4>1, PlaceIs
    <3>3. Mail' /\ UNCHANGED excused
      <4>1. PICK lost \in SUBSET Subscribers, added \in Seq(Notes) :
              notes' = notes \o added /\ UNCHANGED excused
        BY <3>1, Published
      <4> QED BY <1>0, <4>1
    <3> QED BY <1>0, <2>1, <3>1, <3>2, <3>3
  <2> QED BY <2>2, <2>3
<1>9. CASE tbox_reset_task
  <2>1. CASE tbox_task_delete_task_by_handle
    <3>1. Place'
      BY <1>0, <2>1 DEF tbox_task_delete_task_by_handle, Places
    <3> QED BY <1>0, <2>1, <3>1 DEF tbox_task_delete_task_by_handle, Blocks
  <2>2. CASE CreateFails
    <3>1. Luck'
      BY <1>2, <2>2, ExcuseIs DEF CreateFails, Excuses
    <3> QED BY <1>0, <2>2, <3>1, PlaceIs DEF CreateFails
  <2>3. CASE EnterTask
    BY <1>0, <1>2, <2>3 DEF EnterTask, Places
  <2>4. CASE TellModules
    <3>1. Mail' /\ Luck'
      <4>1. PICK lost \in SUBSET Subscribers, added \in Seq(Notes) :
              /\ notes' = notes \o added
              /\ UNCHANGED excused \/ excused' = Excuse("missed", {supervisor.r})
        <5>1. /\ supervisor.r \in Runloop /\ supervisor.handle \in Handles \cup {NULL_PTR}
              /\ Publish("UPDATE", supervisor.r, supervisor.handle)
          BY <1>0, <2>4 DEF TellModules
        <5> QED BY <5>1, Published
      <4>2. Mail'
        BY <1>0, <4>1
      <4>3. Excuse("missed", {supervisor.r}) \in [Excuses -> SUBSET Runloop]
        BY <1>2, <2>4, ExcuseIs DEF TellModules, Excuses
      <4> QED BY <1>0, <4>1, <4>2, <4>3
    <3> QED BY <1>0, <2>4, <3>1, PlaceIs DEF TellModules
  <2>5. ASSUME NEW h \in Handles, CreateTask(h)
        PROVE  Table' /\ Block' /\ Place' /\ Queue' /\ Copy' /\ Mail' /\ Luck'
    <3>1. Place' /\ Block'
      BY <1>0, <1>2, <2>5 DEF CreateTask, Places, Blocks
    <3>2. Luck'
      BY <1>0, <1>2, <2>5 DEF CreateTask
    <3> QED BY <1>0, <2>5, <3>1, <3>2 DEF CreateTask
  <2> QED BY <1>9, <2>1, <2>2, <2>3, <2>4, <2>5 DEF tbox_reset_task
<1>10. ASSUME NEW i \in DOMAIN notes, HandleNote(i)
       PROVE  Table' /\ Block' /\ Place' /\ Queue' /\ Copy' /\ Mail' /\ Luck'
  <2>1. i \in 1..Len(notes) /\ notes[i] \in Notes
    BY <1>0
  <2>2. Mail'
    BY <1>0, <1>10, <2>1 DEF HandleNote, RemoveAt
  <2>3. Copy'
    BY <1>0, <1>10, <2>1 DEF HandleNote, HandleAfter, Notes
  <2>4. Luck'
    <3>1. notes[i].to \in Runloop
      BY <2>1, RunloopsAre DEF Notes
    <3>2. Excuse("late", {notes[i].to}) \in [Excuses -> SUBSET Runloop]
      BY <3>1, ExcuseIs DEF Excuses
    <3> QED BY <1>0, <1>10, <3>2 DEF HandleNote
  <2> QED BY <1>0, <1>10, <2>2, <2>3, <2>4 DEF HandleNote
<1> QED BY <1>3, <1>4, <1>5, <1>6, <1>7, <1>8, <1>9, <1>10 DEF RunloopNext

(* A living task of a runloop is the one the table names, or was just       *)
(* created and is not entered yet.                                          *)
NamesTasks ==
  \A r \in Runloop : \A h \in Tasks(r) :
    \/ runloops[r] = h
    \/ supervisor.at = "enter" /\ supervisor.r = r /\ supervisor.handle = h

(* What the supervisor has in its hands at each step.                       *)
AtHand ==
  /\ supervisor.at = "look" => runloops[supervisor.r] = supervisor.handle
  /\ supervisor.at = "create" => Tasks(supervisor.r) = {}
  /\ supervisor.at = "enter" => Tasks(supervisor.r) \subseteq {supervisor.handle}
  /\ supervisor.at = "tell" => runloops[supervisor.r] = supervisor.handle
  /\ supervisor.at \in {"enter", "tell"} =>
       tcb[supervisor.handle] \in {Task(supervisor.r), DeadBlock, FreeBlock}

(* The blocks that are no task.                                             *)
Blank == {DeadBlock, FreeBlock}

(* Where blocks only become blank no runloop gets a task.                   *)
LEMMA FewerTasks ==
  ASSUME RunloopTyped, \A h \in Handles : tcb'[h] = tcb[h] \/ tcb'[h] \in Blank
  PROVE  \A r \in Runloop : Tasks(r)' \subseteq Tasks(r)
  BY BlockIs DEF Tasks, Blank

(* Steps that leave table and supervisor alone, or only end tasks.          *)
LEMMA NamesStay ==
  ASSUME RunloopTyped, NamesTasks, AtHand, UNCHANGED <<runloops, supervisor>>,
         \A h \in Handles : tcb'[h] = tcb[h] \/ tcb'[h] \in Blank
  PROVE  NamesTasks' /\ AtHand'
<1>1. \A r \in Runloop : Tasks(r)' \subseteq Tasks(r)
  BY FewerTasks
<1>2. NamesTasks'
  BY <1>1 DEF NamesTasks
<1>3. AtHand'
  BY <1>1 DEF AtHand, RunloopTyped, Blank
<1> QED BY <1>2, <1>3

(* Steps by which the supervisor goes on without a task in its hands.       *)
LEMMA NamesGoOn ==
  ASSUME NamesTasks, supervisor.at # "enter", UNCHANGED <<runloops, tcb>>,
         supervisor'.at \in {"wait", "check", "reset"}
  PROVE  NamesTasks' /\ AtHand'
  BY DEF NamesTasks, AtHand, Tasks

(* Every step leaves a living task where the table or the supervisor names it. *)
LEMMA NamesStep ==
  ASSUME RunloopTyped, NamesTasks, AtHand, RunloopNext
  PROVE  NamesTasks' /\ AtHand'
<1>1. /\ runloops \in [Runloop -> Handles \cup {NULL_PTR}] /\ tcb \in [Handles -> Blocks]
      /\ supervisor \in Places /\ NULL_PTR \notin Handles
      /\ supervisor.at \notin {"wait", "check"} => supervisor.r \in Runloop
      /\ supervisor.at \in {"look", "enter", "tell"} => supervisor.handle \in Handles
  BY RunloopsAre DEF RunloopTyped
<1>2. ASSUME NEW h \in Handles, Dies(h) \/ IdleFrees(h) PROVE NamesTasks' /\ AtHand'
  BY <1>1, <1>2, NamesStay DEF Dies, IdleFrees, Blank
<1>3. ASSUME NEW i \in DOMAIN notes, HandleNote(i) PROVE NamesTasks' /\ AtHand'
  BY <1>3, NamesStay DEF HandleNote
<1>4. CASE Timeout \/ LooksAlive \/ CheckEnds
  BY <1>4, NamesGoOn, PlaceIs DEF Timeout, LooksAlive, CheckEnds
<1>5. CASE CheckRunloop
  <2>1. CASE runloops[supervisor.r] = NULL_PTR
    BY <1>1, <1>5, <2>1, NamesGoOn DEF CheckRunloop, Places
  <2>2. CASE runloops[supervisor.r] # NULL_PTR
    <3>1. /\ supervisor.at = "check" /\ supervisor'.at = "look" /\ UNCHANGED <<runloops, tcb>>
          /\ runloops'[supervisor'.r] = supervisor'.handle
      BY <1>1, <1>5, <2>2, PlaceIs DEF CheckRunloop
    <3> QED BY <3>1 DEF NamesTasks, AtHand, Tasks
  <2> QED BY <2>1, <2>2
<1>6. CASE FoundDead
  <2>1. /\ supervisor.at = "look" /\ supervisor'.at = "check" /\ UNCHANGED tcb
        /\ runloops' = [runloops EXCEPT ![supervisor.r] = NULL_PTR]
        /\ tcb[supervisor.handle].is # "task"
    BY <1>6, PlaceIs DEF FoundDead
  <2>2. Tasks(supervisor.r) = {}
    BY <1>1, <2>1, BlockIs DEF NamesTasks, AtHand, Tasks
  <2> QED BY <1>1, <2>1, <2>2 DEF NamesTasks, AtHand, Tasks
<1>7. CASE TakeReport
  <2>1. supervisor.at = "wait" /\ UNCHANGED <<runloops, tcb>>
        /\ supervisor'.at \in {"wait", "reset"}
    BY <1>7, PlaceIs DEF TakeReport
  <2> QED BY <2>1, NamesGoOn
<1>8. CASE tbox_task_delete_task_by_handle
  <2> DEFINE r == supervisor.r
             h == runloops[r]
  <2>1. /\ supervisor.at = "reset" /\ supervisor'.at = "create" /\ supervisor'.r = r
        /\ UNCHANGED runloops
        /\ tcb' = IF h # NULL_PTR /\ tcb[h].is = "task" THEN [tcb EXCEPT ![h] = DeadBlock] ELSE tcb
    BY <1>1, <1>8 DEF tbox_task_delete_task_by_handle, Places
  <2>2. \A g \in Handles : tcb'[g] = tcb[g] \/ tcb'[g] \in Blank
    BY <1>1, <2>1 DEF Blank
  <2>3. \A q \in Runloop : Tasks(q)' \subseteq Tasks(q)
    BY <2>2, FewerTasks
  <2>4. Tasks(r)' = {}
    <3>1. Tasks(r) \subseteq {h}
      BY <1>1, <2>1 DEF NamesTasks
    <3>2. h \in Handles => tcb'[h] # Task(r)
      BY <1>1, <2>1, BlockIs
    <3> QED BY <1>1, <2>1, <2>3, <3>1, <3>2 DEF Tasks
  <2> QED BY <2>1, <2>3, <2>4 DEF NamesTasks, AtHand
<1>9. CASE CreateFails \/ TellModules
  BY <1>9, NamesGoOn, PlaceIs DEF CreateFails, TellModules
<1>10. CASE EnterTask
  <2>1. /\ supervisor.at = "enter" /\ supervisor'.at = "tell" /\ supervisor'.r = supervisor.r
        /\ supervisor'.handle = supervisor.handle /\ UNCHANGED tcb
        /\ runloops' = [runloops EXCEPT ![supervisor.r] = supervisor.handle]
    BY <1>1, <1>10 DEF EnterTask, Places
  <2> QED BY <1>1, <2>1 DEF NamesTasks, AtHand, Tasks
<1>11. ASSUME NEW h \in Handles, CreateTask(h) PROVE NamesTasks' /\ AtHand'
  <2> DEFINE r == supervisor.r
  <2>1. /\ supervisor.at = "create" /\ supervisor'.at = "enter" /\ supervisor'.r = r
        /\ supervisor'.handle = h /\ tcb' = [tcb EXCEPT ![h] = Task(r)] /\ UNCHANGED runloops
    BY <1>1, <1>11 DEF CreateTask, Places
  <2>2. Tasks(r)' = {h} /\ \A q \in Runloop \ {r} : Tasks(q)' \subseteq Tasks(q)
    BY <1>1, <2>1, BlockIs DEF AtHand, Tasks
  <2> QED BY <1>1, <2>1, <2>2 DEF NamesTasks, AtHand
<1> QED
  BY <1>2, <1>3, <1>4, <1>5, <1>6, <1>7, <1>8, <1>9, <1>10, <1>11 DEF RunloopNext, tbox_reset_task

(* OneTask is the table's.                                                  *)
(* Tasks are one for each runloop, as the table names one handle for each.  *)
LEMMA OneIsNamed == RunloopTyped /\ NamesTasks /\ AtHand => OneTask
  BY DEF NamesTasks, AtHand, OneTask

(* Excuses are never taken back.                                            *)
LEMMA ExcusesStay ==
  ASSUME RunloopTyped, RunloopNext
  PROVE  \A e \in Excuses : excused[e] \subseteq excused'[e]
<1> SUFFICES ASSUME ~UNCHANGED excused PROVE \A e \in Excuses : excused[e] \subseteq excused'[e]
  OBVIOUS
<1>1. /\ excused \in [Excuses -> SUBSET Runloop] /\ notes \in Seq(Notes)
      /\ supervisor.at \notin {"wait", "check"} => supervisor.r \in Runloop
  BY DEF RunloopTyped
<1>2. CASE \E e \in Excuses, R \in SUBSET Runloop : excused' = Excuse(e, R)
  BY <1>2, ExcuseIs
<1>3. CASE FoundDead \/ CreateFails
  BY <1>1, <1>2, <1>3 DEF FoundDead, CreateFails, Excuses
<1>4. CASE TakeReport \/ TellModules
  BY <1>1, <1>2, <1>4 DEF TakeReport, TellModules, Publish, Excuses
<1>5. ASSUME NEW i \in DOMAIN notes, HandleNote(i)
      PROVE  \A e \in Excuses : excused[e] \subseteq excused'[e]
  <2>1. notes[i].to \in Runloop
    <3>1. notes[i] \in Notes
      BY <1>1
    <3> QED BY <3>1, RunloopsAre DEF Notes
  <2>2. excused' = Excuse("late", {notes[i].to})
    BY <1>5 DEF HandleNote
  <2> QED BY <1>2, <2>1, <2>2 DEF Excuses
<1>6. ASSUME NEW h \in Handles, CreateTask(h)
      PROVE  \A e \in Excuses : excused[e] \subseteq excused'[e]
  BY <1>1, <1>6 DEF CreateTask, Excuses
<1> QED
  BY <1>3, <1>4, <1>5, <1>6 DEF RunloopNext, Dies, IdleFrees, Timeout, CheckRunloop, LooksAlive,
     CheckEnds, tbox_reset_task, tbox_task_delete_task_by_handle, EnterTask

(* Steps that forget no death: they leave the table alone, create no task,  *)
(* and each report goes to the supervisor when it leaves the queue.         *)
LEMMA DeathStays ==
  ASSUME RunloopTyped, NamesTasks, DeathIsKnown, RunloopNext, UNCHANGED runloops,
         \A h \in Handles : tcb'[h] = tcb[h] \/ tcb'[h] \in Blank,
         \A r \in Runloop :
           (Reported(r) => Reported(r)' \/ InRepair(r)') /\ (InRepair(r) => InRepair(r)')
  PROVE  DeathIsKnown'
<1> SUFFICES ASSUME NEW r \in Runloop, Tasks(r)' = {},
                    r \notin (excused["dropped"] \cup excused["failed"] \cup excused["masked"])'
             PROVE  NextCheckFinds(r)' \/ Reported(r)' \/ InRepair(r)'
  BY DEF DeathIsKnown
<1>1. r \notin excused["dropped"] \cup excused["failed"] \cup excused["masked"]
  BY ExcusesStay DEF Excuses
<1>2. runloops \in [Runloop -> Handles \cup {NULL_PTR}] /\ tcb \in [Handles -> Blocks]
      /\ NULL_PTR \notin Handles
  BY RunloopsAre DEF RunloopTyped
<1>3. CASE Tasks(r) = {}
  <2>1. NextCheckFinds(r) \/ Reported(r) \/ InRepair(r)
    BY <1>1, <1>3 DEF DeathIsKnown
  <2>2. NextCheckFinds(r) => NextCheckFinds(r)'
    BY <1>2, BlockIs DEF NextCheckFinds, Blank
  <2> QED BY <2>1, <2>2
<1>4. CASE Tasks(r) # {}
  <2>1. PICK h \in Tasks(r) : TRUE
    BY <1>4
  <2>2. h \in Handles /\ tcb'[h] \in Blank
    BY <2>1 DEF Tasks
  <2>3. runloops[r] = h \/ InRepair(r)
    BY <2>1 DEF NamesTasks, InRepair
  <2>4. runloops[r] = h => NextCheckFinds(r)'
    BY <1>2, <2>2, BlockIs DEF NextCheckFinds, Blank
  <2> QED BY <2>3, <2>4
<1> QED BY <1>3, <1>4

(* A death stays known over every step.                                     *)
LEMMA DeathStep ==
  ASSUME RunloopTyped, NamesTasks, AtHand, DeathIsKnown, RunloopNext
  PROVE  DeathIsKnown'
<1>1. /\ runloops \in [Runloop -> Handles \cup {NULL_PTR}] /\ tcb \in [Handles -> Blocks]
      /\ supervisor \in Places /\ NULL_PTR \notin Handles /\ sup_queue \in Seq(Reports)
      /\ supervisor.at \notin {"wait", "check"} => supervisor.r \in Runloop
      /\ supervisor.at \in {"look", "enter", "tell"} => supervisor.handle \in Handles
  BY RunloopsAre DEF RunloopTyped
<1>2. \A r \in Runloop :
        r \notin (excused["dropped"] \cup excused["failed"] \cup excused["masked"])'
          => r \notin excused["dropped"] \cup excused["failed"] \cup excused["masked"]
  BY ExcusesStay DEF Excuses
<1>3. ASSUME NEW h \in Handles, Dies(h) \/ IdleFrees(h) PROVE DeathIsKnown'
  <2>1. UNCHANGED <<runloops, supervisor, sup_queue>>
        /\ \A g \in Handles : tcb'[g] = tcb[g] \/ tcb'[g] \in Blank
    BY <1>1, <1>3 DEF Dies, IdleFrees, Blank
  <2> QED BY <2>1, DeathStays DEF Reported, InRepair
<1>4. ASSUME NEW i \in DOMAIN notes, HandleNote(i) PROVE DeathIsKnown'
  BY <1>4, DeathStays DEF HandleNote, Reported, InRepair
<1>5. CASE CheckRunloop \/ LooksAlive \/ CheckEnds
  <2>1. UNCHANGED <<runloops, tcb, sup_queue>> /\ supervisor.at \in {"check", "look"}
    BY <1>5 DEF CheckRunloop, LooksAlive, CheckEnds
  <2> QED BY <2>1, DeathStays DEF Reported, InRepair
<1>6. CASE Timeout
  <2>1. UNCHANGED <<runloops, tcb>> /\ supervisor.at = "wait"
        /\ (sup_queue' = sup_queue \/ sup_queue' = Append(sup_queue, SlotReport))
    BY <1>6 DEF Timeout
  <2>2. \A r \in Runloop : Reported(r) => Reported(r)'
    BY <1>1, <2>1 DEF Reported
  <2> QED BY <2>1, <2>2, DeathStays DEF InRepair
<1>7. CASE FoundDead
  <2>0. PICK r \in Runloop : r = supervisor.r
    BY <1>1, <1>7 DEF FoundDead
  <2> DEFINE rep == [r |-> supervisor.r, handle |-> supervisor.handle]
  <2>1. /\ supervisor.at = "look" /\ UNCHANGED tcb
        /\ \A q \in Runloop \ {r} : runloops'[q] = runloops[q]
    BY <1>1, <1>7, <2>0 DEF FoundDead
  <2>2. \/ sup_queue' = Append(sup_queue, rep)
        \/ UNCHANGED sup_queue /\ excused' = Excuse("dropped", {r})
    BY <1>7, <2>0 DEF FoundDead
  <2>3. \A q \in Runloop : Reported(q) => Reported(q)'
    BY <1>1, <2>2 DEF Reported
  <2>4. Reported(r)' \/ r \in excused'["dropped"]
    <3>1. CASE sup_queue' = Append(sup_queue, rep)
      <4>1. rep \in Reports /\ rep.r = r
        BY <1>1, <2>0, <2>1 DEF Reports
      <4> HIDE DEF rep
      <4>2. Len(sup_queue) + 1 \in DOMAIN sup_queue' /\ sup_queue'[Len(sup_queue) + 1] = rep
        BY <1>1, <3>1, <4>1
      <4> QED BY <4>1, <4>2 DEF Reported
    <3>2. CASE excused' = Excuse("dropped", {r})
      BY <2>1, <3>2, ExcuseIs DEF Excuses
    <3> QED BY <2>2, <3>1, <3>2
  <2>5. \A q \in Runloop : ~InRepair(q)
    BY <2>1 DEF InRepair
  <2>6. \A q \in Runloop \ {r} : Tasks(q)' = Tasks(q) /\ (NextCheckFinds(q) => NextCheckFinds(q)')
    BY <2>1 DEF Tasks, NextCheckFinds
  <2>7. ASSUME NEW q \in Runloop, Tasks(q)' = {},
               q \notin (excused["dropped"] \cup excused["failed"] \cup excused["masked"])'
        PROVE  NextCheckFinds(q)' \/ Reported(q)'
    <3>1. CASE q = r
      BY <2>4, <2>7, <3>1
    <3>2. CASE q # r
      <4>1. NextCheckFinds(q) \/ Reported(q)
        BY <1>2, <2>5, <2>6, <2>7, <3>2 DEF DeathIsKnown
      <4> QED BY <2>3, <2>6, <3>2, <4>1
    <3> QED BY <3>1, <3>2
  <2> QED BY <2>7 DEF DeathIsKnown
<1>8. CASE TakeReport
  <2>1. UNCHANGED <<runloops, tcb>> /\ supervisor.at = "wait"
    BY <1>8 DEF TakeReport
  <2>2. ASSUME NEW r \in Runloop, Reported(r) PROVE Reported(r)' \/ InRepair(r)'
    <3>1. sup_queue # <<>> /\ sup_queue' = Tail(sup_queue)
      BY <1>1, <1>8, <2>2 DEF TakeReport, Reported
    <3>2. PICK i \in 1..Len(sup_queue) : sup_queue[i].r = r
      BY <1>1, <2>2 DEF Reported
    <3>3. CASE i = 1
      <4>1. Head(sup_queue).r = r
        BY <3>1, <3>2, <3>3
      <4>2. supervisor' = At("reset", r, NULL_PTR)
        BY <1>8, <3>1, <4>1, RunloopsAre DEF TakeReport
      <4> QED BY <4>2, PlaceIs DEF InRepair
    <3>4. CASE i # 1
      <4>1. i - 1 \in DOMAIN sup_queue' /\ sup_queue'[i - 1] = sup_queue[i]
        BY <1>1, <3>1, <3>2, <3>4
      <4> QED BY <3>2, <4>1 DEF Reported
    <3> QED BY <3>3, <3>4
  <2> QED BY <2>1, <2>2, DeathStays DEF InRepair
<1>9. CASE tbox_task_delete_task_by_handle
  <2>1. /\ UNCHANGED <<runloops, sup_queue>> /\ supervisor'.at = "create"
        /\ supervisor'.r = supervisor.r
        /\ \A h \in Handles : tcb'[h] = tcb[h] \/ tcb'[h] \in Blank
    BY <1>1, <1>9 DEF tbox_task_delete_task_by_handle, Places, Blank
  <2> QED BY <2>1, DeathStays DEF Reported, InRepair
<1>10. CASE CreateFails
  <2>1. UNCHANGED <<runloops, tcb, sup_queue>> /\ excused' = Excuse("failed", {supervisor.r})
        /\ supervisor.r \in Runloop
    BY <1>1, <1>10 DEF CreateFails
  <2>2. supervisor.r \in excused'["failed"]
    BY <2>1, ExcuseIs DEF Excuses
  <2> QED BY <1>2, <2>1, <2>2 DEF DeathIsKnown, Tasks, NextCheckFinds, Reported, InRepair
<1>11. CASE EnterTask
  <2>1. /\ UNCHANGED <<tcb, sup_queue, excused>> /\ supervisor'.r = supervisor.r
        /\ supervisor'.at = "tell"
        /\ \A q \in Runloop \ {supervisor.r} : runloops'[q] = runloops[q]
    BY <1>1, <1>11 DEF EnterTask, Places
  <2> QED BY <2>1 DEF DeathIsKnown, Tasks, NextCheckFinds, Reported, InRepair
<1>12. CASE TellModules
  <2>1. /\ UNCHANGED <<runloops, tcb, sup_queue>> /\ supervisor.at = "tell"
        /\ supervisor.r \in Runloop /\ supervisor.handle \in Handles
    BY <1>1, <1>12 DEF TellModules
  <2>2. Tasks(supervisor.r) = {} => NextCheckFinds(supervisor.r)
    BY <1>1, <2>1, BlockIs DEF AtHand, NextCheckFinds, Tasks
  <2> QED BY <1>2, <2>1, <2>2 DEF DeathIsKnown, Tasks, NextCheckFinds, Reported, InRepair
<1>13. ASSUME NEW h \in Handles, CreateTask(h) PROVE DeathIsKnown'
  <2> DEFINE r == supervisor.r
  <2>1. /\ tcb[h] = FreeBlock /\ tcb' = [tcb EXCEPT ![h] = Task(r)]
        /\ UNCHANGED <<runloops, sup_queue>>
        /\ supervisor'.at = "enter" /\ supervisor'.r = r
        /\ \A q \in Runloop : runloops[q] = h => q \in excused'["masked"]
    BY <1>1, <1>13 DEF CreateTask, Places, RunloopTyped, Excuses
  <2>2. \A q \in Runloop : Tasks(q)' = {} => Tasks(q) = {}
    BY <1>1, <2>1, BlockIs DEF Tasks
  <2>3. ASSUME NEW q \in Runloop, NextCheckFinds(q), q \notin excused'["masked"]
        PROVE  NextCheckFinds(q)'
    BY <1>1, <2>1, <2>3 DEF NextCheckFinds
  <2>4. \A q \in Runloop : (Reported(q) => Reported(q)') /\ (InRepair(q) => InRepair(q)')
    BY <2>1 DEF Reported, InRepair
  <2> QED BY <1>2, <2>2, <2>3, <2>4 DEF DeathIsKnown
<1> QED
  BY <1>3, <1>4, <1>5, <1>6, <1>7, <1>8, <1>9, <1>10, <1>11, <1>12, <1>13
     DEF RunloopNext, tbox_reset_task

(* No report, and no notice of a deleted task, means a living task: only a  *)
(* task that got a block which was still named is taken for the dead one.   *)
NotMeant ==
  \A r \in Runloop \ excused["renamed"] : \A h \in Tasks(r) :
    /\ \A i \in 1..Len(sup_queue) : sup_queue[i].handle # h
    /\ \A i \in 1..Len(notes) : notes[i].kind = "ABNORMAL" => notes[i].handle # h

(* Steps that create no task and name no living one.                        *)
LEMMA NotMeantStays ==
  ASSUME RunloopTyped, NotMeant, RunloopNext,
         \A r \in Runloop : Tasks(r)' \subseteq Tasks(r),
         \A i \in 1..Len(sup_queue') :
           \/ \E j \in 1..Len(sup_queue) : sup_queue[j].handle = sup_queue'[i].handle
           \/ \A r \in Runloop : sup_queue'[i].handle \notin Tasks(r),
         \A i \in 1..Len(notes') :
           \/ notes'[i].kind # "ABNORMAL"
           \/ \E j \in 1..Len(notes) : notes[j] = notes'[i]
           \/ \E j \in 1..Len(sup_queue) : sup_queue[j].handle = notes'[i].handle
  PROVE  NotMeant'
<1>1. \A r \in Runloop : r \notin excused'["renamed"] => r \notin excused["renamed"]
  BY ExcusesStay DEF Excuses
<1>2. ASSUME NEW r \in Runloop, r \notin excused'["renamed"], NEW h \in Tasks(r)'
      PROVE  /\ \A i \in 1..Len(sup_queue') : sup_queue'[i].handle # h
             /\ \A i \in 1..Len(notes') : notes'[i].kind = "ABNORMAL" => notes'[i].handle # h
  <2>1. h \in Tasks(r) /\ r \notin excused["renamed"]
    BY <1>1, <1>2
  <2> QED BY <2>1 DEF NotMeant
<1> QED BY <1>2 DEF NotMeant

(* The elements of two joined sequences, and of one without an element.     *)
LEMMA JoinedIs ==
  ASSUME NEW S, NEW a \in Seq(S), NEW b \in Seq(S)
  PROVE  /\ a \o b \in Seq(S) /\ Len(a \o b) = Len(a) + Len(b)
         /\ \A i \in 1..Len(a) : (a \o b)[i] = a[i]
         /\ \A i \in (Len(a) + 1)..(Len(a) + Len(b)) :
              i - Len(a) \in 1..Len(b) /\ (a \o b)[i] = b[i - Len(a)]
  OBVIOUS

(* The same as Removed, for notices that one of them is taken from.         *)
LEMMA RemovedIs ==
  ASSUME NEW S, NEW s \in Seq(S), NEW i \in 1..Len(s)
  PROVE  /\ RemoveAt(s, i) \in Seq(S) /\ Len(RemoveAt(s, i)) = Len(s) - 1
         /\ \A k \in 1..(Len(s) - 1) :
              RemoveAt(s, i)[k] = s[IF k < i THEN k ELSE k + 1]
<1>1. i \in DOMAIN s /\ Len(s) - 1 \in Nat
  OBVIOUS
<1>2. /\ RemoveAt(s, i) \in Seq(S) /\ DOMAIN RemoveAt(s, i) = 1..(Len(s) - 1)
      /\ \A k \in 1..(Len(s) - 1) : RemoveAt(s, i)[k] = IF k < i THEN s[k] ELSE s[k + 1]
  BY <1>1, Removed
<1> QED BY <1>1, <1>2

(* TellModules puts a notice for each subscriber but the one that is lost.  *)
LEMMA Told ==
  ASSUME RunloopTyped, TellModules
  PROVE  \E lost \in SUBSET Subscribers, added \in Seq(Notes) :
           /\ notes' = notes \o added
           /\ \A i \in 1..Len(added) : Says(added[i], "UPDATE", supervisor.r, supervisor.handle)
           /\ \A s \in Subscribers \ lost : \E i \in 1..Len(added) : added[i].to = s
           /\ supervisor.r \in lost => supervisor.r \in excused'["missed"]
<1>1. PICK kind \in {"ABNORMAL", "UPDATE"}, r \in Runloop, h \in Handles \cup {NULL_PTR} :
        kind = "UPDATE" /\ r = supervisor.r /\ h = supervisor.handle /\ Publish(kind, r, h)
  BY DEF RunloopTyped, TellModules
<1>2. PICK lost \in SUBSET Subscribers, added \in Seq(Notes) :
        /\ notes' = notes \o added
        /\ \A i \in 1..Len(added) : Says(added[i], kind, r, h)
        /\ \A s \in Subscribers \ lost : \E i \in 1..Len(added) : added[i].to = s
        /\ \/ UNCHANGED excused /\ (kind = "ABNORMAL" \/ r \notin lost)
           \/ excused' = Excuse("missed", {r}) /\ kind = "UPDATE"
  BY <1>1, Published
<1>3. r \in Excuse("missed", {r})["missed"]
  BY <1>1, ExcuseIs DEF Excuses
<1>4. r \in lost => r \in excused'["missed"]
  BY <1>1, <1>2, <1>3
<1> QED BY <1>1, <1>2, <1>4

(* Over every step what is named is not alive.                              *)
LEMMA NotMeantStep ==
  ASSUME RunloopTyped, NotMeant, NamesTasks, AtHand, RunloopNext
  PROVE  NotMeant'
<1>1. /\ runloops \in [Runloop -> Handles \cup {NULL_PTR}] /\ tcb \in [Handles -> Blocks]
      /\ supervisor \in Places /\ NULL_PTR \notin Handles
      /\ sup_queue \in Seq(Reports) /\ notes \in Seq(Notes)
      /\ supervisor.at \notin {"wait", "check"} => supervisor.r \in Runloop
      /\ supervisor.at \in {"look", "enter", "tell"} => supervisor.handle \in Handles
  BY RunloopsAre DEF RunloopTyped
<1>2. ASSUME UNCHANGED <<sup_queue, notes>>,
             \A h \in Handles : tcb'[h] = tcb[h] \/ tcb'[h] \in Blank
      PROVE  NotMeant'
  BY <1>2, FewerTasks, NotMeantStays
<1>3. ASSUME NEW h \in Handles, Dies(h) \/ IdleFrees(h) PROVE NotMeant'
  BY <1>1, <1>2, <1>3 DEF Dies, IdleFrees, Blank
<1>4. ASSUME NEW i \in DOMAIN notes, HandleNote(i) PROVE NotMeant'
  <2>1. UNCHANGED <<sup_queue, tcb>> /\ notes' = RemoveAt(notes, i) /\ i \in 1..Len(notes)
    BY <1>1, <1>4 DEF HandleNote
  <2>2. \A k \in 1..Len(notes') : \E j \in 1..Len(notes) : notes[j] = notes'[k]
    <3>0. /\ Len(RemoveAt(notes, i)) = Len(notes) - 1
          /\ \A k \in 1..(Len(notes) - 1) :
               RemoveAt(notes, i)[k] = notes[IF k < i THEN k ELSE k + 1]
      <4>1. notes \in Seq(Notes) /\ i \in 1..Len(notes)
        BY <1>1, <2>1
      <4> QED BY <4>1, RemovedIs
    <3>1. Len(notes') = Len(notes) - 1 /\ Len(notes) \in Nat /\ i \in Nat
          /\ \A k \in 1..(Len(notes) - 1) : notes'[k] = notes[IF k < i THEN k ELSE k + 1]
      BY <1>1, <2>1, <3>0
    <3>2. \A k \in 1..(Len(notes) - 1) : (IF k < i THEN k ELSE k + 1) \in 1..Len(notes)
      BY <3>1
    <3> QED BY <3>1, <3>2
  <2>3. \A r \in Runloop : Tasks(r)' \subseteq Tasks(r)
    BY <2>1 DEF Tasks
  <2> QED BY <2>1, <2>2, <2>3, NotMeantStays
<1>5. CASE CheckRunloop \/ LooksAlive \/ CheckEnds \/ CreateFails \/ EnterTask
  BY <1>2, <1>5 DEF CheckRunloop, LooksAlive, CheckEnds, CreateFails, EnterTask
<1>6. CASE Timeout \/ FoundDead
  <2>1. PICK rep \in Reports :
          /\ UNCHANGED <<tcb, notes>>
          /\ sup_queue' = sup_queue \/ sup_queue' = Append(sup_queue, rep)
          /\ \A r \in Runloop : rep.handle \notin Tasks(r)
    <3>1. CASE Timeout
      <4>1. SlotReport \in Reports /\ SlotReport.handle \notin Handles
        BY <1>1 DEF SlotReport, Reports
      <4> QED BY <3>1, <4>1 DEF Timeout, Tasks
    <3>2. CASE FoundDead
      <4> DEFINE rep == [r |-> supervisor.r, handle |-> supervisor.handle]
      <4>1. rep \in Reports /\ rep.handle = supervisor.handle
        BY <1>1, <3>2 DEF FoundDead, Reports
      <4>2. /\ UNCHANGED <<tcb, notes>>
            /\ sup_queue' = sup_queue \/ sup_queue' = Append(sup_queue, rep)
        BY <3>2 DEF FoundDead
      <4>3. \A r \in Runloop : supervisor.handle \notin Tasks(r)
        BY <3>2, BlockIs DEF FoundDead, Tasks
      <4> HIDE DEF rep
      <4> QED BY <4>1, <4>2, <4>3
    <3> QED BY <1>6, <3>1, <3>2
  <2>2. \A i \in 1..Len(sup_queue') :
          sup_queue'[i] = rep \/ \E j \in 1..Len(sup_queue) : sup_queue[j] = sup_queue'[i]
    BY <1>1, <2>1
  <2>3. \A r \in Runloop : Tasks(r)' \subseteq Tasks(r)
    BY <2>1 DEF Tasks
  <2> QED BY <2>1, <2>2, <2>3, NotMeantStays
<1>7. CASE TakeReport
  <2>1. UNCHANGED tcb
    BY <1>7 DEF TakeReport
  <2>2. \A r \in Runloop : Tasks(r)' \subseteq Tasks(r)
    BY <2>1 DEF Tasks
  <2>3. CASE UNCHANGED sup_queue
    BY <1>2, <1>7, <2>1, <2>3 DEF TakeReport
  <2>4. CASE sup_queue # <<>> /\ sup_queue' = Tail(sup_queue)
    <3> DEFINE rep == Head(sup_queue)
    <3>1. 1 \in 1..Len(sup_queue) /\ rep = sup_queue[1] /\ rep \in Reports
      BY <1>1, <2>4
    <3>2. \A i \in 1..Len(sup_queue') : \E j \in 1..Len(sup_queue) : sup_queue[j] = sup_queue'[i]
      BY <1>1, <2>4
    <3>3. CASE rep.r = NoRunloop
      <4>1. UNCHANGED notes
        BY <1>7, <2>4, <3>3 DEF TakeReport
      <4> QED BY <2>2, <3>2, <4>1, NotMeantStays
    <3>4. CASE rep.r # NoRunloop
      <4>1. rep.r \in Runloop /\ rep.handle \in Handles \cup {NULL_PTR}
        BY <3>1, <3>4 DEF Reports
      <4>2. Publish("ABNORMAL", rep.r, rep.handle)
        BY <1>7, <2>4, <3>4 DEF TakeReport
      <4> HIDE DEF rep
      <4>3. PICK added \in Seq(Notes) :
              notes' = notes \o added
                /\ \A i \in 1..Len(added) : Says(added[i], "ABNORMAL", rep.r, rep.handle)
        BY <4>1, <4>2, Published
      <4>4. \A i \in 1..Len(notes') :
              \/ \E j \in 1..Len(notes) : notes[j] = notes'[i]
              \/ notes'[i].handle = rep.handle
        BY <1>1, <4>3 DEF Says
      <4> QED BY <2>2, <3>1, <3>2, <4>4, NotMeantStays
    <3> QED BY <3>3, <3>4
  <2> QED BY <1>7, <2>3, <2>4 DEF TakeReport
<1>8. CASE tbox_task_delete_task_by_handle
  <2>1. /\ UNCHANGED <<sup_queue, notes>>
        /\ \A h \in Handles : tcb'[h] = tcb[h] \/ tcb'[h] \in Blank
    BY <1>1, <1>8 DEF tbox_task_delete_task_by_handle, Blank
  <2> QED BY <1>2, <2>1
<1>9. CASE TellModules
  <2>1. UNCHANGED <<sup_queue, tcb>>
    BY <1>9 DEF TellModules
  <2>2. PICK added \in Seq(Notes) :
          /\ notes' = notes \o added
          /\ \A i \in 1..Len(added) : Says(added[i], "UPDATE", supervisor.r, supervisor.handle)
    BY <1>9, Told
  <2>3. ASSUME NEW i \in 1..Len(notes')
        PROVE  notes'[i].kind # "ABNORMAL" \/ \E j \in 1..Len(notes) : notes[j] = notes'[i]
    <3>1. CASE i \in 1..Len(notes)
      BY <1>1, <2>2, <3>1, JoinedIs
    <3>2. CASE i \notin 1..Len(notes)
      <4>1. i - Len(notes) \in 1..Len(added) /\ notes'[i] = added[i - Len(notes)]
        BY <1>1, <2>2, <3>2, JoinedIs
      <4> QED BY <2>2, <4>1 DEF Says
    <3> QED BY <3>1, <3>2
  <2>4. \A r \in Runloop : Tasks(r)' \subseteq Tasks(r)
    BY <2>1 DEF Tasks
  <2> QED BY <2>1, <2>3, <2>4, NotMeantStays
<1>10. ASSUME NEW h \in Handles, CreateTask(h) PROVE NotMeant'
  <2>0. PICK r \in Runloop : r = supervisor.r
    BY <1>1, <1>10 DEF CreateTask
  <2>1. /\ tcb' = [tcb EXCEPT ![h] = Task(r)] /\ UNCHANGED <<sup_queue, notes>>
        /\ supervisor.at = "create"
        /\ excused' = [excused EXCEPT !["masked"] = @ \cup {q \in Runloop : runloops[q] = h},
                                      !["renamed"] = IF h \in NamedByReport \cup NamedByNote
                                                     THEN @ \cup {r} ELSE @]
    BY <1>10, <2>0 DEF CreateTask
  <2>2. Tasks(r)' = {h} /\ \A q \in Runloop \ {r} : Tasks(q)' \subseteq Tasks(q)
    BY <1>1, <2>0, <2>1, BlockIs DEF AtHand, Tasks
  <2>3. \A q \in Runloop : q \notin excused'["renamed"] => q \notin excused["renamed"]
    BY ExcusesStay DEF Excuses
  <2>4. h \in NamedByReport \cup NamedByNote => r \in excused'["renamed"]
    BY <2>1 DEF RunloopTyped, Excuses
  <2>5. h \notin NamedByReport =>  \A i \in 1..Len(sup_queue) : sup_queue[i].handle # h
    BY <1>1 DEF NamedByReport, Range
  <2>6. h \notin NamedByNote =>  \A i \in 1..Len(notes) : notes[i].handle # h
    BY <1>1 DEF NamedByNote, Range
  <2>7. ASSUME NEW q \in Runloop, q \notin excused'["renamed"], NEW g \in Tasks(q)'
        PROVE  /\ \A i \in 1..Len(sup_queue) : sup_queue[i].handle # g
               /\ \A i \in 1..Len(notes) : notes[i].kind = "ABNORMAL" => notes[i].handle # g
    <3>1. CASE q = r
      BY <2>2, <2>4, <2>5, <2>6, <2>7, <3>1
    <3>2. CASE q # r
      BY <2>2, <2>3, <2>7, <3>2 DEF NotMeant
    <3> QED BY <3>1, <3>2
  <2> QED BY <2>1, <2>7 DEF NotMeant
<1> QED
  BY <1>3, <1>4, <1>5, <1>6, <1>7, <1>8, <1>9, <1>10 DEF RunloopNext, tbox_reset_task

(* A notice that would take the handle h of its task from subscriber s.     *)
(* A notice to s after which its copy is not h, though it was.              *)
Misleads(n, s, h) ==
  /\ n.to = s
  /\ \/ n.kind = "ABNORMAL" /\ n.handle = h
     \/ n.kind = "UPDATE" /\ n.r = s /\ n.handle # h

(* A notice to s after which its copy is h.                                 *)
Teaches(n, s, h) == n.to = s /\ n.kind = "UPDATE" /\ n.r = s /\ n.handle = h

(* The copy of s is h, or a notice that waits will make it h, and no notice *)
(* behind it takes h away.                                                  *)
Learns(s, h) ==
  \E p \in 0..Len(notes) :
    /\ IF p = 0 THEN module_handle[s] = h ELSE Teaches(notes[p], s, h)
    /\ \A j \in (p + 1)..Len(notes) : ~Misleads(notes[j], s, h)

(* No excuse of ModuleKnowsTask applies to s.                               *)
Lucky(s) == s \notin excused["missed"] \cup excused["late"] \cup excused["renamed"]

(* Each lucky module that is not being told holds, or will learn, the      *)
(* handle of its task.                                                     *)
WillKnow ==
  \A s \in Subscribers : Lucky(s) /\ ~InRepair(s) => \A h \in Tasks(s) : Learns(s, h)

(* Who is out of luck stays so.                                             *)
LEMMA LuckyStays ==
  ASSUME RunloopTyped, RunloopNext
  PROVE  \A s \in Subscribers : Lucky(s)' => Lucky(s)
  BY ExcusesStay DEF Lucky, Excuses

(* New notices that do not mislead.                                         *)
LEMMA LearnsMore ==
  ASSUME RunloopTyped, NEW s \in Subscribers, NEW h \in Handles, Learns(s, h),
         UNCHANGED module_handle, NEW added \in Seq(Notes), notes' = notes \o added,
         \A i \in 1..Len(added) : ~Misleads(added[i], s, h)
  PROVE  Learns(s, h)'
<1>1. notes \in Seq(Notes) /\ Len(notes) \in Nat /\ Len(added) \in Nat
  BY DEF RunloopTyped
<1>2. PICK p \in 0..Len(notes) :
        /\ IF p = 0 THEN module_handle[s] = h ELSE Teaches(notes[p], s, h)
        /\ \A j \in (p + 1)..Len(notes) : ~Misleads(notes[j], s, h)
  BY DEF Learns
<1>3. Len(notes') = Len(notes) + Len(added) /\ \A j \in 1..Len(notes) : notes'[j] = notes[j]
  BY <1>1, JoinedIs
<1>4. p \in 0..Len(notes') /\ IF p = 0 THEN module_handle'[s] = h ELSE Teaches(notes'[p], s, h)
  BY <1>1, <1>2, <1>3
<1>5. ASSUME NEW j \in (p + 1)..Len(notes') PROVE ~Misleads(notes'[j], s, h)
  <2>1. CASE j <= Len(notes)
    BY <1>1, <1>2, <1>3, <1>5, <2>1
  <2>2. CASE ~(j <= Len(notes))
    <3>1. j - Len(notes) \in 1..Len(added) /\ notes'[j] = added[j - Len(notes)]
      BY <1>1, <1>2, <1>3, <1>5, <2>2, JoinedIs
    <3> QED BY <3>1
  <2> QED BY <2>1, <2>2
<1> QED BY <1>4, <1>5 DEF Learns

(* A subscriber that handles its oldest notice.                             *)
LEMMA LearnsByNote ==
  ASSUME RunloopTyped, NEW s \in Subscribers, NEW h \in Handles, Learns(s, h),
         NEW i \in 1..Len(notes), HandleNote(i), Lucky(s)'
  PROVE  Learns(s, h)'
<1>1. notes \in Seq(Notes) /\ Len(notes) \in Nat /\ i \in Nat /\ notes[i] \in Notes
      /\ module_handle \in [Subscribers -> Handles \cup {NULL_PTR}]
  BY DEF RunloopTyped
<1>2. PICK p \in 0..Len(notes) :
        /\ IF p = 0 THEN module_handle[s] = h ELSE Teaches(notes[p], s, h)
        /\ \A j \in (p + 1)..Len(notes) : ~Misleads(notes[j], s, h)
  BY DEF Learns
<1>3. /\ Len(notes') = Len(notes) - 1
      /\ \A k \in 1..(Len(notes) - 1) : notes'[k] = notes[IF k < i THEN k ELSE k + 1]
  <2>1. notes' = RemoveAt(notes, i)
    BY DEF HandleNote
  <2> QED BY <1>1, <2>1, RemovedIs
<1>4. notes[i].to = s => \A j \in 1..(i - 1) : notes[j].to # s
  <2>1. SUFFICES ASSUME notes[i].to = s, \E j \in 1..(i - 1) : notes[j].to = s PROVE FALSE
    OBVIOUS
  <2>2. excused' = Excuse("late", {s})
    BY <2>1 DEF HandleNote
  <2>3. s \in Runloop
    BY RunloopsAre
  <2>4. s \in excused'["late"]
    BY <2>2, <2>3, ExcuseIs DEF Excuses
  <2> QED BY <2>4 DEF Lucky
<1>5. module_handle'[s] = IF notes[i].to = s THEN HandleAfter(notes[i]) ELSE module_handle[s]
  BY <1>1 DEF HandleNote, Notes
<1>6. CASE p = 0
  <2>1. ~Misleads(notes[i], s, h) /\ module_handle[s] = h
    BY <1>1, <1>2, <1>6
  <2>2. module_handle'[s] = h
    BY <1>1, <1>5, <2>1 DEF HandleAfter, Misleads, Notes
  <2>3. \A j \in 1..Len(notes') : ~Misleads(notes'[j], s, h)
    BY <1>1, <1>2, <1>3, <1>6
  <2>4. 0 \in 0..Len(notes') /\ 0 + 1 = 1
    BY <1>1, <1>3
  <2> QED BY <2>2, <2>3, <2>4 DEF Learns
<1>7. CASE p # 0 /\ i = p
  <2>1. Teaches(notes[i], s, h)
    BY <1>2, <1>7
  <2>2. module_handle'[s] = h
    BY <1>1, <1>5, <2>1 DEF HandleAfter, Teaches
  <2>3. \A j \in 1..Len(notes') : ~Misleads(notes'[j], s, h)
    <3> SUFFICES ASSUME NEW j \in 1..Len(notes') PROVE ~Misleads(notes'[j], s, h)
      OBVIOUS
    <3>1. CASE j < i
      <4>1. notes'[j] = notes[j] /\ notes[j].to # s
        BY <1>1, <1>3, <1>4, <2>1, <3>1 DEF Teaches
      <4> QED BY <4>1 DEF Misleads
    <3>2. CASE ~(j < i)
      BY <1>1, <1>2, <1>3, <1>7, <3>2
    <3> QED BY <3>1, <3>2
  <2>4. 0 \in 0..Len(notes') /\ 0 + 1 = 1
    BY <1>1, <1>3
  <2> QED BY <2>2, <2>3, <2>4 DEF Learns
<1>8. CASE p # 0 /\ i > p
  <2>1. p \in 1..Len(notes') /\ notes'[p] = notes[p] /\ Teaches(notes'[p], s, h)
    BY <1>1, <1>2, <1>3, <1>8
  <2>2. \A j \in (p + 1)..Len(notes') : ~Misleads(notes'[j], s, h)
    BY <1>1, <1>2, <1>3, <1>8
  <2> QED BY <1>8, <2>1, <2>2 DEF Learns
<1>9. CASE p # 0 /\ i < p
  <2> DEFINE q == p - 1
  <2>1. q \in 1..Len(notes') /\ notes'[q] = notes[p] /\ Teaches(notes'[q], s, h) /\ q # 0
    BY <1>1, <1>2, <1>3, <1>9
  <2>2. \A j \in (q + 1)..Len(notes') : ~Misleads(notes'[j], s, h)
    <3> SUFFICES ASSUME NEW j \in (q + 1)..Len(notes') PROVE ~Misleads(notes'[j], s, h)
      OBVIOUS
    <3>1. j \in 1..(Len(notes) - 1) /\ ~(j < i) /\ j + 1 \in (p + 1)..Len(notes)
      BY <1>1, <1>3, <1>9
    <3>2. notes'[j] = notes[j + 1]
      BY <1>3, <3>1
    <3> QED BY <1>2, <3>1, <3>2
  <2> HIDE DEF q
  <2> QED BY <2>1, <2>2 DEF Learns
<1> QED BY <1>1, <1>2, <1>6, <1>7, <1>8, <1>9

(* Steps that create no task and leave the notices and the copies alone.    *)
LEMMA WillKnowStays ==
  ASSUME RunloopTyped, WillKnow, RunloopNext, UNCHANGED <<module_handle, notes>>,
         \A h \in Handles : tcb'[h] = tcb[h] \/ tcb'[h] \in Blank,
         \A s \in Subscribers : InRepair(s) => InRepair(s)'
  PROVE  WillKnow'
<1> SUFFICES ASSUME NEW s \in Subscribers, Lucky(s)', ~InRepair(s)', NEW h \in Tasks(s)'
             PROVE  Learns(s, h)'
  BY DEF WillKnow
<1>1. Lucky(s) /\ h \in Tasks(s)
  BY LuckyStays, FewerTasks, RunloopsAre
<1>2. Learns(s, h)
  BY <1>1 DEF WillKnow
<1> QED BY <1>2 DEF Learns

(* The step at which a subscriber's task is told: what was created is what  *)
(* the notice names.                                                        *)
LEMMA TellStep ==
  ASSUME RunloopTyped, NamesTasks, AtHand, WillKnow, TellModules, RunloopNext
  PROVE  WillKnow'
<1>1. /\ notes \in Seq(Notes) /\ Len(notes) \in Nat
      /\ supervisor.at = "tell" /\ runloops[supervisor.r] = supervisor.handle
      /\ UNCHANGED <<runloops, tcb, module_handle>>
  BY DEF RunloopTyped, TellModules, AtHand
<1>2. PICK lost \in SUBSET Subscribers, added \in Seq(Notes) :
        /\ notes' = notes \o added
        /\ \A i \in 1..Len(added) : Says(added[i], "UPDATE", supervisor.r, supervisor.handle)
        /\ \A s \in Subscribers \ lost : \E i \in 1..Len(added) : added[i].to = s
        /\ supervisor.r \in lost => supervisor.r \in excused'["missed"]
  BY Told
<1> SUFFICES ASSUME NEW s \in Subscribers, Lucky(s)', ~InRepair(s)', NEW h \in Tasks(s)'
             PROVE  Learns(s, h)'
  BY DEF WillKnow
<1>3. Lucky(s) /\ h \in Tasks(s) /\ h \in Handles /\ s \in Runloop
  BY <1>1, LuckyStays, RunloopsAre DEF Tasks
<1>4. CASE s # supervisor.r
  <2>1. Learns(s, h)
    BY <1>3, <1>4 DEF WillKnow, InRepair
  <2>2. \A i \in 1..Len(added) : ~Misleads(added[i], s, h)
    BY <1>2, <1>4 DEF Says, Misleads
  <2> QED BY <1>1, <1>2, <1>3, <2>1, <2>2, LearnsMore
<1>5. CASE s = supervisor.r
  <2>1. supervisor.handle = h
    BY <1>1, <1>3, <1>5 DEF NamesTasks
  <2>2. s \notin lost
    BY <1>2, <1>5 DEF Lucky
  <2>3. PICK i \in 1..Len(added) : added[i].to = s
    BY <1>2, <2>2
  <2> DEFINE p == Len(notes) + i
  <2>4. /\ Len(notes') = Len(notes) + Len(added) /\ Len(added) \in Nat
        /\ \A j \in 1..Len(added) : notes'[Len(notes) + j] = added[j]
    <3>1. \A j \in (Len(notes) + 1)..(Len(notes) + Len(added)) : notes'[j] = added[j - Len(notes)]
      BY <1>1, <1>2, JoinedIs
    <3>2. Len(notes') = Len(notes) + Len(added) /\ Len(added) \in Nat
      BY <1>1, <1>2, JoinedIs
    <3> SUFFICES ASSUME NEW j \in 1..Len(added) PROVE notes'[Len(notes) + j] = added[j]
      BY <3>2
    <3>3. /\ Len(notes) + j \in (Len(notes) + 1)..(Len(notes) + Len(added))
          /\ (Len(notes) + j) - Len(notes) = j
      BY <1>1, <3>2
    <3> QED BY <3>1, <3>3
  <2>5. p \in 0..Len(notes') /\ p # 0
    BY <1>1, <2>4
  <2>6. Teaches(notes'[p], s, h)
    BY <1>2, <1>5, <2>1, <2>3, <2>4 DEF Teaches, Says
  <2>7. \A j \in (p + 1)..Len(notes') : ~Misleads(notes'[j], s, h)
    <3> SUFFICES ASSUME NEW j \in (p + 1)..Len(notes') PROVE ~Misleads(notes'[j], s, h)
      OBVIOUS
    <3>1. j - Len(notes) \in 1..Len(added) /\ Len(notes) + (j - Len(notes)) = j
      BY <1>1, <2>4
    <3>2. notes'[j] = added[j - Len(notes)]
      BY <2>4, <3>1
    <3>3. Says(notes'[j], "UPDATE", s, h)
      BY <1>2, <1>5, <2>1, <3>1, <3>2
    <3> QED BY <3>3 DEF Says, Misleads
  <2> HIDE DEF p
  <2> QED BY <2>5, <2>6, <2>7 DEF Learns
<1> QED BY <1>4, <1>5

(* Over every step a module will know its task.                             *)
LEMMA WillKnowStep ==
  ASSUME RunloopTyped, NamesTasks, AtHand, NotMeant, WillKnow, RunloopNext
  PROVE  WillKnow'
<1>1. /\ tcb \in [Handles -> Blocks] /\ supervisor \in Places
      /\ sup_queue \in Seq(Reports) /\ notes \in Seq(Notes)
      /\ supervisor.at \notin {"wait", "check"} => supervisor.r \in Runloop
  BY DEF RunloopTyped
<1>2. ASSUME NEW h \in Handles, Dies(h) \/ IdleFrees(h) PROVE WillKnow'
  <2>1. UNCHANGED <<module_handle, notes, supervisor>>
        /\ \A g \in Handles : tcb'[g] = tcb[g] \/ tcb'[g] \in Blank
    BY <1>1, <1>2 DEF Dies, IdleFrees, Blank
  <2> QED BY <2>1, WillKnowStays DEF InRepair
<1>3. ASSUME NEW i \in DOMAIN notes, HandleNote(i) PROVE WillKnow'
  <2> SUFFICES ASSUME NEW s \in Subscribers, Lucky(s)', ~InRepair(s)', NEW h \in Tasks(s)'
               PROVE  Learns(s, h)'
    BY DEF WillKnow
  <2>1. i \in 1..Len(notes) /\ UNCHANGED <<tcb, supervisor>>
    BY <1>1, <1>3 DEF HandleNote
  <2>2. h \in Tasks(s) /\ h \in Handles /\ ~InRepair(s) /\ Lucky(s)
    BY <2>1, LuckyStays DEF Tasks, InRepair
  <2>3. Learns(s, h)
    BY <2>2 DEF WillKnow
  <2> QED BY <1>3, <2>1, <2>2, <2>3, LearnsByNote
<1>4. CASE Timeout \/ CheckRunloop \/ LooksAlive \/ CheckEnds \/ FoundDead
  <2>1. UNCHANGED <<module_handle, notes, tcb>> /\ supervisor.at \in {"wait", "check", "look"}
    BY <1>4 DEF Timeout, CheckRunloop, LooksAlive, CheckEnds, FoundDead
  <2> QED BY <2>1, WillKnowStays DEF InRepair
<1>5. CASE EnterTask \/ tbox_task_delete_task_by_handle
  <2>1. /\ UNCHANGED <<module_handle, notes>> /\ supervisor'.r = supervisor.r
        /\ supervisor'.at \in {"tell", "create"}
        /\ \A h \in Handles : tcb'[h] = tcb[h] \/ tcb'[h] \in Blank
    BY <1>1, <1>5 DEF EnterTask, tbox_task_delete_task_by_handle, Blank, Places
  <2> QED BY <2>1, WillKnowStays DEF InRepair
<1>6. CASE TakeReport
  <2>1. UNCHANGED <<tcb, module_handle>> /\ supervisor.at = "wait"
    BY <1>6 DEF TakeReport
  <2>2. CASE UNCHANGED notes
    BY <2>1, <2>2, WillKnowStays DEF InRepair
  <2>3. CASE ~UNCHANGED notes
    <3> DEFINE rep == Head(sup_queue)
    <3>1. sup_queue # <<>> /\ rep.r # NoRunloop /\ Publish("ABNORMAL", rep.r, rep.handle)
      BY <1>6, <2>3 DEF TakeReport
    <3>2. 1 \in 1..Len(sup_queue) /\ rep = sup_queue[1] /\ rep \in Reports
      BY <1>1, <3>1
    <3>3. rep.r \in Runloop /\ rep.handle \in Handles \cup {NULL_PTR}
      BY <3>1, <3>2 DEF Reports
    <3> HIDE DEF rep
    <3>4. PICK lost \in SUBSET Subscribers, added \in Seq(Notes) :
            notes' = notes \o added
              /\ \A i \in 1..Len(added) : Says(added[i], "ABNORMAL", rep.r, rep.handle)
      BY <3>1, <3>3, Published
    <3> SUFFICES ASSUME NEW s \in Subscribers, Lucky(s)', ~InRepair(s)', NEW h \in Tasks(s)'
                 PROVE  Learns(s, h)'
      BY DEF WillKnow
    <3>5. h \in Tasks(s) /\ h \in Handles /\ ~InRepair(s) /\ Lucky(s) /\ s \in Runloop
      BY <2>1, LuckyStays, RunloopsAre DEF Tasks, InRepair
    <3>6. Learns(s, h)
      BY <3>5 DEF WillKnow
    <3>7. rep.handle # h
      BY <3>2, <3>5 DEF NotMeant, Lucky
    <3>8. \A i \in 1..Len(added) : ~Misleads(added[i], s, h)
      BY <3>4, <3>7 DEF Says, Misleads
    <3> QED BY <2>1, <3>4, <3>5, <3>6, <3>8, LearnsMore
  <2> QED BY <2>2, <2>3
<1>7. CASE TellModules
  BY <1>7, TellStep
<1>8. CASE CreateFails
  <2> SUFFICES ASSUME NEW s \in Subscribers, Lucky(s)', ~InRepair(s)', NEW h \in Tasks(s)'
               PROVE  Learns(s, h)'
    BY DEF WillKnow
  <2>1. UNCHANGED <<tcb, module_handle, notes>> /\ supervisor.at = "create"
    BY <1>8 DEF CreateFails
  <2>2. h \in Tasks(s) /\ Lucky(s)
    BY <2>1, LuckyStays DEF Tasks
  <2>3. ~InRepair(s)
    BY <2>1, <2>2 DEF AtHand, InRepair
  <2>4. Learns(s, h)
    BY <2>2, <2>3 DEF WillKnow
  <2> QED BY <2>1, <2>4 DEF Learns
<1>9. ASSUME NEW g \in Handles, CreateTask(g) PROVE WillKnow'
  <2>0. PICK r \in Runloop : r = supervisor.r
    BY <1>1, <1>9 DEF CreateTask
  <2>1. /\ tcb' = [tcb EXCEPT ![g] = Task(r)] /\ UNCHANGED <<module_handle, notes>>
        /\ supervisor'.at = "enter" /\ supervisor'.r = r
    BY <1>1, <1>9, <2>0 DEF CreateTask, Places
  <2> SUFFICES ASSUME NEW s \in Subscribers, Lucky(s)', ~InRepair(s)', NEW h \in Tasks(s)'
               PROVE  Learns(s, h)'
    BY DEF WillKnow
  <2>2. s # r /\ ~InRepair(s)
    BY <2>0, <2>1 DEF InRepair
  <2>3. h \in Tasks(s) /\ Lucky(s)
    BY <1>1, <2>1, <2>2, BlockIs, LuckyStays DEF Tasks
  <2>4. Learns(s, h)
    BY <2>2, <2>3 DEF WillKnow
  <2> QED BY <2>1, <2>4 DEF Learns
<1> QED
  BY <1>2, <1>3, <1>4, <1>5, <1>6, <1>7, <1>8, <1>9 DEF RunloopNext, tbox_reset_task

(* The inductive invariant of Runloops.                                     *)
RunloopInv == RunloopTyped /\ NamesTasks /\ AtHand /\ DeathIsKnown /\ NotMeant /\ WillKnow

(* It holds when every runloop has its first task.                          *)
LEMMA RunloopInitHolds == RunloopInit => RunloopInv
<1> SUFFICES ASSUME RunloopInit PROVE RunloopInv
  OBVIOUS
<1>1. RunloopTyped
  <2>1. runloops \in [Runloop -> Handles \cup {NULL_PTR}]
    BY RunloopsAre DEF RunloopInit
  <2>2. tcb \in [Handles -> Blocks]
    <3> HIDE DEF RunloopInit
    <3>1. tcb = [h \in Handles |-> IF h \in Runloop THEN Task(h) ELSE FreeBlock]
      BY DEF RunloopInit
    <3>2. \A h \in Handles : (IF h \in Runloop THEN Task(h) ELSE FreeBlock) \in Blocks
      BY DEF Blocks
    <3> QED BY <3>1, <3>2
  <2>3. supervisor \in Places /\ supervisor.at = "wait"
    BY DEF RunloopInit, WaitsForWork, Places, NoRunloop, NULL_PTR
  <2>4. sup_queue \in Seq(Reports) /\ notes \in Seq(Notes)
    BY DEF RunloopInit
  <2>5. module_handle \in [Subscribers -> Handles \cup {NULL_PTR}]
    BY RunloopsAre DEF RunloopInit
  <2>6. excused \in [Excuses -> SUBSET Runloop]
    BY DEF RunloopInit
  <2> QED BY <2>1, <2>2, <2>3, <2>4, <2>5, <2>6 DEF RunloopTyped
<1>2. \A r \in Runloop : Tasks(r) = {r}
  BY RunloopsAre, BlockIs DEF RunloopInit, Tasks, Task, FreeBlock
<1>3. NamesTasks /\ AtHand
  BY <1>2, PlaceIs DEF RunloopInit, NamesTasks, AtHand
<1>4. DeathIsKnown
  BY <1>2 DEF DeathIsKnown
<1>5. NotMeant
  BY DEF RunloopInit, NotMeant
<1>6. WillKnow
  <2>1. ASSUME NEW s \in Subscribers, NEW h \in Tasks(s) PROVE Learns(s, h)
    <3>1. h = s /\ module_handle[s] = s /\ notes = <<>>
      BY <1>2, RunloopsAre DEF RunloopInit
    <3> QED BY <3>1 DEF Learns
  <2> QED BY <2>1 DEF WillKnow
<1> QED BY <1>1, <1>3, <1>4, <1>5, <1>6 DEF RunloopInv

(* The death of a runloop's task is not forgotten, a runloop has one task,  *)
(* and its module knows it, but for those out of luck: whatever dies when,  *)
(* and in which order the notices are handled.                              *)
THEOREM RunloopsAreRepaired == RunloopSpec => []RunloopsRepaired
<1>1. RunloopInv /\ [RunloopNext]_runloopVars => RunloopInv'
  <2> SUFFICES ASSUME RunloopInv, [RunloopNext]_runloopVars PROVE RunloopInv'
    OBVIOUS
  <2>1. CASE RunloopNext
    <3>1. RunloopTyped' /\ NamesTasks' /\ AtHand' /\ DeathIsKnown'
      BY <2>1, StepTyped, NamesStep, DeathStep DEF RunloopInv
    <3>2. NotMeant' /\ WillKnow'
      BY <2>1, NotMeantStep, WillKnowStep DEF RunloopInv
    <3> QED BY <3>1, <3>2 DEF RunloopInv
  <2>2. CASE UNCHANGED runloopVars
    <3>1. UNCHANGED <<runloops, tcb, supervisor, sup_queue, module_handle, notes, excused>>
      BY <2>2 DEF runloopVars
    <3>2. RunloopTyped' /\ NamesTasks' /\ AtHand'
      BY <3>1 DEF RunloopInv, RunloopTyped, NamesTasks, AtHand, Tasks
    <3>3. DeathIsKnown' /\ NotMeant'
      BY <3>1 DEF RunloopInv, DeathIsKnown, NotMeant, Tasks, NextCheckFinds, Reported, InRepair
    <3>4. WillKnow'
      BY <3>1 DEF RunloopInv, WillKnow, Lucky, InRepair, Tasks, Learns
    <3> QED BY <3>2, <3>3, <3>4 DEF RunloopInv
  <2> QED BY <2>1, <2>2
<1>2. RunloopInv => RunloopsRepaired
  <2> SUFFICES ASSUME RunloopInv PROVE RunloopsRepaired
    OBVIOUS
  <2>1. ModuleKnowsTask
    <3> SUFFICES ASSUME NEW s \in Subscribers, \A n \in Range(notes) : n.to # s, ~InRepair(s),
                        Lucky(s), NEW h \in Tasks(s)
                 PROVE  module_handle[s] = h
      BY DEF ModuleKnowsTask, Lucky
    <3>1. notes \in Seq(Notes)
      BY DEF RunloopInv, RunloopTyped
    <3>2. \A p \in 1..Len(notes) : notes[p].to # s
      BY <3>1 DEF Range
    <3>3. Learns(s, h)
      BY DEF RunloopInv, WillKnow
    <3> QED BY <3>1, <3>2, <3>3 DEF Learns, Teaches
  <2> QED BY <2>1, OneIsNamed DEF RunloopInv, RunloopsRepaired
<1> QED BY <1>1, <1>2, RunloopInitHolds, PTL DEF RunloopSpec
-----------------------------------------------------------------------------
(***************************************************************************)
(* STimer.  What is in a list is a set of timers, and a list has each of   *)
(* them once: with the two, every step takes a timer out of one place and  *)
(* into another.  The distance of a slot from the current one counts down  *)
(* with every turn, and around the wheel it costs a round.                 *)
(***************************************************************************)
(* The numbers of a finite set, counted from the smallest: each of 1, 2, .. *)
(* up to their number is the rank of just one.                              *)
Rank(I, i) == Cardinality({j \in I : j <= i})

(* Ranks grow with the numbers, so that they count them.                    *)
LEMMA RanksAre ==
  ASSUME NEW I \in SUBSET Nat, IsFiniteSet(I)
  PROVE  /\ Cardinality(I) \in Nat
         /\ \A i \in I : Rank(I, i) \in 1..Cardinality(I)
         /\ \A i, j \in I : i < j => Rank(I, i) < Rank(I, j)
         /\ \A k \in 1..Cardinality(I) : \E i \in I : Rank(I, i) = k
<1> DEFINE n == Cardinality(I)
           Below(i) == {j \in I : j <= i}
<1>1. n \in Nat
  BY FS_CardinalityType
<1>2. ASSUME NEW i \in I PROVE Rank(I, i) \in 1..n
  <2>1. IsFiniteSet(Below(i)) /\ Cardinality(Below(i)) <= n
    BY FS_Subset
  <2>2. i \in Below(i)
    OBVIOUS
  <2>3. Cardinality(Below(i)) \in Nat /\ Cardinality(Below(i)) # 0
    BY <2>1, <2>2, FS_CardinalityType, FS_EmptySet
  <2> QED BY <1>1, <2>1, <2>3 DEF Rank
<1>3. ASSUME NEW i \in I, NEW j \in I, i < j PROVE Rank(I, i) < Rank(I, j)
  <2>0. i \in Nat /\ j \in Nat /\ j <= j /\ ~(j <= i)
    <3>1. i \in Nat /\ j \in Nat
      OBVIOUS
    <3> QED BY <1>3, <3>1
  <2>1. Below(i) \subseteq Below(j) /\ j \in Below(j) /\ j \notin Below(i)
    <3>1. ASSUME NEW x \in I, x <= i PROVE x <= j
      <4>1. x \in Nat
        OBVIOUS
      <4> QED BY <1>3, <2>0, <3>1, <4>1
    <3> QED BY <2>0, <3>1
  <2>2. IsFiniteSet(Below(j))
    BY FS_Subset
  <2>3. IsFiniteSet(Below(i)) /\ Cardinality(Below(i)) <= Cardinality(Below(j))
        /\ Cardinality(Below(i)) # Cardinality(Below(j))
    BY <2>1, <2>2, FS_Subset
  <2>4. Cardinality(Below(i)) \in Nat /\ Cardinality(Below(j)) \in Nat
    BY <2>2, <2>3, FS_CardinalityType
  <2> QED BY <2>3, <2>4 DEF Rank
<1>4. ASSUME NEW k \in 1..n PROVE \E i \in I : Rank(I, i) = k
  <2> DEFINE f == [i \in I |-> Rank(I, i)]
  <2>1. f \in [I -> 1..n]
    BY <1>2
  <2>2. ASSUME NEW i \in I, NEW j \in I, f[i] = f[j] PROVE i = j
    <3>1. i \in Nat /\ j \in Nat /\ f[i] \in Nat
      BY <1>1, <2>1
    <3> QED BY <1>3, <2>2, <3>1
  <2>3. f \in Injection(I, 1..n)
    BY <2>1, <2>2 DEF Injection, IsInjective
  <2>4. IsFiniteSet(1..n) /\ Cardinality(1..n) = n
    BY <1>1, FS_Interval
  <2>5. f \in Surjection(I, 1..n)
    BY <2>3, <2>4, FS_Injection
  <2> QED BY <2>5 DEF Surjection
<1> QED BY <1>1, <1>2, <1>3, <1>4

(* A list without repetition.                                               *)
Distinct(l) == \A i, j \in DOMAIN l : l[i] = l[j] => i = j

(* The nodes of a list that are in T, in their order.                       *)
LEMMA ThoseAre ==
  ASSUME NEW S, NEW l \in Seq(S), NEW T
  PROVE  /\ Those(l, T) \in Seq(S)
         /\ Range(Those(l, T)) = Range(l) \cap T
         /\ Distinct(l) => Distinct(Those(l, T))
<1> DEFINE I == {i \in DOMAIN l : l[i] \in T}
           n == Cardinality(I)
           kth(k) == CHOOSE i \in I : Cardinality({j \in I : j <= i}) = k
<1>1. I \in SUBSET Nat /\ IsFiniteSet(I)
  <2>1. IsFiniteSet(1..Len(l)) /\ I \subseteq 1..Len(l)
    BY FS_Interval
  <2> QED BY <2>1, FS_Subset
<1>2. /\ n \in Nat
      /\ \A i \in I : Rank(I, i) \in 1..n
      /\ \A i, j \in I : i < j => Rank(I, i) < Rank(I, j)
      /\ \A k \in 1..n : \E i \in I : Rank(I, i) = k
  BY <1>1, RanksAre
<1>3. \A k \in 1..n : kth(k) \in I /\ Rank(I, kth(k)) = k
  BY <1>2 DEF Rank
<1>4. \A i \in I : kth(Rank(I, i)) = i
  <2> SUFFICES ASSUME NEW i \in I PROVE kth(Rank(I, i)) = i
    OBVIOUS
  <2> DEFINE k == kth(Rank(I, i))
  <2>1. k \in I /\ Rank(I, k) = Rank(I, i)
    BY <1>2, <1>3
  <2> HIDE DEF k, kth
  <2>2. k \in Nat /\ i \in Nat /\ Rank(I, i) \in Nat
    BY <1>1, <1>2, <2>1
  <2>3. ~(k < i) /\ ~(i < k)
    BY <1>2, <2>1, <2>2
  <2> QED BY <2>2, <2>3 DEF k
<1> DEFINE g == Those(l, T)
<1>5. g = [k \in 1..n |-> l[kth(k)]]
  BY DEF Those
<1> HIDE DEF g, kth, n
<1>6. g \in Seq(S) /\ DOMAIN g = 1..n /\ \A k \in 1..n : g[k] = l[kth(k)]
  <2>1. ASSUME NEW k \in 1..n PROVE l[kth(k)] \in S
    <3>1. kth(k) \in DOMAIN l
      BY <1>3
    <3> QED BY <3>1
  <2>2. g \in [1..n -> S] /\ n \in Nat
    BY <1>2, <1>5, <2>1
  <2>3. g \in Seq(S) /\ DOMAIN g = 1..n
    BY <2>2
  <2> QED BY <1>5, <2>3
<1>7. Range(g) = Range(l) \cap T
  <2>1. ASSUME NEW k \in 1..n PROVE g[k] \in Range(l) \cap T
    BY <1>3, <1>6 DEF Range
  <2>2. ASSUME NEW i \in DOMAIN l, l[i] \in T PROVE l[i] \in Range(g)
    <3>1. i \in I
      BY <2>2
    <3>2. Rank(I, i) \in 1..n /\ kth(Rank(I, i)) = i
      BY <1>2, <1>4, <3>1
    <3> QED BY <1>6, <3>2 DEF Range
  <2> QED BY <1>6, <2>1, <2>2 DEF Range
<1>8. ASSUME Distinct(l) PROVE Distinct(g)
  <2> SUFFICES ASSUME NEW j \in 1..n, NEW k \in 1..n, g[j] = g[k] PROVE j = k
    BY <1>6 DEF Distinct
  <2>1. l[kth(j)] = l[kth(k)] /\ kth(j) \in DOMAIN l /\ kth(k) \in DOMAIN l
    BY <1>3, <1>6
  <2>2. kth(j) = kth(k)
    BY <1>8, <2>1 DEF Distinct
  <2> QED BY <1>3, <2>2
<1> QED BY <1>6, <1>7, <1>8 DEF g

(* A node that goes to the end of a list it is not in.                      *)
LEMMA AppendedIs ==
  ASSUME NEW S, NEW l \in Seq(S), NEW t \in S
  PROVE  /\ Append(l, t) \in Seq(S) /\ Range(Append(l, t)) = Range(l) \cup {t}
         /\ Distinct(l) /\ t \notin Range(l) => Distinct(Append(l, t))
<1>1. /\ Append(l, t) \in Seq(S) /\ DOMAIN Append(l, t) = 1..(Len(l) + 1) /\ Len(l) \in Nat
      /\ DOMAIN l = 1..Len(l)
      /\ \A i \in 1..Len(l) : Append(l, t)[i] = l[i]
      /\ Append(l, t)[Len(l) + 1] = t
  OBVIOUS
<1> DEFINE g == Append(l, t)
<1> HIDE DEF g
<1>2. 1..(Len(l) + 1) = 1..Len(l) \cup {Len(l) + 1}
  BY <1>1
<1>3. Range(g) = Range(l) \cup {t}
  BY <1>1, <1>2 DEF Range, g
<1>4. ASSUME Distinct(l), t \notin Range(l) PROVE Distinct(g)
  BY <1>1, <1>2, <1>4 DEF Distinct, Range, g
<1> QED BY <1>1, <1>3, <1>4 DEF g

(* Two lists without a node in common, one behind the other.                *)
LEMMA LinkedUp ==
  ASSUME NEW S, NEW l \in Seq(S), NEW m \in Seq(S)
  PROVE  /\ l \o m \in Seq(S) /\ Range(l \o m) = Range(l) \cup Range(m)
         /\ Distinct(l) /\ Distinct(m) /\ Range(l) \cap Range(m) = {} => Distinct(l \o m)
<1> DEFINE g == l \o m
<1>1. /\ g \in Seq(S) /\ DOMAIN g = 1..(Len(l) + Len(m)) /\ Len(l) \in Nat /\ Len(m) \in Nat
      /\ DOMAIN l = 1..Len(l) /\ DOMAIN m = 1..Len(m)
      /\ \A i \in 1..(Len(l) + Len(m)) : g[i] = IF i <= Len(l) THEN l[i] ELSE m[i - Len(l)]
  BY ConcatProperties
<1> HIDE DEF g
<1>2. \A i \in 1..Len(l) : i \in DOMAIN g /\ g[i] = l[i]
  BY <1>1
<1>3. \A i \in 1..Len(m) : Len(l) + i \in DOMAIN g /\ g[Len(l) + i] = m[i]
  <2> TAKE i \in 1..Len(m)
  <2>1. /\ Len(l) + i \in 1..(Len(l) + Len(m)) /\ ~(Len(l) + i <= Len(l))
        /\ (Len(l) + i) - Len(l) = i
    BY <1>1
  <2> QED BY <1>1, <2>1
<1>4. \A i \in DOMAIN g : \/ i \in 1..Len(l) /\ g[i] = l[i]
                          \/ i - Len(l) \in 1..Len(m) /\ g[i] = m[i - Len(l)]
  BY <1>1
<1>5. Range(g) = Range(l) \cup Range(m)
  <2>1. \A x \in Range(g) : x \in Range(l) \cup Range(m)
    BY <1>1, <1>4 DEF Range
  <2>2. \A x \in Range(l) : x \in Range(g)
    BY <1>1, <1>2 DEF Range
  <2>3. \A x \in Range(m) : x \in Range(g)
    BY <1>1, <1>3 DEF Range
  <2> QED BY <2>1, <2>2, <2>3
<1>6. ASSUME Distinct(l), Distinct(m), Range(l) \cap Range(m) = {} PROVE Distinct(g)
  <2> SUFFICES ASSUME NEW i \in DOMAIN g, NEW j \in DOMAIN g, g[i] = g[j] PROVE i = j
    BY DEF Distinct
  <2>1. i \in Nat /\ j \in Nat
    BY <1>1
  <2>2. CASE i \in 1..Len(l) /\ g[i] = l[i]
    <3>1. j \in 1..Len(l) /\ g[j] = l[j]
      BY <1>1, <1>4, <1>6, <2>2 DEF Range
    <3> QED BY <1>1, <1>6, <2>2, <3>1 DEF Distinct
  <2>3. CASE i - Len(l) \in 1..Len(m) /\ g[i] = m[i - Len(l)]
    <3>1. j - Len(l) \in 1..Len(m) /\ g[j] = m[j - Len(l)]
      BY <1>1, <1>4, <1>6, <2>3 DEF Range
    <3>2. i - Len(l) = j - Len(l)
      BY <1>1, <1>6, <2>3, <3>1 DEF Distinct
    <3> QED BY <1>1, <2>1, <3>2
  <2> QED BY <1>4, <2>2, <2>3
<1> QED BY <1>1, <1>5, <1>6 DEF g

(* The list without its first node.                                         *)
LEMMA TailIs ==
  ASSUME NEW S, NEW l \in Seq(S), l # <<>>
  PROVE  /\ Tail(l) \in Seq(S) /\ Head(l) \in S /\ Head(l) \in Range(l)
         /\ Range(l) = Range(Tail(l)) \cup {Head(l)}
         /\ Distinct(l) => Distinct(Tail(l)) /\ Head(l) \notin Range(Tail(l))
<1> DEFINE g == Tail(l)
<1>1. /\ g \in Seq(S) /\ Len(l) \in Nat /\ Len(l) >= 1 /\ DOMAIN g = 1..(Len(l) - 1)
      /\ DOMAIN l = 1..Len(l) /\ \A i \in 1..(Len(l) - 1) : g[i] = l[i + 1]
      /\ Head(l) = l[1] /\ Head(l) \in S
  OBVIOUS
<1> HIDE DEF g
<1>2. ASSUME NEW i \in DOMAIN l, i # 1 PROVE \E k \in DOMAIN g : g[k] = l[i]
  <2>1. PICK k \in 1..(Len(l) - 1) : k = i - 1 /\ k + 1 = i
    BY <1>1, <1>2
  <2> QED BY <1>1, <2>1
<1>3. \A i \in DOMAIN g : i + 1 \in DOMAIN l /\ g[i] = l[i + 1] /\ i + 1 # 1
  BY <1>1
<1>4. Range(l) = Range(g) \cup {Head(l)} /\ Head(l) \in Range(l)
  <2>1. \A x \in Range(l) : x \in Range(g) \cup {Head(l)}
    BY <1>1, <1>2 DEF Range
  <2>2. \A x \in Range(g) : x \in Range(l)
    BY <1>3 DEF Range
  <2>3. Head(l) \in Range(l)
    BY <1>1 DEF Range
  <2> QED BY <2>1, <2>2, <2>3
<1>5. ASSUME Distinct(l) PROVE Distinct(g) /\ Head(l) \notin Range(g)
  <2>1. 1 \in DOMAIN l
    BY <1>1
  <2>2. ASSUME NEW i \in DOMAIN g, NEW j \in DOMAIN g, g[i] = g[j] PROVE i = j
    <3>1. i + 1 = j + 1 /\ i \in Nat /\ j \in Nat
      BY <1>1, <1>3, <1>5, <2>2 DEF Distinct
    <3> QED BY <3>1
  <2>3. ASSUME NEW i \in DOMAIN g, g[i] = Head(l) PROVE FALSE
    BY <1>1, <1>3, <1>5, <2>1, <2>3 DEF Distinct
  <2> QED BY <2>2, <2>3 DEF Distinct, Range
<1> QED BY <1>1, <1>4, <1>5 DEF g

(* Every timer of B is in one list of wheel w and due list d, once, and no  *)
(* other timer is in any.                                                   *)
Placed(w, d, B) ==
  /\ \A s \in Slots : Distinct(w[s])
  /\ \A s, q \in Slots : s # q => Range(w[s]) \cap Range(w[q]) = {}
  /\ Distinct(d)
  /\ \A s \in Slots : Range(w[s]) \cap Range(d) = {}
  /\ B = Range(d) \cup UNION {Range(w[s]) : s \in Slots}

(* A timer leaves its list.                                                 *)
LEMMA LeavesList ==
  ASSUME NEW w, NEW d, NEW B, Placed(w, d, B), NEW t, NEW v, NEW e,
         \A s \in Slots : Distinct(v[s]) /\ Range(v[s]) = Range(w[s]) \ {t},
         Distinct(e), Range(e) = Range(d) \ {t}
  PROVE  Placed(v, e, B \ {t})
<1>1. B \ {t} = Range(e) \cup UNION {Range(v[s]) : s \in Slots}
  BY DEF Placed
<1>2. \A s, q \in Slots : s # q => Range(v[s]) \cap Range(v[q]) = {}
  BY DEF Placed
<1>3. \A s \in Slots : Range(v[s]) \cap Range(e) = {}
  BY DEF Placed
<1> QED BY <1>1, <1>2, <1>3 DEF Placed

(* The wheel with a timer linked into one slot.                             *)
Joined(w, p, t) == [w EXCEPT ![p] = Append(@, t)]

(* Only that slot changes.                                                  *)
LEMMA JoinedSlotIs ==
  ASSUME NEW w \in [Slots -> Seq(Timer)], NEW t \in Timer, NEW p \in Slots
  PROVE  /\ Joined(w, p, t) \in [Slots -> Seq(Timer)]
         /\ \A s \in Slots \ {p} : Joined(w, p, t)[s] = w[s]
<1>1. Append(w[p], t) \in Seq(Timer)
  OBVIOUS
<1> QED BY <1>1 DEF Joined

(* A timer that is nowhere goes to the end of a list.                       *)
LEMMA JoinsSlot ==
  ASSUME NEW w \in [Slots -> Seq(Timer)], NEW d, NEW B, Placed(w, d, B),
         NEW t \in Timer, t \notin B, NEW p \in Slots,
         NEW v, v = Joined(w, p, t)
  PROVE  Placed(v, d, B \cup {t})
<1>1. w[p] \in Seq(Timer) /\ t \notin Range(w[p]) /\ t \notin Range(d)
  BY DEF Placed
<1>2. /\ Append(w[p], t) \in Seq(Timer) /\ Range(Append(w[p], t)) = Range(w[p]) \cup {t}
      /\ Distinct(Append(w[p], t))
  BY <1>1, AppendedIs DEF Placed
<1>3. v[p] = Append(w[p], t) /\ \A s \in Slots \ {p} : v[s] = w[s]
  BY DEF Joined
<1>5. Range(v[p]) = Range(w[p]) \cup {t} /\ \A s \in Slots \ {p} : Range(v[s]) = Range(w[s])
  BY <1>2, <1>3
<1>6. \A s \in Slots : Distinct(v[s])
  BY <1>2, <1>3 DEF Placed
<1>7. \A s \in Slots : t \notin Range(w[s])
  BY DEF Placed
<1> DEFINE R(s) == Range(w[s])
           V(s) == Range(v[s])
<1>a. V(p) = R(p) \cup {t} /\ \A s \in Slots \ {p} : V(s) = R(s)
  BY <1>5
<1>b. /\ \A s, q \in Slots : s # q => R(s) \cap R(q) = {}
      /\ \A s \in Slots : R(s) \cap Range(d) = {}
      /\ B = Range(d) \cup UNION {R(s) : s \in Slots}
      /\ \A s \in Slots : t \notin R(s)
  BY <1>7 DEF Placed
<1> HIDE DEF R, V
<1>c. \A s, q \in Slots : s # q => V(s) \cap V(q) = {}
  <2> SUFFICES ASSUME NEW s \in Slots, NEW q \in Slots, s # q, NEW x \in V(s), x \in V(q)
               PROVE  FALSE
    OBVIOUS
  <2>1. (x \in R(s) \/ (s = p /\ x = t)) /\ (x \in R(q) \/ (q = p /\ x = t))
    BY <1>a
  <2> QED BY <1>b, <2>1
<1>d. \A s \in Slots : V(s) \cap Range(d) = {}
  BY <1>1, <1>a, <1>b
<1>e. B \cup {t} = Range(d) \cup UNION {V(s) : s \in Slots}
  <2>1. ASSUME NEW x \in UNION {R(s) : s \in Slots} PROVE x \in UNION {V(s) : s \in Slots}
    BY <1>a
  <2>2. ASSUME NEW x \in UNION {V(s) : s \in Slots}
        PROVE  x = t \/ x \in UNION {R(s) : s \in Slots}
    BY <1>a
  <2>3. t \in UNION {V(s) : s \in Slots}
    BY <1>a
  <2> QED BY <1>b, <2>1, <2>2, <2>3
<1>8. \A s, q \in Slots : s # q => Range(v[s]) \cap Range(v[q]) = {}
  BY <1>c DEF V
<1>9. \A s \in Slots : Range(v[s]) \cap Range(d) = {}
  BY <1>d DEF V
<1>10. B \cup {t} = Range(d) \cup UNION {Range(v[s]) : s \in Slots}
  BY <1>e DEF V
<1>11. Placed(v, d, B \cup {t})
  BY <1>6, <1>8, <1>9, <1>10 DEF Placed
<1> QED BY <1>11

(* A timer that is nowhere falls due.                                       *)
LEMMA JoinsDue ==
  ASSUME NEW w, NEW d \in Seq(Timer), NEW B, Placed(w, d, B), NEW t \in Timer, t \notin B
  PROVE  Append(d, t) \in Seq(Timer) /\ Placed(w, Append(d, t), B \cup {t})
<1>1. t \notin Range(d) /\ Distinct(d) /\ \A s \in Slots : t \notin Range(w[s])
  BY DEF Placed
<1>2. /\ Append(d, t) \in Seq(Timer) /\ Range(Append(d, t)) = Range(d) \cup {t}
      /\ Distinct(Append(d, t))
  BY <1>1, AppendedIs
<1> QED BY <1>1, <1>2 DEF Placed

(* The wheel with only the timers of K left in one slot.                    *)
Thinned(w, c, K) == [w EXCEPT ![c] = Those(w[c], K)]

(* Only that slot changes.                                                  *)
LEMMA ThinnedIs ==
  ASSUME NEW w \in [Slots -> Seq(Timer)], NEW c \in Slots, NEW K
  PROVE  /\ Thinned(w, c, K) \in [Slots -> Seq(Timer)]
         /\ \A s \in Slots \ {c} : Thinned(w, c, K)[s] = w[s]
<1>1. w[c] \in Seq(Timer)
  OBVIOUS
<1>2. Those(w[c], K) \in Seq(Timer)
  BY <1>1, ThoseAre
<1> QED BY <1>2 DEF Thinned

(* Of one slot the timers in K stay and those in F fall due.                *)
LEMMA SlotFalls ==
  ASSUME NEW w \in [Slots -> Seq(Timer)], NEW d \in Seq(Timer), NEW B, Placed(w, d, B),
         NEW c \in Slots, NEW K, NEW F, K \cap F = {}, B \subseteq K \cup F,
         NEW v, v = Thinned(w, c, K), NEW e, e = d \o Those(w[c], F)
  PROVE  e \in Seq(Timer) /\ Placed(v, e, B)
<1> DEFINE k == Those(w[c], K)
           f == Those(w[c], F)
<1>1. w[c] \in Seq(Timer) /\ Distinct(w[c]) /\ Range(w[c]) \subseteq B
      /\ Range(w[c]) \cap Range(d) = {} /\ Distinct(d)
  BY DEF Placed
<1>2. k \in Seq(Timer) /\ Range(k) = Range(w[c]) \cap K /\ Distinct(k)
  BY <1>1, ThoseAre
<1>3. f \in Seq(Timer) /\ Range(f) = Range(w[c]) \cap F /\ Distinct(f)
  BY <1>1, ThoseAre
<1>4. v[c] = k /\ \A s \in Slots \ {c} : v[s] = w[s]
  BY DEF Thinned
<1>0. e = d \o f
  OBVIOUS
<1> HIDE DEF k, f
<1>6. e \in Seq(Timer) /\ Range(e) = Range(d) \cup Range(f) /\ Distinct(e)
  <2>1. Range(d) \cap Range(f) = {}
    BY <1>1, <1>3
  <2> QED BY <1>0, <1>1, <1>3, <2>1, LinkedUp
<1>7. Range(v[c]) = Range(w[c]) \cap K /\ \A s \in Slots \ {c} : Range(v[s]) = Range(w[s])
  BY <1>2, <1>4
<1>8. \A s \in Slots : Distinct(v[s])
  BY <1>2, <1>4 DEF Placed
<1>9. \A s, q \in Slots : s # q => Range(v[s]) \cap Range(v[q]) = {}
  BY <1>7 DEF Placed
<1>10. \A s \in Slots : Range(v[s]) \cap Range(e) = {}
  BY <1>3, <1>6, <1>7 DEF Placed
<1> DEFINE R(s) == Range(w[s])
           V(s) == Range(v[s])
<1>a. V(c) = R(c) \cap K /\ \A s \in Slots \ {c} : V(s) = R(s)
  BY <1>7
<1>b. B = Range(d) \cup UNION {R(s) : s \in Slots} /\ Range(e) = Range(d) \cup (R(c) \cap F)
  BY <1>3, <1>6 DEF Placed
<1> HIDE DEF R, V
<1>c. B = Range(e) \cup UNION {V(s) : s \in Slots}
  <2>1. ASSUME NEW s \in Slots, NEW x \in R(s)
        PROVE  x \in Range(e) \cup UNION {V(q) : q \in Slots}
    <3>1. CASE s = c
      <4>1. x \in B
        BY <1>b
      <4>2. x \in V(c) \/ x \in Range(e)
        BY <1>a, <1>b, <3>1, <4>1
      <4> QED BY <4>2
    <3>2. CASE s # c
      BY <1>a, <3>2
    <3> QED BY <3>1, <3>2
  <2>2. ASSUME NEW s \in Slots, NEW x \in V(s) PROVE x \in B
    <3>1. x \in R(s)
      BY <1>a, <2>2
    <3> QED BY <1>b, <3>1
  <2>3. R(c) \subseteq B
    BY <1>b
  <2> QED BY <1>b, <2>1, <2>2, <2>3
<1>11. B = Range(e) \cup UNION {Range(v[s]) : s \in Slots}
  BY <1>c DEF V
<1>12. Placed(v, e, B)
  BY <1>6, <1>8, <1>9, <1>10, <1>11 DEF Placed
<1> QED BY <1>6, <1>12

(* What is kept of a timer, and the timers that are started.                *)
TimerInfo == [start : BOOLEAN, round : Nat, period : Nat, count : Nat]
StartedTimers == {t \in Timer : stimer_info[t].start}

(* The types of the state, and that a started timer has a period.           *)
TimerTyped ==
  /\ stimer_info \in [Timer -> TimerInfo]
  /\ stimer_wheel \in [Slots -> Seq(Timer)] /\ stimer_timeout_list \in Seq(Timer)
  /\ current_slot \in Slots /\ left \in [Timer -> Nat]
  /\ \A t \in StartedTimers : stimer_info[t].period \in Periods

(* The inductive invariant of STimer.                                       *)
TimerInv == /\ TimerTyped /\ FallsDueOnTime
            /\ Placed(stimer_wheel, stimer_timeout_list, StartedTimers)

(* A timer in one list, once, has one link.                                 *)
LEMMA PlacedIsLinkedOnce ==
  ASSUME TimerTyped, Placed(stimer_wheel, stimer_timeout_list, StartedTimers)
  PROVE  LinkedOnce
<1> SUFFICES ASSUME NEW t \in Timer
             PROVE  Cardinality(Links(t)) = IF stimer_info[t].start THEN 1 ELSE 0
  BY DEF LinkedOnce
<1> DEFINE All == Slots \cup {DueList}
<1>1. DueList \notin Slots
  BY STimerAssumption DEF DueList, Slots
<1>2. ListOf(DueList) = stimer_timeout_list /\ \A s \in Slots : ListOf(s) = stimer_wheel[s]
  BY <1>1 DEF ListOf
<1>3. \A l : l \in Links(t) <=> \E s \in All : \E i \in DOMAIN ListOf(s) :
                                    l = <<s, i>> /\ ListOf(s)[i] = t
  <2>1. \A l : l \in UNION {{s} \X DOMAIN ListOf(s) : s \in All} <=>
               \E s \in All : \E i \in DOMAIN ListOf(s) : l = <<s, i>>
    OBVIOUS
  <2> QED BY <2>1 DEF Links
<1>4. \A s \in All : Distinct(ListOf(s))
  BY <1>2 DEF Placed
<1>5. \A s, q \in All : s # q => Range(ListOf(s)) \cap Range(ListOf(q)) = {}
  BY <1>1, <1>2 DEF Placed
<1>6. stimer_info[t].start <=> \E s \in All : t \in Range(ListOf(s))
  BY <1>1, <1>2 DEF Placed, StartedTimers
<1>7. CASE stimer_info[t].start
  <2>1. PICK s \in All : t \in Range(ListOf(s))
    BY <1>6, <1>7
  <2>2. PICK i \in DOMAIN ListOf(s) : ListOf(s)[i] = t
    BY <2>1 DEF Range
  <2>3. ASSUME NEW q \in All, NEW j \in DOMAIN ListOf(q), ListOf(q)[j] = t
        PROVE  q = s /\ j = i
    <3>1. t \in Range(ListOf(q))
      BY <2>3 DEF Range
    <3>2. q = s
      BY <1>5, <2>1, <3>1
    <3> QED BY <1>4, <2>2, <2>3, <3>2 DEF Distinct
  <2>4. Links(t) = {<<s, i>>}
    BY <1>3, <2>2, <2>3
  <2> QED BY <1>7, <2>4, FS_Singleton
<1>8. CASE ~stimer_info[t].start
  <2>1. Links(t) = {}
    BY <1>3, <1>6, <1>8 DEF Range
  <2> QED BY <1>8, <2>1, FS_EmptySet
<1> QED BY <1>7, <1>8

(* Remainders by the size of the wheel.                                     *)
LEMMA OnceRound ==
  ASSUME NEW x \in Int
  PROVE  /\ x \in 0..(WheelSlots - 1) => x % WheelSlots = x
         /\ x \in WheelSlots..(2 * WheelSlots - 1) => x % WheelSlots = x - WheelSlots
         /\ x \in (0 - WheelSlots)..(0 - 1) => x % WheelSlots = x + WheelSlots
  BY STimerAssumption

(* Quotient and remainder.                                                  *)
LEMMA DividesIs ==
  ASSUME NEW w \in Nat \ {0}, NEW n \in Nat
  PROVE  n = (n \div w) * w + (n % w) /\ n \div w \in Nat /\ n % w \in 0..(w - 1)
  OBVIOUS

(* A time is whole turns and a rest.                                        *)
LEMMA TurnsAndRest ==
  ASSUME NEW n \in Nat
  PROVE  /\ n \div WheelSlots \in Nat /\ n % WheelSlots \in 0..(WheelSlots - 1)
         /\ n = (n \div WheelSlots) * WheelSlots + (n % WheelSlots)
<1>1. WheelSlots \in Nat \ {0}
  BY STimerAssumption
<1> QED BY <1>1, DividesIs

(* One round less is one turn of the wheel less.                            *)
LEMMA OneTurnLess ==
  ASSUME NEW r \in Nat, r > 0
  PROVE  WheelSlots * (r - 1) = WheelSlots * r - WheelSlots
  BY STimerAssumption

(* How far slot s is ahead of the current one.                              *)
Ahead(s, c) == (s - c) % WheelSlots

(* How far ahead a slot is, of the current one and after a turn.            *)
LEMMA AheadIs ==
  ASSUME NEW s \in Slots, NEW c \in Slots
  PROVE  /\ Ahead(s, c) = IF s >= c THEN s - c ELSE s - c + WheelSlots
         /\ Ahead(s, c) \in 0..(WheelSlots - 1)
<1>1. s \in Nat /\ c \in Nat /\ s <= WheelSlots - 1 /\ c <= WheelSlots - 1 /\ s - c \in Int
      /\ WheelSlots \in Nat
  BY STimerAssumption DEF Slots
<1>2. CASE s >= c
  BY <1>1, <1>2, OnceRound DEF Ahead
<1>3. CASE ~(s >= c)
  BY <1>1, <1>3, OnceRound DEF Ahead
<1> QED BY <1>2, <1>3

(* After a turn every slot is nearer by one, but the one that was left.     *)
LEMMA NextSlot ==
  ASSUME NEW c \in Slots
  PROVE  LET d == (c + 1) % WheelSlots
         IN /\ d \in Slots
            /\ Ahead(c, c) = 0 /\ Ahead(c, d) = WheelSlots - 1
            /\ \A s \in Slots \ {c} : Ahead(s, d) = Ahead(s, c) - 1
<1> DEFINE d == (c + 1) % WheelSlots
<1>1. /\ c \in Nat /\ c <= WheelSlots - 1 /\ c + 1 \in Nat
      /\ WheelSlots \in Nat /\ WheelSlots > 0
  BY STimerAssumption DEF Slots
<1>2. d = IF c + 1 = WheelSlots THEN 0 ELSE c + 1
  BY <1>1, OnceRound
<1> HIDE DEF d
<1>3. d \in Slots
  BY <1>1, <1>2 DEF Slots
<1>4. Ahead(c, c) = 0 /\ Ahead(c, d) = WheelSlots - 1
  BY <1>1, <1>2, <1>3, AheadIs
<1>5. ASSUME NEW s \in Slots \ {c} PROVE Ahead(s, d) = Ahead(s, c) - 1
  <2>1. s \in Nat /\ s <= WheelSlots - 1 /\ s # c /\ s \in Slots
    BY <1>1 DEF Slots
  <2> QED BY <1>1, <1>2, <1>3, <2>1, AheadIs
<1> QED BY <1>3, <1>4, <1>5 DEF d

(* A timer that is linked for n turns is n turns and one from falling due.  *)
LEMMA LinkedAhead ==
  ASSUME NEW c \in Slots, NEW n \in Nat
  PROVE  LET s == (c + (n % WheelSlots)) % WheelSlots
         IN s \in Slots /\ RoundsOf(n) \in Nat
              /\ Ahead(s, c) + WheelSlots * RoundsOf(n) + 1 = n + 1
<1> DEFINE m == n % WheelSlots
           s == (c + m) % WheelSlots
<1>1. /\ c \in Nat /\ c <= WheelSlots - 1
      /\ WheelSlots \in Nat /\ WheelSlots > 0
  BY STimerAssumption DEF Slots
<1>2. m \in Nat /\ m <= WheelSlots - 1 /\ RoundsOf(n) \in Nat
      /\ n = WheelSlots * RoundsOf(n) + m
  <2>1. PICK q \in Nat : q = RoundsOf(n) /\ m \in 0..(WheelSlots - 1) /\ n = q * WheelSlots + m
    BY TurnsAndRest DEF RoundsOf
  <2> HIDE DEF m
  <2>2. q * WheelSlots = WheelSlots * q
    BY <1>1
  <2> QED BY <1>1, <2>1, <2>2
<1> HIDE DEF m
<1>3. s = IF c + m < WheelSlots THEN c + m ELSE c + m - WheelSlots
  BY <1>1, <1>2, OnceRound
<1> HIDE DEF s
<1>4. s \in Slots /\ s \in Nat
  BY <1>1, <1>2, <1>3 DEF Slots
<1>5. Ahead(s, c) = m
  BY <1>1, <1>2, <1>3, <1>4, AheadIs
<1>6. WheelSlots * RoundsOf(n) \in Nat
  BY <1>1, <1>2
<1>7. Ahead(s, c) + WheelSlots * RoundsOf(n) + 1 = n + 1
  BY <1>2, <1>5, <1>6
<1> QED BY <1>2, <1>4, <1>7 DEF s, m

(* The nodes of a list of timers are timers.                                *)
LEMMA RangeIs ==
  ASSUME NEW S, NEW l \in Seq(S)
  PROVE  Range(l) \subseteq S
  BY DEF Range

(* dlist_del_entry, on the wheel and on the list of the due ones.           *)
LEMMA UnlinkedIs ==
  ASSUME TimerTyped, NEW t, NEW d, NEW B, Placed(stimer_wheel, d, B)
  PROVE  /\ Unlinked(t) \in [Slots -> Seq(Timer)]
         /\ \A s \in Slots : /\ Distinct(Unlinked(t)[s])
                             /\ Range(Unlinked(t)[s]) = Range(stimer_wheel[s]) \ {t}
<1>1. ASSUME NEW s \in Slots
      PROVE  LET l == Those(stimer_wheel[s], Timer \ {t})
             IN l \in Seq(Timer) /\ Distinct(l) /\ Range(l) = Range(stimer_wheel[s]) \ {t}
  <2>1. stimer_wheel[s] \in Seq(Timer) /\ Distinct(stimer_wheel[s])
    BY DEF TimerTyped, Placed
  <2>2. Range(stimer_wheel[s]) \subseteq Timer
    BY <2>1, RangeIs
  <2> QED BY <2>1, <2>2, ThoseAre
<1> QED BY <1>1 DEF Unlinked

(* dlist_del_entry from the list of the due timers takes this one away.    *)
LEMMA NotDueIs ==
  ASSUME TimerTyped, NEW t, NEW w, NEW B, Placed(w, stimer_timeout_list, B)
  PROVE  /\ NotDue(t) \in Seq(Timer) /\ Distinct(NotDue(t))
         /\ Range(NotDue(t)) = Range(stimer_timeout_list) \ {t}
<1>1. stimer_timeout_list \in Seq(Timer) /\ Distinct(stimer_timeout_list)
  BY DEF TimerTyped, Placed
<1>2. Range(stimer_timeout_list) \subseteq Timer
  BY <1>1, RangeIs
<1> QED BY <1>1, <1>2, ThoseAre DEF NotDue

(* A timer that is in no list is linked for n turns.                        *)
LEMMA LinkKeeps ==
  ASSUME TimerTyped, FallsDueOnTime,
         NEW v \in [Slots -> Seq(Timer)], NEW e, NEW B, Placed(v, e, B),
         \A s \in Slots : Range(v[s]) \subseteq Range(stimer_wheel[s]),
         NEW t \in Timer, t \notin B, NEW n \in Nat,
         stimer_wheel' = Linked(v, t, n), UNCHANGED current_slot,
         stimer_info'[t].round = RoundsOf(n), left'[t] = n + 1,
         \A u \in Timer \ {t} : stimer_info'[u] = stimer_info[u] /\ left'[u] = left[u]
  PROVE  /\ stimer_wheel' \in [Slots -> Seq(Timer)]
         /\ Placed(stimer_wheel', e, B \cup {t}) /\ FallsDueOnTime'
<1>1. current_slot \in Slots
  BY DEF TimerTyped
<1>2. PICK p \in Slots : /\ p = SlotAfter(n)
                         /\ Ahead(p, current_slot) + WheelSlots * RoundsOf(n) + 1 = n + 1
  BY <1>1, LinkedAhead DEF SlotAfter
<1>3. PICK w : w = Joined(v, p, t)
  OBVIOUS
<1>4. /\ w \in [Slots -> Seq(Timer)] /\ Placed(w, e, B \cup {t})
      /\ Range(w[p]) = Range(v[p]) \cup {t}
      /\ \A s \in Slots \ {p} : Range(w[s]) = Range(v[s])
  <2>1. w \in [Slots -> Seq(Timer)]
    BY <1>3, JoinedSlotIs
  <2>2. Placed(w, e, B \cup {t})
    BY <1>3, JoinsSlot
  <2>3. Range(w[p]) = Range(v[p]) \cup {t}
    <3>1. v[p] \in Seq(Timer) /\ w[p] = Append(v[p], t)
      BY <1>3 DEF Joined
    <3> QED BY <3>1, AppendedIs
  <2>4. \A s \in Slots \ {p} : w[s] = v[s]
    BY <1>3, JoinedSlotIs
  <2> QED BY <2>1, <2>2, <2>3, <2>4
<1>5. stimer_wheel' = w
  BY <1>2, <1>3 DEF Linked, Joined
<1>6. ASSUME NEW u \in Timer, NEW s \in Slots, u \in Range(w[s])
      PROVE  left'[u] = Ahead(s, current_slot) + WheelSlots * stimer_info'[u].round + 1
  <2>1. CASE u = t
    <3>1. t \notin Range(v[s])
      BY DEF Placed
    <3>2. s = p
      BY <1>4, <1>6, <2>1, <3>1
    <3> QED BY <1>2, <2>1, <3>2
  <2>2. CASE u # t
    <3>1. u \in Range(stimer_wheel[s])
      BY <1>4, <1>6, <2>2
    <3>2. left[u] = Ahead(s, current_slot) + WheelSlots * stimer_info[u].round + 1
      BY <3>1 DEF FallsDueOnTime, Ahead
    <3> QED BY <2>2, <3>2
  <2> QED BY <2>1, <2>2
<1>7. FallsDueOnTime'
  BY <1>5, <1>6 DEF FallsDueOnTime, Ahead
<1> QED BY <1>4, <1>5, <1>7

(* What stays on the wheel keeps its place.                                 *)
LEMMA PlaceKeeps ==
  ASSUME FallsDueOnTime, NEW t, UNCHANGED current_slot,
         \A s \in Slots : Range(stimer_wheel'[s]) \subseteq Range(stimer_wheel[s]) \ {t},
         \A u \in Timer \ {t} : stimer_info'[u] = stimer_info[u] /\ left'[u] = left[u]
  PROVE  FallsDueOnTime'
<1>1. ASSUME NEW u \in Timer, NEW s \in Slots, u \in Range(stimer_wheel'[s])
      PROVE  left'[u] = ((s - current_slot) % WheelSlots) + WheelSlots * stimer_info'[u].round + 1
  <2>1. u # t /\ u \in Range(stimer_wheel[s])
    BY <1>1
  <2> QED BY <2>1 DEF FallsDueOnTime
<1> QED BY <1>1 DEF FallsDueOnTime

(* A timer is started, wherever it was.                                     *)
LEMMA StartKeeps ==
  ASSUME TimerInv, NEW t \in Timer, NEW T \in Periods, stimer_start(t, T)
  PROVE  TimerInv'
<1> DEFINE B == StartedTimers \ {t}
<1>1. /\ TimerTyped /\ FallsDueOnTime /\ Placed(stimer_wheel, stimer_timeout_list, StartedTimers)
  BY DEF TimerInv
<1>2. T \in Nat /\ RoundsOf(T) \in Nat
  BY STimerAssumption, TurnsAndRest DEF RoundsOf
<1>3. PICK v \in [Slots -> Seq(Timer)] :
        /\ v = Unlinked(t)
        /\ \A s \in Slots : Distinct(v[s]) /\ Range(v[s]) = Range(stimer_wheel[s]) \ {t}
  BY <1>1, UnlinkedIs
<1>4. PICK e \in Seq(Timer) : /\ e = NotDue(t) /\ Distinct(e)
                              /\ Range(e) = Range(stimer_timeout_list) \ {t}
  BY <1>1, NotDueIs
<1>5. Placed(v, e, B)
  BY <1>1, <1>3, <1>4, LeavesList
<1>6. /\ stimer_wheel' = Linked(v, t, T) /\ stimer_timeout_list' = e
      /\ stimer_info' = [stimer_info EXCEPT ![t] = Started(T)]
      /\ left' = [left EXCEPT ![t] = T + 1] /\ UNCHANGED current_slot
  BY <1>3, <1>4 DEF stimer_start
<1>7. /\ stimer_info \in [Timer -> TimerInfo] /\ left \in [Timer -> Nat]
  BY <1>1 DEF TimerTyped
<1>8. Started(T) \in TimerInfo /\ Started(T).round = RoundsOf(T)
      /\ Started(T).start /\ Started(T).period = T
  BY <1>2 DEF Started, TimerInfo
<1>9. /\ stimer_info'[t] = Started(T) /\ left'[t] = T + 1
      /\ \A u \in Timer \ {t} : stimer_info'[u] = stimer_info[u] /\ left'[u] = left[u]
      /\ stimer_info' \in [Timer -> TimerInfo] /\ left' \in [Timer -> Nat]
  BY <1>2, <1>6, <1>7, <1>8
<1>10. /\ stimer_wheel' \in [Slots -> Seq(Timer)]
       /\ Placed(stimer_wheel', e, B \cup {t}) /\ FallsDueOnTime'
  <2>1. t \notin B /\ \A s \in Slots : Range(v[s]) \subseteq Range(stimer_wheel[s])
    BY <1>3
  <2>2. stimer_info'[t].round = RoundsOf(T)
    BY <1>8, <1>9
  <2> QED BY <1>1, <1>2, <1>5, <1>6, <1>9, <2>1, <2>2, LinkKeeps
<1>11. StartedTimers' = B \cup {t}
  BY <1>8, <1>9 DEF StartedTimers
<1>12. TimerTyped'
  BY <1>1, <1>6, <1>8, <1>9, <1>10, <1>11 DEF TimerTyped, StartedTimers
<1> QED BY <1>6, <1>10, <1>11, <1>12 DEF TimerInv

(* A timer is stopped.                                                      *)
LEMMA StopKeeps ==
  ASSUME TimerInv, NEW t \in Timer, stimer_stop(t)
  PROVE  TimerInv'
<1> DEFINE B == StartedTimers \ {t}
<1>1. /\ TimerTyped /\ FallsDueOnTime /\ Placed(stimer_wheel, stimer_timeout_list, StartedTimers)
  BY DEF TimerInv
<1>2. PICK v \in [Slots -> Seq(Timer)] :
        /\ v = Unlinked(t)
        /\ \A s \in Slots : Distinct(v[s]) /\ Range(v[s]) = Range(stimer_wheel[s]) \ {t}
  BY <1>1, UnlinkedIs
<1>3. PICK e \in Seq(Timer) : /\ e = NotDue(t) /\ Distinct(e)
                              /\ Range(e) = Range(stimer_timeout_list) \ {t}
  BY <1>1, NotDueIs
<1>4. Placed(v, e, B)
  BY <1>1, <1>2, <1>3, LeavesList
<1>5. /\ stimer_wheel' = v /\ stimer_timeout_list' = e
      /\ stimer_info' = [stimer_info EXCEPT ![t] = Stopped]
      /\ left' = [left EXCEPT ![t] = 0] /\ UNCHANGED current_slot
  BY <1>2, <1>3 DEF stimer_stop
<1>6. /\ stimer_info \in [Timer -> TimerInfo] /\ left \in [Timer -> Nat]
  BY <1>1 DEF TimerTyped
<1>7. Stopped \in TimerInfo /\ ~Stopped.start
  BY DEF Stopped, TimerInfo
<1>8. /\ stimer_info'[t] = Stopped
      /\ \A u \in Timer \ {t} : stimer_info'[u] = stimer_info[u] /\ left'[u] = left[u]
      /\ stimer_info' \in [Timer -> TimerInfo] /\ left' \in [Timer -> Nat]
  BY <1>5, <1>6, <1>7
<1>9. FallsDueOnTime'
  <2>1. \A s \in Slots : Range(stimer_wheel'[s]) \subseteq Range(stimer_wheel[s]) \ {t}
    BY <1>2, <1>5
  <2> QED BY <1>1, <1>5, <1>8, <2>1, PlaceKeeps
<1>10. StartedTimers' = B
  BY <1>7, <1>8 DEF StartedTimers
<1>11. TimerTyped'
  BY <1>1, <1>5, <1>8, <1>10 DEF TimerTyped, StartedTimers
<1> QED BY <1>4, <1>5, <1>9, <1>10, <1>11 DEF TimerInv

(* A timer falls due at once.                                               *)
LEMMA TriggerKeeps ==
  ASSUME TimerInv, NEW t \in Timer, stimer_trigger(t)
  PROVE  TimerInv'
<1> DEFINE B == StartedTimers \ {t}
           d == stimer_timeout_list
<1>1. /\ TimerTyped /\ FallsDueOnTime /\ Placed(stimer_wheel, stimer_timeout_list, StartedTimers)
  BY DEF TimerInv
<1>2. PICK v \in [Slots -> Seq(Timer)] :
        /\ v = Unlinked(t)
        /\ \A s \in Slots : Distinct(v[s]) /\ Range(v[s]) = Range(stimer_wheel[s]) \ {t}
  BY <1>1, UnlinkedIs
<1>3. t \notin Range(d) /\ stimer_info[t].start
  BY DEF stimer_trigger, IsDue
<1>4. Placed(v, d, B)
  <2>1. Distinct(d) /\ Range(d) = Range(d) \ {t}
    BY <1>1, <1>3 DEF Placed
  <2> QED BY <1>1, <1>2, <2>1, LeavesList
<1>5. d \in Seq(Timer)
  BY <1>1 DEF TimerTyped
<1>6. PICK e \in Seq(Timer) : e = Append(d, t) /\ Placed(v, e, B \cup {t})
  <2>1. Append(d, t) \in Seq(Timer) /\ Placed(v, Append(d, t), B \cup {t})
    BY <1>4, <1>5, JoinsDue
  <2> QED BY <2>1
<1>7. /\ stimer_wheel' = v /\ stimer_timeout_list' = e
      /\ stimer_info' = [stimer_info EXCEPT ![t].round = 0]
      /\ left' = [left EXCEPT ![t] = 0] /\ UNCHANGED current_slot
  BY <1>2, <1>6 DEF stimer_trigger
<1>8. /\ stimer_info \in [Timer -> TimerInfo] /\ left \in [Timer -> Nat]
  BY <1>1 DEF TimerTyped
<1>9. /\ stimer_info'[t].start = stimer_info[t].start
      /\ stimer_info'[t].period = stimer_info[t].period
      /\ \A u \in Timer \ {t} : stimer_info'[u] = stimer_info[u] /\ left'[u] = left[u]
      /\ stimer_info' \in [Timer -> TimerInfo] /\ left' \in [Timer -> Nat]
  BY <1>7, <1>8 DEF TimerInfo
<1>10. FallsDueOnTime'
  <2>1. \A s \in Slots : Range(stimer_wheel'[s]) \subseteq Range(stimer_wheel[s]) \ {t}
    BY <1>2, <1>7
  <2> QED BY <1>1, <1>7, <1>9, <2>1, PlaceKeeps
<1>11. StartedTimers' = StartedTimers /\ B \cup {t} = StartedTimers
  BY <1>3, <1>9 DEF StartedTimers
<1>12. TimerTyped'
  BY <1>1, <1>7, <1>9, <1>11 DEF TimerTyped, StartedTimers
<1> QED BY <1>6, <1>7, <1>10, <1>11, <1>12 DEF TimerInv

(* A due timer goes back to the wheel.                                      *)
LEMMA ClearKeeps ==
  ASSUME TimerInv, NEW t \in Timer, stimer_clear(t)
  PROVE  TimerInv'
<1> DEFINE B == StartedTimers \ {t}
           v == stimer_wheel
           T == stimer_info[t].period
<1>1. /\ TimerTyped /\ FallsDueOnTime /\ Placed(stimer_wheel, stimer_timeout_list, StartedTimers)
  BY DEF TimerInv
<1>2. t \in Range(stimer_timeout_list)
  BY DEF stimer_clear, IsDue
<1>3. t \in StartedTimers /\ \A s \in Slots : t \notin Range(v[s])
  BY <1>1, <1>2 DEF Placed
<1>4. T \in Nat /\ RoundsOf(T) \in Nat
  BY <1>1, <1>3, STimerAssumption, TurnsAndRest DEF RoundsOf, TimerTyped
<1>5. PICK e \in Seq(Timer) : /\ e = NotDue(t) /\ Distinct(e)
                              /\ Range(e) = Range(stimer_timeout_list) \ {t}
  BY <1>1, NotDueIs
<1>6. Placed(v, e, B)
  <2>1. \A s \in Slots : Distinct(v[s]) /\ Range(v[s]) = Range(v[s]) \ {t}
    BY <1>1, <1>3 DEF Placed
  <2> QED BY <1>1, <1>5, <2>1, LeavesList
<1>7. v \in [Slots -> Seq(Timer)] /\ stimer_info \in [Timer -> TimerInfo] /\ left \in [Timer -> Nat]
  BY <1>1 DEF TimerTyped
<1>8. /\ stimer_wheel' = Linked(v, t, T) /\ stimer_timeout_list' = e
      /\ stimer_info' = [stimer_info EXCEPT ![t].round = RoundsOf(T)]
      /\ left' = [left EXCEPT ![t] = T + 1] /\ UNCHANGED current_slot
  BY <1>5 DEF stimer_clear
<1> HIDE DEF T
<1>9. /\ stimer_info'[t].round = RoundsOf(T) /\ left'[t] = T + 1
      /\ stimer_info'[t].start = stimer_info[t].start
      /\ stimer_info'[t].period = stimer_info[t].period
      /\ \A u \in Timer \ {t} : stimer_info'[u] = stimer_info[u] /\ left'[u] = left[u]
      /\ stimer_info' \in [Timer -> TimerInfo] /\ left' \in [Timer -> Nat]
  <2>1. PICK r \in Nat : r = RoundsOf(T)
    BY <1>4
  <2>2. stimer_info' = [stimer_info EXCEPT ![t].round = r]
    BY <1>8, <2>1
  <2>3. left'[t] = T + 1 /\ left' \in [Timer -> Nat] /\ \A u \in Timer \ {t} : left'[u] = left[u]
    BY <1>4, <1>7, <1>8
  <2>4. /\ stimer_info'[t].round = r /\ stimer_info'[t].start = stimer_info[t].start
        /\ stimer_info'[t].period = stimer_info[t].period
        /\ \A u \in Timer \ {t} : stimer_info'[u] = stimer_info[u]
        /\ stimer_info' \in [Timer -> TimerInfo]
    BY <1>7, <2>1, <2>2 DEF TimerInfo
  <2> QED BY <2>1, <2>3, <2>4
<1>10. /\ stimer_wheel' \in [Slots -> Seq(Timer)]
       /\ Placed(stimer_wheel', e, B \cup {t}) /\ FallsDueOnTime'
  <2>1. PICK w \in [Slots -> Seq(Timer)] : w = v
    BY <1>7
  <2>2. /\ Placed(w, e, B) /\ t \notin B
        /\ \A s \in Slots : Range(w[s]) \subseteq Range(stimer_wheel[s])
    BY <1>6, <2>1
  <2>3. stimer_wheel' = Linked(w, t, T)
    BY <1>8, <2>1
  <2> QED BY <1>1, <1>4, <1>8, <1>9, <2>2, <2>3, LinkKeeps
<1>11. StartedTimers' = StartedTimers /\ B \cup {t} = StartedTimers
  BY <1>3, <1>9 DEF StartedTimers
<1>12. TimerTyped'
  BY <1>1, <1>8, <1>9, <1>10, <1>11 DEF TimerTyped, StartedTimers
<1> QED BY <1>8, <1>10, <1>11, <1>12 DEF TimerInv

(* The task takes the first of the due timers.                              *)
LEMMA TakesKeeps ==
  ASSUME TimerInv, Takes
  PROVE  TimerInv'
<1>1. /\ TimerTyped /\ FallsDueOnTime /\ Placed(stimer_wheel, stimer_timeout_list, StartedTimers)
  BY DEF TimerInv
<1>2. stimer_timeout_list \in Seq(Timer) /\ stimer_timeout_list # <<>>
  BY <1>1 DEF TimerTyped, Takes
<1>3. PICK t \in Timer, e \in Seq(Timer) :
        /\ t = Head(stimer_timeout_list) /\ e = Tail(stimer_timeout_list)
        /\ t \in Range(stimer_timeout_list)
        /\ Distinct(e) /\ Range(e) = Range(stimer_timeout_list) \ {t}
  <2>1. Distinct(stimer_timeout_list)
    BY <1>1 DEF Placed
  <2>2. PICK l \in Seq(Timer) : l = stimer_timeout_list /\ l # <<>> /\ Distinct(l)
    BY <1>2, <2>1
  <2>3. PICK t \in Timer, e \in Seq(Timer) : t = Head(l) /\ e = Tail(l)
    BY <2>2, TailIs
  <2>4. t \in Range(l) /\ Range(l) = Range(e) \cup {t} /\ Distinct(e) /\ t \notin Range(e)
    BY <2>2, <2>3, TailIs
  <2>5. Range(e) = Range(l) \ {t}
    BY <2>4
  <2> QED BY <2>2, <2>3, <2>4, <2>5
<1>4. PICK v \in [Slots -> Seq(Timer)] : v = stimer_wheel
  BY <1>1 DEF TimerTyped
<1>5. t \in StartedTimers /\ \A s \in Slots : t \notin Range(v[s])
  BY <1>1, <1>3, <1>4 DEF Placed
<1>6. PICK B : B = StartedTimers \ {t} /\ B \cup {t} = StartedTimers
  BY <1>5
<1>7. Placed(v, e, B)
  <2>1. \A s \in Slots : Distinct(v[s]) /\ Range(v[s]) = Range(v[s]) \ {t}
    BY <1>1, <1>4, <1>5 DEF Placed
  <2> QED BY <1>1, <1>3, <1>4, <1>6, <2>1, LeavesList
<1>8. stimer_info \in [Timer -> TimerInfo] /\ left \in [Timer -> Nat] /\ UNCHANGED current_slot
      /\ stimer_timeout_list' = e
  BY <1>1, <1>3 DEF TimerTyped, Takes
<1>9. CASE t \in PeriodTimers
  <2>1. PICK T, n, c, r :
          /\ T = stimer_info[t].period /\ c = stimer_info[t].count
          /\ n = Again(T, c) /\ r = RoundsOf(n)
    OBVIOUS
  <2>2. T \in Nat /\ T > 0 /\ c \in Nat
    BY <1>1, <1>5, <1>8, <2>1, STimerAssumption DEF TimerTyped, TimerInfo
  <2>3. /\ stimer_wheel' = Linked(v, t, n)
        /\ stimer_info' = [stimer_info EXCEPT ![t].round = r,
                             ![t].count = IF T > 2 /\ c >= Supplementary THEN 0 ELSE @]
        /\ left' = [left EXCEPT ![t] = IF T > 2 /\ c >= Supplementary THEN T - 1
                                       ELSE IF T = 1 THEN 2 ELSE T]
    BY <1>3, <1>4, <1>9, <2>1 DEF Takes
  <2>4. n \in Nat /\ n + 1 = IF T > 2 /\ c >= Supplementary THEN T - 1
                             ELSE IF T = 1 THEN 2 ELSE T
    BY <2>1, <2>2, STimerAssumption DEF Again
  <2>5. r \in Nat
    BY <2>1, <2>4, TurnsAndRest DEF RoundsOf
  <2>6. /\ stimer_info'[t].round = r /\ left'[t] = n + 1
        /\ stimer_info'[t].start = stimer_info[t].start
        /\ stimer_info'[t].period = stimer_info[t].period
        /\ \A u \in Timer \ {t} : stimer_info'[u] = stimer_info[u] /\ left'[u] = left[u]
    BY <1>8, <2>3, <2>4 DEF TimerInfo
  <2>7. stimer_info' \in [Timer -> TimerInfo] /\ left' \in [Timer -> Nat]
    <3>1. left' \in [Timer -> Nat]
      BY <1>8, <2>3, <2>4
    <3>2. PICK k \in Nat : k = IF T > 2 /\ c >= Supplementary THEN 0 ELSE c
      BY <2>2
    <3>3. stimer_info' = [stimer_info EXCEPT ![t].round = r, ![t].count = k]
      BY <1>8, <2>1, <2>3, <3>2
    <3> QED BY <1>8, <2>5, <3>1, <3>2, <3>3 DEF TimerInfo
  <2>8. /\ stimer_wheel' \in [Slots -> Seq(Timer)]
        /\ Placed(stimer_wheel', e, B \cup {t}) /\ FallsDueOnTime'
    <3>1. t \notin B /\ \A s \in Slots : Range(v[s]) \subseteq Range(stimer_wheel[s])
      BY <1>4, <1>6
    <3>2. stimer_info'[t].round = RoundsOf(n)
      BY <2>1, <2>6
    <3> QED BY <1>1, <1>7, <1>8, <2>3, <2>4, <2>6, <3>1, <3>2, LinkKeeps
  <2>9. StartedTimers' = StartedTimers
    BY <1>5, <2>6 DEF StartedTimers
  <2>10. TimerTyped'
    BY <1>1, <1>8, <2>6, <2>7, <2>8, <2>9 DEF TimerTyped, StartedTimers
  <2> QED BY <1>6, <1>8, <2>8, <2>9, <2>10 DEF TimerInv
<1>10. CASE t \notin PeriodTimers
  <2>1. /\ stimer_info' = [stimer_info EXCEPT ![t] = Stopped]
        /\ stimer_wheel' = v /\ UNCHANGED left
    BY <1>3, <1>4, <1>10 DEF Takes
  <2>2. Stopped \in TimerInfo /\ ~Stopped.start
    BY DEF Stopped, TimerInfo
  <2>3. /\ stimer_info'[t] = Stopped
        /\ \A u \in Timer \ {t} : stimer_info'[u] = stimer_info[u] /\ left'[u] = left[u]
        /\ stimer_info' \in [Timer -> TimerInfo] /\ left' \in [Timer -> Nat]
    BY <1>8, <2>1, <2>2
  <2>4. FallsDueOnTime'
    <3>1. \A s \in Slots : Range(stimer_wheel'[s]) \subseteq Range(stimer_wheel[s]) \ {t}
      BY <1>4, <1>5, <2>1
    <3> QED BY <1>1, <1>8, <2>3, <3>1, PlaceKeeps
  <2>5. StartedTimers' = B
    BY <1>6, <2>2, <2>3 DEF StartedTimers
  <2>6. TimerTyped'
    BY <1>1, <1>4, <1>6, <1>8, <2>1, <2>3, <2>5 DEF TimerTyped, StartedTimers
  <2> QED BY <1>7, <1>8, <2>1, <2>4, <2>5, <2>6 DEF TimerInv
<1> QED BY <1>9, <1>10

(* The wheel turns by one slot.                                             *)
LEMMA TurnKeeps ==
  ASSUME TimerInv, Turn
  PROVE  TimerInv'
<1>1. /\ TimerTyped /\ FallsDueOnTime /\ Placed(stimer_wheel, stimer_timeout_list, StartedTimers)
  BY DEF TimerInv
<1>2. PICK w \in [Slots -> Seq(Timer)], d \in Seq(Timer), c \in Slots :
        w = stimer_wheel /\ d = stimer_timeout_list /\ c = current_slot
  BY <1>1 DEF TimerTyped
<1>3. PICK K, F :
        /\ K = {t \in Timer : stimer_info[t].start /\ stimer_info[t].round > 0}
        /\ F = {t \in Timer : stimer_info[t].start /\ stimer_info[t].round = 0}
  OBVIOUS
<1>4. /\ stimer_info \in [Timer -> TimerInfo] /\ left \in [Timer -> Nat]
      /\ \A t \in Timer : stimer_info[t].round \in Nat /\ stimer_info[t].count \in Nat
  BY <1>1 DEF TimerTyped, TimerInfo
<1>5. K \cap F = {} /\ StartedTimers \subseteq K \cup F
  BY <1>3, <1>4 DEF StartedTimers
<1>6. PICK v, e : v = Thinned(w, c, K) /\ e = d \o Those(w[c], F)
  OBVIOUS
<1>7. /\ stimer_wheel' = v /\ stimer_timeout_list' = e
      /\ stimer_info' = [t \in Timer |->
           IF t \notin Range(w[c]) THEN stimer_info[t]
           ELSE IF t \in K THEN [stimer_info[t] EXCEPT !.round = @ - 1]
           ELSE IF t \in F \cap PeriodTimers
                THEN [stimer_info[t] EXCEPT !.count = IF @ < Supplementary THEN @ + 1 ELSE @]
           ELSE stimer_info[t]]
      /\ left' = [t \in Timer |-> IF left[t] > 0 THEN left[t] - 1 ELSE 0]
      /\ current_slot' = (c + 1) % WheelSlots
  BY <1>2, <1>3, <1>6 DEF Turn, Thinned
<1>8. e \in Seq(Timer) /\ Placed(v, e, StartedTimers)
  BY <1>1, <1>2, <1>5, <1>6, SlotFalls
<1>9. v \in [Slots -> Seq(Timer)]
  BY <1>6, ThinnedIs
<1>10. Range(v[c]) = Range(w[c]) \cap K
  <2>1. v[c] = Those(w[c], K) /\ w[c] \in Seq(Timer)
    BY <1>6 DEF Thinned
  <2> QED BY <2>1, ThoseAre
<1>11. \A s \in Slots \ {c} : v[s] = w[s]
  BY <1>6, ThinnedIs
<1>12. ASSUME NEW t \in Timer
       PROVE  /\ stimer_info'[t] \in TimerInfo
              /\ stimer_info'[t].start = stimer_info[t].start
              /\ stimer_info'[t].period = stimer_info[t].period
              /\ stimer_info'[t].round = IF t \in Range(w[c]) /\ t \in K
                                         THEN stimer_info[t].round - 1 ELSE stimer_info[t].round
  <2>1. PICK i \in TimerInfo : i = stimer_info[t]
    BY <1>4
  <2>2. i.round \in Nat /\ i.count \in Nat /\ (t \in K => i.round > 0)
    BY <1>3, <2>1 DEF TimerInfo
  <2>3. CASE t \in Range(w[c]) /\ t \in K
    <3>1. stimer_info'[t] = [i EXCEPT !.round = i.round - 1] /\ i.round - 1 \in Nat
      BY <1>7, <2>1, <2>2, <2>3
    <3> QED BY <2>1, <2>3, <3>1 DEF TimerInfo
  <2>4. CASE t \in Range(w[c]) /\ t \notin K /\ t \in F \cap PeriodTimers
    <3>1. PICK k \in Nat : k = IF i.count < Supplementary THEN i.count + 1 ELSE i.count
      BY <2>2
    <3>2. stimer_info'[t] = [i EXCEPT !.count = k]
      BY <1>7, <2>1, <2>4, <3>1
    <3> QED BY <2>1, <2>4, <3>1, <3>2 DEF TimerInfo
  <2>5. CASE t \notin Range(w[c]) \/ (t \notin K /\ t \notin F \cap PeriodTimers)
    <3>1. stimer_info'[t] = i
      BY <1>7, <2>1, <2>5
    <3> QED BY <2>1, <2>5, <3>1
  <2> QED BY <2>3, <2>4, <2>5
<1>13. stimer_info' \in [Timer -> TimerInfo]
  BY <1>7, <1>12
<1>14. left' \in [Timer -> Nat] /\ \A t \in Timer : left[t] > 0 => left'[t] = left[t] - 1
  BY <1>4, <1>7
<1>15. StartedTimers' = StartedTimers
  BY <1>12 DEF StartedTimers
<1>16. PICK b \in Slots :
         /\ b = (c + 1) % WheelSlots /\ Ahead(c, c) = 0 /\ Ahead(c, b) = WheelSlots - 1
         /\ \A s \in Slots \ {c} : Ahead(s, b) = Ahead(s, c) - 1
  BY NextSlot
<1>17. ASSUME NEW u \in Timer, NEW s \in Slots, u \in Range(v[s])
       PROVE  left'[u] = Ahead(s, b) + WheelSlots * stimer_info'[u].round + 1
  <2>1. PICK r \in Nat : r = stimer_info[u].round
    BY <1>4
  <2>2. WheelSlots \in Nat /\ WheelSlots * r \in Nat /\ Ahead(s, c) \in Nat /\ left[u] \in Nat
    <3>1. WheelSlots \in Nat
      BY STimerAssumption
    <3>2. Ahead(s, c) \in 0..(WheelSlots - 1)
      BY AheadIs
    <3>3. Ahead(s, c) \in Nat
      BY <3>1, <3>2
    <3> QED BY <1>4, <3>1, <3>3
  <2>a. PICK m \in Nat, a \in Nat : m = WheelSlots * r /\ a = Ahead(s, c)
    BY <2>2
  <2>3. CASE s = c
    <3>1. u \in Range(w[c]) /\ u \in K /\ r > 0
      BY <1>3, <1>10, <1>17, <2>1, <2>3
    <3>2. left[u] = 0 + WheelSlots * r + 1
      BY <1>1, <1>2, <1>16, <2>1, <3>1 DEF FallsDueOnTime, Ahead
    <3>3. left'[u] = WheelSlots * r
      <4>1. left[u] = m + 1 /\ left[u] > 0 /\ left[u] - 1 = m
        BY <2>a, <3>2
      <4> QED BY <1>14, <2>a, <4>1
    <3>4. stimer_info'[u].round = r - 1 /\ WheelSlots * (r - 1) = WheelSlots * r - WheelSlots
      BY <1>12, <2>1, <3>1, OneTurnLess
    <3>5. left'[u] = (WheelSlots - 1) + WheelSlots * (r - 1) + 1
      BY <2>2, <3>3, <3>4
    <3> QED BY <1>16, <2>3, <3>4, <3>5
  <2>4. CASE s # c
    <3>1. u \in Range(w[s]) /\ u \notin Range(w[c])
      BY <1>1, <1>2, <1>11, <1>17, <2>4 DEF Placed
    <3>2. left[u] = Ahead(s, c) + WheelSlots * r + 1
      BY <1>1, <1>2, <2>1, <3>1 DEF FallsDueOnTime, Ahead
    <3>3. stimer_info'[u].round = r /\ Ahead(s, b) = Ahead(s, c) - 1
      BY <1>12, <1>16, <2>1, <2>4, <3>1
    <3>4. left[u] = a + m + 1 /\ left[u] > 0 /\ left[u] - 1 = (a - 1) + m + 1
      BY <2>a, <3>2
    <3>5. left'[u] = (a - 1) + m + 1
      BY <1>14, <3>4
    <3> QED BY <2>a, <3>3, <3>5
  <2> QED BY <2>3, <2>4
<1>18. FallsDueOnTime'
  <2>1. current_slot' = b
    BY <1>7, <1>16
  <2> QED BY <1>7, <1>17, <2>1 DEF FallsDueOnTime, Ahead
<1>19. TimerTyped'
  <2>1. current_slot' \in Slots
    BY <1>7, <1>16
  <2>2. \A t \in StartedTimers' : stimer_info'[t].period \in Periods
    BY <1>1, <1>12, <1>15 DEF TimerTyped, StartedTimers
  <2> QED BY <1>7, <1>8, <1>9, <1>13, <1>14, <2>1, <2>2 DEF TimerTyped
<1> QED BY <1>7, <1>8, <1>15, <1>18, <1>19 DEF TimerInv

(* Every timer that is started is in one place, and falls due on time.      *)
THEOREM TimersStayInPlace == TimerSpec => []TimersInPlace
<1>1. TimerInit => TimerInv
  <2> SUFFICES ASSUME TimerInit PROVE TimerInv
    OBVIOUS
  <2>1. Stopped \in TimerInfo /\ ~Stopped.start
    BY DEF Stopped, TimerInfo
  <2>2. StartedTimers = {}
    BY <2>1 DEF TimerInit, StartedTimers
  <2>3. \A s \in Slots : Range(stimer_wheel[s]) = {} /\ Distinct(stimer_wheel[s])
    BY DEF TimerInit, Range, Distinct
  <2>4. Range(stimer_timeout_list) = {} /\ Distinct(stimer_timeout_list)
    BY DEF TimerInit, Range, Distinct
  <2>5. Placed(stimer_wheel, stimer_timeout_list, StartedTimers)
    BY <2>2, <2>3, <2>4 DEF Placed
  <2>6. FallsDueOnTime
    BY <2>3 DEF FallsDueOnTime
  <2>7. TimerTyped
    <3>1. stimer_info \in [Timer -> TimerInfo] /\ left \in [Timer -> Nat]
      BY <2>1 DEF TimerInit
    <3>2. stimer_wheel \in [Slots -> Seq(Timer)] /\ stimer_timeout_list \in Seq(Timer)
      BY DEF TimerInit
    <3>3. current_slot \in Slots
      BY STimerAssumption DEF TimerInit, Slots
    <3> QED BY <2>2, <3>1, <3>2, <3>3 DEF TimerTyped
  <2> QED BY <2>5, <2>6, <2>7 DEF TimerInv
<1>2. TimerInv /\ [TimerNext]_timerVars => TimerInv'
  <2> SUFFICES ASSUME TimerInv, [TimerNext]_timerVars PROVE TimerInv'
    OBVIOUS
  <2>1. ASSUME NEW t \in Timer, NEW T \in Periods, stimer_start(t, T) PROVE TimerInv'
    BY <2>1, StartKeeps
  <2>2. ASSUME NEW t \in Timer, stimer_stop(t) PROVE TimerInv'
    BY <2>2, StopKeeps
  <2>3. ASSUME NEW t \in Timer, stimer_trigger(t) PROVE TimerInv'
    BY <2>3, TriggerKeeps
  <2>4. ASSUME NEW t \in Timer, stimer_clear(t) PROVE TimerInv'
    BY <2>4, ClearKeeps
  <2>5. CASE tbox_stimer_interrupt
    BY <2>5, TurnKeeps DEF tbox_stimer_interrupt
  <2>6. CASE Takes
    BY <2>6, TakesKeeps
  <2>7. ASSUME UNCHANGED lists PROVE TimerInv'
    BY <2>7 DEF lists, TimerInv, TimerTyped, FallsDueOnTime, Placed, StartedTimers
  <2>8. CASE SwitchTimers \/ Wakes \/ Empties \/ OwnTaskReset \/ ShellTaskReset
    BY <2>7, <2>8 DEF SwitchTimers, Wakes, Empties, OwnTaskReset, ShellTaskReset
  <2>9. CASE UNCHANGED timerVars
    BY <2>7, <2>9 DEF timerVars, lists
  <2> QED BY <2>1, <2>2, <2>3, <2>4, <2>5, <2>6, <2>8, <2>9 DEF TimerNext
<1>3. TimerInv => TimersInPlace
  BY PlacedIsLinkedOnce DEF TimerInv, TimersInPlace
<1> QED BY <1>1, <1>2, <1>3, PTL DEF TimerSpec

(* The notification that a due timer waits for.                             *)
Noticed ==
  stimer_timeout_list # <<>> /\ timer_pc = "wait" /\ timer_handle = "own" =>
    "INPUT" \in timer_events \/ unnoticed

(* Nothing can be taken from an empty list.                                 *)
LEMMA ThoseOfNone == ASSUME NEW T PROVE Those(<<>>, T) = <<>>
<1>1. <<>> \in Seq({}) /\ Range(<<>>) = {}
  BY DEF Range
<1>2. PICK l \in Seq({}) : l = Those(<<>>, T)
  BY <1>1, ThoseAre
<1>3. Len(l) = 0
  <2> SUFFICES ASSUME Len(l) # 0 PROVE FALSE
    OBVIOUS
  <2>1. l[1] \in {}
    OBVIOUS
  <2> QED BY <2>1
<1> QED BY <1>2, <1>3

(* A due timer does not wait for a task that sleeps without a notification. *)
THEOREM DueTimersAreNoticed == TimerSpec => []DueIsNoticed
<1>1. TimerInit => Noticed
  BY DEF TimerInit, Noticed
<1>2. Noticed /\ [TimerNext]_timerVars => Noticed'
  <2> SUFFICES ASSUME Noticed, [TimerNext]_timerVars PROVE Noticed'
    OBVIOUS
  <2>1. ASSUME NEW t \in Timer, NotDue(t) = stimer_timeout_list',
               UNCHANGED <<timer_task, unnoticed>>
        PROVE  Noticed'
    BY <2>1, ThoseOfNone DEF Noticed, NotDue, timer_task
  <2>2. ASSUME NEW t \in Timer, NEW T \in Periods, stimer_start(t, T) PROVE Noticed'
    BY <2>1, <2>2 DEF stimer_start
  <2>3. ASSUME NEW t \in Timer, stimer_stop(t) \/ stimer_clear(t) PROVE Noticed'
    BY <2>1, <2>3 DEF stimer_stop, stimer_clear
  <2>4. ASSUME NEW t \in Timer, stimer_trigger(t) PROVE Noticed'
    BY <2>4 DEF stimer_trigger, Noticed
  <2>5. CASE tbox_stimer_interrupt
    BY <2>5 DEF tbox_stimer_interrupt, Notified, Noticed
  <2>6. CASE SwitchTimers
    BY <2>6 DEF SwitchTimers, Notified, Noticed, lists
  <2>7. CASE Wakes
    BY <2>7 DEF Wakes, Noticed, lists
  <2>8. CASE Takes
    BY <2>8 DEF Takes, Noticed, timer_task
  <2>9. CASE Empties \/ OwnTaskReset \/ ShellTaskReset
    BY <2>9 DEF Empties, OwnTaskReset, ShellTaskReset, Noticed, lists
  <2>10. CASE UNCHANGED timerVars
    BY <2>10 DEF timerVars, Noticed
  <2> QED BY <2>2, <2>3, <2>4, <2>5, <2>6, <2>7, <2>8, <2>9, <2>10 DEF TimerNext
<1>3. Noticed => DueIsNoticed
  BY DEF Noticed, DueIsNoticed
<1> QED BY <1>1, <1>2, <1>3, PTL DEF TimerSpec
=============================================================================
