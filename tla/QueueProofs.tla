----------------------------- MODULE QueueProofs -----------------------------
(***************************************************************************)
(* Proofs about the two queues.  The free space of the circular queue      *)
(* (CQueue) never underflows, whatever the width of the counters, the      *)
(* sizes and the number of wraps, and it is a first-in first-out queue of  *)
(* bytes: the cell of a counter is found again after every wrap because    *)
(* the size divides their range.  No packet in the window of the ring in   *)
(* flash (HpmFlash) is garbled, for every size of the ring and every       *)
(* number of faults.  What makes that inductive is how a NOR sector is     *)
(* used (Discipline): at most the writer's sector has its bit, its packets *)
(* behind the writer are blank, the packet at the writer holds at most the *)
(* report whose write failed, and the reader is not behind the writer in   *)
(* it.  The ring is then shown to be the queue of module FlashQueue: each  *)
(* packet that waits is found by its index, counted from the reader.       *)
(***************************************************************************)
EXTENDS CQueue, HpmFlash, WellFoundedInduction, SequenceTheorems, TLAPS

(* Multiples, and what is between two of them.                              *)
LEMMA TimesMono ==
  ASSUME NEW a \in Nat, NEW b \in Nat, NEW n \in Nat, a <= b
  PROVE  a * n <= b * n /\ (a + 1) * n = a * n + n
OBVIOUS

LEMMA Splits ==
  ASSUME NEW n \in Nat \ {0}, NEW a \in Nat, NEW b \in Nat, NEW x \in 0..(n - 1), NEW y \in 0..(n - 1),
         a * n + x = b * n + y
  PROVE  a = b /\ x = y
<1>1. ~(a < b)
  <2> SUFFICES ASSUME a < b PROVE FALSE
    OBVIOUS
  <2>1. (a + 1) * n <= b * n /\ (a + 1) * n = a * n + n
    BY TimesMono, a + 1 <= b
  <2> QED BY <2>1
<1>2. ~(b < a)
  <2> SUFFICES ASSUME b < a PROVE FALSE
    OBVIOUS
  <2>1. (b + 1) * n <= a * n /\ (b + 1) * n = b * n + n
    BY TimesMono, b + 1 <= a
  <2> QED BY <2>1
<1>3. QED BY <1>1, <1>2

LEMMA DivMod ==
  ASSUME NEW n \in Nat \ {0}, NEW a \in Nat, NEW x \in 0..(n - 1)
  PROVE  (a * n + x) \div n = a /\ (a * n + x) % n = x
<1>1. a * n \in Nat /\ a * n + x \in Nat
  OBVIOUS
<1> DEFINE m == a * n + x
<1>2. m \in Nat BY <1>1
<1> HIDE DEF m
<1>3. m = (m \div n) * n + (m % n) /\ m \div n \in Nat /\ m % n \in 0..(n - 1)
  BY <1>2
<1>4. m = a * n + x BY DEF m
<1>5. a = m \div n /\ x = m % n BY <1>3, <1>4, Splits
<1> QED BY <1>5 DEF m

(* Reduction of an unsigned sum or difference of two counters. *)
LEMMA ModOnce ==
  ASSUME NEW W \in Nat \ {0}, NEW x \in Int
  PROVE  /\ x \in 0..(W - 1) => x % W = x
         /\ x \in W..(2*W - 1) => x % W = x - W
         /\ x \in (0-W)..(0-1) => x % W = x + W
  OBVIOUS

(* Unsigned difference and sum of two words. *)
LEMMA SubValue ==
  ASSUME NEW a \in 0..(Word - 1), NEW b \in 0..(Word - 1)
  PROVE  /\ Sub(a, b) = IF a >= b THEN a - b ELSE a - b + Word
         /\ Sub(a, b) \in 0..(Word - 1)
  <1>1. Word \in Nat \ {0} /\ a - b \in Int
    BY WordAssumption
  <1>2. /\ a - b \in 0..(Word - 1) => (a - b) % Word = a - b
        /\ a - b \in (0-Word)..(0-1) => (a - b) % Word = a - b + Word
    BY <1>1, ModOnce
  <1>3. (a - b) % Word = IF a >= b THEN a - b ELSE a - b + Word
    BY <1>1, <1>2
  <1> QED BY <1>1, <1>3 DEF Sub

LEMMA AddValue ==
  ASSUME NEW a \in 0..(Word - 1), NEW b \in 0..(Word - 1)
  PROVE  /\ Add(a, b) = IF a + b < Word THEN a + b ELSE a + b - Word
         /\ Add(a, b) \in 0..(Word - 1)
  <1>1. Word \in Nat \ {0} /\ a + b \in Int
    BY WordAssumption
  <1>2. \A x \in Int :
          /\ x \in 0..(Word - 1) => x % Word = x
          /\ x \in Word..(2*Word - 1) => x % Word = x - Word
    BY <1>1, ModOnce
  <1>3. (a + b) % Word = IF a + b < Word THEN a + b ELSE a + b - Word
    BY <1>1, <1>2
  <1> QED BY <1>1, <1>3 DEF Add

(* The loop of align_to_power stops at the largest power not above val. *)
LEMMA AlignFits ==
  ASSUME NEW val \in 1..MaxReq
  PROVE  /\ align_to_power(val) \in Powers
         /\ align_to_power(val) <= val
         /\ \A r \in Powers : r <= val => r <= align_to_power(val)
  <1> DEFINE T == {val - p : p \in {r \in Powers : r <= val}}
  <1>1. T \subseteq Nat /\ T # {}
    BY WordAssumption
  <1>2. PICK x \in T : \A y \in T : ~(<<y, x>> \in OpToRel(<, Nat))
    <2> HIDE DEF T
    <2> QED BY <1>1, WFMin, NatLessThanWellFounded
  <1>3. PICK p \in Powers : p <= val /\ x = val - p
    BY <1>2
  <1>4. ASSUME NEW r \in Powers, r <= val
        PROVE  r <= p
    <2>1. val - r \in T /\ val - r \in Nat /\ x \in Nat
      BY <1>1, <1>2, <1>4, WordAssumption
    <2>2. ~(val - r < x)
      BY <1>2, <2>1 DEF OpToRel
    <2> QED BY <2>1, <2>2, <1>3, <1>4, WordAssumption
  <1> QED BY <1>3, <1>4 DEF align_to_power

(* The part of the state the free space depends on. *)
Positions == /\ in \in 0..(Word - 1)
             /\ out \in 0..(Word - 1)
             /\ size \in 0..(Word - 1)
             /\ Sub(in, out) <= size

(* Data length and free space add up to the size in every such state. *)
LEMMA PositionsOccupancy == Positions => Occupancy
  <1> SUFFICES ASSUME Positions PROVE Occupancy
    OBVIOUS
  <1>1. Word \in Nat \ {0}
    BY WordAssumption
  <1>2. Sub(in, out) = IF in >= out THEN in - out ELSE in - out + Word
    BY SubValue DEF Positions
  <1>3. /\ Sub(size, in) = IF size >= in THEN size - in ELSE size - in + Word
        /\ Sub(size, in) \in 0..(Word - 1)
    BY SubValue DEF Positions
  <1>4. Add(Sub(size, in), out) = IF Sub(size, in) + out < Word
                                  THEN Sub(size, in) + out
                                  ELSE Sub(size, in) + out - Word
    BY <1>3, AddValue DEF Positions
  <1>5. Add(Sub(size, in), out) = size - Sub(in, out)
    BY <1>1, <1>2, <1>3, <1>4 DEF Positions
  <1> QED BY <1>5 DEF Positions, Occupancy, cqueue_surplus, cqueue_datalen

(* Adding at most the free space to in keeps the length within the size. *)
LEMMA PutKeeps ==
  ASSUME Positions, NEW n \in Nat, n <= size - Sub(in, out)
  PROVE  /\ Add(in, n) \in 0..(Word - 1)
         /\ Sub(Add(in, n), out) = Sub(in, out) + n
  <1>1. Word \in Nat \ {0}
    BY WordAssumption
  <1>2. /\ Sub(in, out) = IF in >= out THEN in - out ELSE in - out + Word
        /\ Sub(in, out) \in 0..(Word - 1)
    BY SubValue DEF Positions
  <1>3. n \in 0..(Word - 1)
    BY <1>1, <1>2 DEF Positions
  <1>4. /\ Add(in, n) = IF in + n < Word THEN in + n ELSE in + n - Word
        /\ Add(in, n) \in 0..(Word - 1)
    BY <1>3, AddValue DEF Positions
  <1>5. Sub(Add(in, n), out) = IF Add(in, n) >= out THEN Add(in, n) - out
                                                    ELSE Add(in, n) - out + Word
    BY <1>4, SubValue DEF Positions
  <1> QED BY <1>1, <1>2, <1>3, <1>4, <1>5 DEF Positions

(* Adding at most the data length to out removes that much. *)
LEMMA TakeKeeps ==
  ASSUME Positions, NEW n \in Nat, n <= Sub(in, out)
  PROVE  /\ Add(out, n) \in 0..(Word - 1)
         /\ Sub(in, Add(out, n)) = Sub(in, out) - n
  <1>1. Word \in Nat \ {0}
    BY WordAssumption
  <1>2. /\ Sub(in, out) = IF in >= out THEN in - out ELSE in - out + Word
        /\ Sub(in, out) \in 0..(Word - 1)
    BY SubValue DEF Positions
  <1>3. n \in 0..(Word - 1)
    BY <1>1, <1>2 DEF Positions
  <1>4. /\ Add(out, n) = IF out + n < Word THEN out + n ELSE out + n - Word
        /\ Add(out, n) \in 0..(Word - 1)
    BY <1>3, AddValue DEF Positions
  <1>5. Sub(in, Add(out, n)) = IF in >= Add(out, n) THEN in - Add(out, n)
                                                    ELSE in - Add(out, n) + Word
    BY <1>4, SubValue DEF Positions
  <1> QED BY <1>1, <1>2, <1>3, <1>4, <1>5 DEF Positions

(* Every step of the queue keeps the positions consistent. *)
LEMMA PositionsStep == Positions /\ [Next]_vars => Positions'
  <1> SUFFICES ASSUME Positions, [Next]_vars PROVE Positions'
    OBVIOUS
  <1>0. Word \in Nat \ {0} /\ Sub(in, out) \in Nat
    BY WordAssumption, SubValue DEF Positions
  <1>1. ASSUME NEW sz \in 0..MaxReq, cqueue_init(sz) PROVE Positions'
    <2>1. align_to_power(sz) \in 1..(Word - 1)
      <3>1. sz \in 1..MaxReq
        BY <1>1, WordAssumption DEF cqueue_init
      <3> QED BY <3>1, AlignFits, WordAssumption
    <2>2. Sub(0, 0) = 0
      BY <1>0, SubValue
    <2>3. in' = 0 /\ out' = 0 /\ size' = align_to_power(sz)
      BY <1>1 DEF cqueue_init
    <2> QED BY <1>0, <2>1, <2>2, <2>3 DEF Positions, Sub
  <1>2. ASSUME NEW n \in 0..MaxLen, NEW d \in [1..n -> Byte], cqueue_put(d)
        PROVE  Positions'
    <2> DEFINE m == least(Len(d), cqueue_surplus)
    <2>1. cqueue_surplus = size - Sub(in, out)
      BY PositionsOccupancy DEF Occupancy, cqueue_datalen
    <2>2. Len(d) \in Nat
      BY <1>2, WordAssumption
    <2>3. m \in Nat /\ m <= size - Sub(in, out)
      BY <1>0, <2>1, <2>2 DEF least, Positions
    <2>4. in' = Add(in, m) /\ UNCHANGED <<size, out>>
      BY <1>2 DEF cqueue_put
    <2> HIDE DEF m
    <2> QED BY <1>0, <2>3, <2>4, PutKeeps DEF Positions, Sub
  <1>3. ASSUME NEW n \in 0..MaxLen, cqueue_get(n) \/ cqueue_discard(n)
        PROVE  Positions'
    <2> DEFINE m == least(n, cqueue_datalen)
    <2>1. m \in Nat /\ m <= Sub(in, out)
      BY <1>0, WordAssumption DEF least, cqueue_datalen
    <2>2. out' = Add(out, m) /\ UNCHANGED <<size, in>>
      BY <1>3 DEF cqueue_get, cqueue_discard
    <2> HIDE DEF m
    <2> QED BY <1>0, <2>1, <2>2, TakeKeeps DEF Positions, Sub
  <1>4. ASSUME NEW n \in 0..MaxLen, cqueue_read(n) PROVE Positions'
    BY <1>4 DEF cqueue_read, Positions, Sub
  <1>5. CASE UNCHANGED vars
    BY <1>5 DEF vars, Positions, Sub
  <1> QED BY <1>1, <1>2, <1>3, <1>4, <1>5 DEF Next

(* cqueue_put, cqueue_get and cqueue_discard never let the unsigned        *)
(* difference of the counters exceed the size, for every counter width and *)
(* every sequence of calls.                                                *)
THEOREM QueueOccupancy == Spec => []Occupancy
  <1>1. Init => Positions
    <2>1. 0 \in 0..(Word - 1)
      BY WordAssumption
    <2>2. Sub(0, 0) = 0
      BY <2>1, SubValue
    <2> QED BY <2>1, <2>2 DEF Init, Positions
  <1>2. QED
    BY <1>1, PositionsStep, PositionsOccupancy, PTL DEF Spec

-----------------------------------------------------------------------------
(* The queue as a first-in first-out queue of bytes.                        *)
(* The cell j places behind cell x of a buffer of sz cells.                 *)
Wrap(sz, x, j) == IF x + j < sz THEN x + j ELSE x + j - sz

LEMMA PowerIs ==
  ASSUME NEW sz \in Powers
  PROVE  /\ sz \in Nat \ {0} /\ sz < Word
         /\ \E m \in Nat : Word = m * sz
<1>1. sz \in Nat \ {0} /\ sz < Word /\ Word \in Nat /\ Word % sz = 0
  BY WordAssumption
<1>2. Word = (Word \div sz) * sz + (Word % sz) /\ Word \div sz \in Nat
  BY <1>1
<1>3. PICK m \in Nat : m = Word \div sz
  BY <1>2
<1>4. Word = m * sz + 0 /\ m * sz \in Nat
  BY <1>1, <1>2, <1>3
<1>5. Word = m * sz
  BY <1>4
<1> QED BY <1>1, <1>5

(* The counters wrap where the buffer does.                                 *)
LEMMA CellMoves ==
  ASSUME NEW sz \in Powers, NEW c \in 0..(Word - 1), NEW n \in 0..sz
  PROVE  /\ c % sz \in 0..(sz - 1)
         /\ Add(c, n) % sz = Wrap(sz, c % sz, n)
<1>1. sz \in Nat \ {0} /\ sz < Word /\ Word \in Nat
  BY PowerIs, WordAssumption
<1>2. PICK m \in Nat : Word = m * sz
  BY PowerIs
<1>3. PICK a \in Nat, x \in 0..(sz - 1) : c = a * sz + x /\ x = c % sz
  <2>1. c = (c \div sz) * sz + (c % sz) /\ c \div sz \in Nat /\ c % sz \in 0..(sz - 1)
    BY <1>1
  <2> QED BY <2>1
<1>4. a * sz \in Nat /\ (a + 1) * sz = a * sz + sz
  BY <1>1, TimesMono
<1>5. a + 1 <= m
  <2> SUFFICES ASSUME m <= a PROVE FALSE
    OBVIOUS
  <2>1. m * sz <= a * sz
    BY <1>1, TimesMono
  <2> QED BY <1>1, <1>2, <1>3, <1>4, <2>1
<1>6. (a + 1) * sz <= Word /\ (a + 1 < m => (a + 1) * sz + sz <= Word)
  <2>1. (a + 1) * sz <= m * sz
    BY <1>1, <1>5, TimesMono
  <2>2. ASSUME a + 1 < m PROVE (a + 1) * sz + sz <= Word
    <3>1. (a + 1 + 1) * sz <= m * sz /\ (a + 1 + 1) * sz = (a + 1) * sz + sz
      BY <1>1, <2>2, TimesMono
    <3> QED BY <1>2, <3>1
  <2> QED BY <1>2, <2>1, <2>2
<1>7. Add(c, n) = IF c + n < Word THEN c + n ELSE c + n - Word
  BY <1>1, AddValue
<1>8. CASE x + n < sz
  <2>1. Add(c, n) = a * sz + (x + n)
    BY <1>1, <1>3, <1>4, <1>6, <1>7, <1>8
  <2>2. x + n \in 0..(sz - 1)
    BY <1>1, <1>8
  <2>3. PICK y \in 0..(sz - 1) : y = x + n
    BY <2>2
  <2>4. Add(c, n) % sz = y
    <3>1. (a * sz + y) % sz = y
      BY <1>1, DivMod
    <3> QED BY <2>1, <2>3, <3>1
  <2> QED BY <1>3, <1>8, <2>3, <2>4 DEF Wrap
<1>9. CASE x + n >= sz
  <2>0. x + n - sz \in 0..(sz - 1)
    BY <1>1, <1>9
  <2>1. CASE a + 1 < m
    <3>1. Add(c, n) = (a + 1) * sz + (x + n - sz)
      BY <1>1, <1>3, <1>4, <1>6, <1>7, <2>0, <2>1
    <3>0. PICK b \in Nat : b = a + 1
      OBVIOUS
    <3>2. PICK y \in 0..(sz - 1) : y = x + n - sz
      BY <2>0
    <3>3. (b * sz + y) % sz = y
      BY <1>1, DivMod
    <3>4. Add(c, n) % sz = y
      BY <3>0, <3>1, <3>2, <3>3
    <3> QED BY <1>1, <1>3, <1>9, <3>2, <3>4 DEF Wrap
  <2>2. CASE a + 1 = m
    <3>1. Add(c, n) = x + n - sz
      BY <1>1, <1>2, <1>3, <1>4, <1>7, <1>9, <2>0, <2>2
    <3>2. Add(c, n) % sz = x + n - sz
      BY <1>1, <2>0, <3>1
    <3> QED BY <1>1, <1>3, <1>9, <3>2 DEF Wrap
  <2> QED BY <1>5, <2>1, <2>2
<1> QED BY <1>1, <1>3, <1>8, <1>9

(* The two parts of a transfer, cell by cell.                               *)
LEMMA SliceIs ==
  ASSUME NEW c \in 0..(Word - 1), size \in Powers, NEW n \in 0..size
  PROVE  Slice(c, n) = [k \in 1..n |-> buffer[Wrap(size, Cell(c), k - 1)]]
<1>1. size \in Nat /\ Cell(c) \in 0..(size - 1)
  BY PowerIs, CellMoves DEF Cell
<1> DEFINE l == least(n, size - Cell(c))
<1>2. l = IF n < size - Cell(c) THEN n ELSE size - Cell(c)
  BY DEF least
<1> HIDE DEF l
<1>3. ASSUME NEW k \in 1..n
      PROVE  (IF k <= l THEN buffer[Cell(c) + k - 1] ELSE buffer[k - l - 1])
               = buffer[Wrap(size, Cell(c), k - 1)]
  <2>1. CASE k <= l
    <3>1. Wrap(size, Cell(c), k - 1) = Cell(c) + k - 1
      BY <1>1, <1>2, <2>1 DEF Wrap
    <3> QED BY <2>1, <3>1
  <2>2. CASE k > l
    <3>1. Wrap(size, Cell(c), k - 1) = k - l - 1
      BY <1>1, <1>2, <2>2 DEF Wrap
    <3>2. ~(k <= l)
      BY <1>1, <1>2, <2>2
    <3> QED BY <3>1, <3>2
  <2> QED BY <1>1, <1>2, <2>1, <2>2
<1> QED BY <1>3 DEF Slice, l

LEMMA StoredIs ==
  ASSUME NEW c \in 0..(Word - 1), size \in Powers, NEW n \in 0..size, NEW d,
         DOMAIN buffer = 0..(size - 1), NEW j \in 0..(size - 1)
  PROVE  Stored(c, d, n)[Wrap(size, Cell(c), j)]
           = IF j < n THEN d[j + 1] ELSE buffer[Wrap(size, Cell(c), j)]
<1>1. size \in Nat /\ Cell(c) \in 0..(size - 1)
  BY PowerIs, CellMoves DEF Cell
<1> DEFINE l == least(n, size - Cell(c))
<1>2. l = IF n < size - Cell(c) THEN n ELSE size - Cell(c)
  BY DEF least
<1>3. PICK i \in 0..(size - 1) : i = Wrap(size, Cell(c), j)
  BY <1>1 DEF Wrap
<1>4. Stored(c, d, n)[i] = IF i >= Cell(c) /\ i < Cell(c) + l THEN d[i - Cell(c) + 1]
                           ELSE IF i < n - l THEN d[i + l + 1] ELSE buffer[i]
  BY DEF Stored
<1> HIDE DEF l
<1>5. CASE Cell(c) + j < size
  <2>1. i = Cell(c) + j
    BY <1>3, <1>5 DEF Wrap
  <2>2. (i >= Cell(c) /\ i < Cell(c) + l) <=> j < n
    BY <1>1, <1>2, <1>5, <2>1
  <2>3. i - Cell(c) + 1 = j + 1 /\ (j >= n => ~(i < n - l))
    BY <1>1, <1>2, <1>5, <2>1
  <2> QED BY <1>1, <1>3, <1>4, <2>2, <2>3
<1>6. CASE Cell(c) + j >= size
  <2>1. i = Cell(c) + j - size
    BY <1>1, <1>3, <1>6 DEF Wrap
  <2>2. ~(i >= Cell(c)) /\ (i < n - l <=> j < n) /\ (j < n => i + l + 1 = j + 1)
    BY <1>1, <1>2, <1>6, <2>1
  <2> QED BY <1>3, <1>4, <2>2
<1> QED BY <1>1, <1>5, <1>6

Contents == Slice(out, cqueue_datalen)

FifoInv == /\ Positions
           /\ size # 0 => size \in Powers
           /\ buffer \in [0..(size - 1) -> Byte]

ContentsFine ==
  /\ Contents \in Seq(Byte) /\ Len(Contents) = Sub(in, out)
  /\ \A k \in 1..Len(Contents) : Contents[k] = buffer[Wrap(size, Cell(out), k - 1)]

LEMMA ContentsIs == FifoInv => ContentsFine
<1> SUFFICES ASSUME FifoInv PROVE ContentsFine
  OBVIOUS
<1>1. /\ size \in Nat /\ in \in 0..(Word - 1) /\ out \in 0..(Word - 1)
      /\ Sub(in, out) \in 0..size
  BY SubValue, WordAssumption DEF FifoInv, Positions
<1> DEFINE n == Sub(in, out)
           f == [k \in 1..n |-> buffer[Wrap(size, Cell(out), k - 1)]]
<1>2. CASE size = 0
  <2>1. n = 0
    BY <1>1, <1>2
  <2>2. Contents = <<>>
    BY <2>1 DEF Slice, Contents, cqueue_datalen
  <2>3. <<>> \in Seq(Byte) /\ Len(<<>>) = 0
    OBVIOUS
  <2> QED BY <2>1, <2>2, <2>3 DEF ContentsFine
<1>3. CASE size # 0
  <2>1. size \in Powers
    BY <1>3 DEF FifoInv
  <2>2. Contents = f
    BY <1>1, <2>1, SliceIs DEF Contents, cqueue_datalen
  <2>3. Cell(out) \in 0..(size - 1)
    BY <1>1, <2>1, PowerIs, CellMoves DEF Cell
  <2>4. \A k \in 1..n : buffer[Wrap(size, Cell(out), k - 1)] \in Byte
    <3> SUFFICES ASSUME NEW k \in 1..n PROVE buffer[Wrap(size, Cell(out), k - 1)] \in Byte
      OBVIOUS
    <3>1. Wrap(size, Cell(out), k - 1) \in 0..(size - 1)
      BY <1>1, <2>3 DEF Wrap
    <3> QED BY <3>1 DEF FifoInv
  <2>5. f \in Seq(Byte) /\ Len(f) = n
    <3> HIDE DEF n
    <3>1. n \in Nat
      BY <1>1 DEF n
    <3> QED BY <2>4, <3>1
  <2>6. \A k \in 1..n : f[k] = buffer[Wrap(size, Cell(out), k - 1)]
    OBVIOUS
  <2> HIDE DEF f
  <2> QED BY <2>2, <2>5, <2>6 DEF ContentsFine
<1> QED BY <1>2, <1>3

LEMMA ContentsNext == FifoInv' => ContentsFine'
BY ContentsIs, PTL

LEMMA FifoInit == Init => FifoInv
<1> SUFFICES ASSUME Init PROVE FifoInv
  OBVIOUS
<1>1. 0 \in 0..(Word - 1) /\ Sub(0, 0) = 0
  BY WordAssumption, SubValue
<1>2. buffer = <<>> /\ size = 0 /\ in = 0 /\ out = 0
  BY DEF Init
<1>3. buffer \in [0..(size - 1) -> Byte]
  BY <1>2
<1> QED BY <1>1, <1>2, <1>3 DEF FifoInv, Positions

LEMMA FifoStep == FifoInv /\ [Next]_vars => FifoInv'
<1> SUFFICES ASSUME FifoInv, [Next]_vars PROVE FifoInv'
  OBVIOUS
<1>1. Positions'
  BY PositionsStep DEF FifoInv
<1>2. ASSUME NEW sz \in 0..MaxReq, cqueue_init(sz) PROVE FifoInv'
  <2>1. sz \in 1..MaxReq /\ align_to_power(sz) \in Powers
    <3>1. sz \in 1..MaxReq
      BY <1>2, WordAssumption DEF cqueue_init
    <3> QED BY <3>1, AlignFits
  <2> QED BY <1>1, <1>2, <2>1 DEF FifoInv, cqueue_init
<1>3. ASSUME NEW n \in 0..MaxLen, NEW d \in [1..n -> Byte], cqueue_put(d) PROVE FifoInv'
  <2> DEFINE m == least(Len(d), cqueue_surplus)
             c == Cell(in)
             l == least(m, size - c)
  <2>1. size' = size /\ buffer' = Stored(in, d, m) /\ size # 0
    BY <1>3 DEF cqueue_put
  <2>2. size \in Powers /\ size \in Nat /\ in \in 0..(Word - 1)
    BY <2>1, PowerIs DEF FifoInv, Positions
  <2>3. c \in 0..(size - 1)
    BY <2>2, PowerIs, CellMoves DEF Cell
  <2>4. n \in Nat /\ Len(d) = n
    BY WordAssumption
  <2>5. m \in Nat /\ m <= n
    <3>1. Sub(in, out) \in 0..size
      BY <2>2, SubValue, WordAssumption DEF FifoInv, Positions
    <3>2. cqueue_surplus = size - Sub(in, out)
      BY PositionsOccupancy DEF FifoInv, Occupancy, cqueue_datalen
    <3> QED BY <2>2, <2>4, <3>1, <3>2 DEF least
  <2>6. l \in Nat /\ l <= m /\ l <= size - c
    BY <2>2, <2>3, <2>5 DEF least
  <2>7. DOMAIN buffer = 0..(size - 1)
    BY DEF FifoInv
  <2>8. Stored(in, d, m) = [i \in 0..(size - 1) |->
          IF i >= c /\ i < c + l THEN d[i - c + 1] ELSE IF i < m - l THEN d[i + l + 1] ELSE buffer[i]]
    BY <2>7 DEF Stored
  <2>9. ASSUME NEW i \in 0..(size - 1)
        PROVE  (IF i >= c /\ i < c + l THEN d[i - c + 1] ELSE IF i < m - l THEN d[i + l + 1]
                ELSE buffer[i]) \in Byte
    <3> HIDE DEF m, c, l
    <3>1. CASE i >= c /\ i < c + l
      <4>1. i - c + 1 \in 1..n
        BY <2>2, <2>3, <2>4, <2>5, <2>6, <3>1
      <4> QED BY <3>1, <4>1
    <3>2. CASE ~(i >= c /\ i < c + l) /\ i < m - l
      <4>1. i + l + 1 \in 1..n
        BY <2>2, <2>3, <2>4, <2>5, <2>6, <3>2
      <4> QED BY <3>2, <4>1
    <3>3. CASE ~(i >= c /\ i < c + l) /\ ~(i < m - l)
      BY <3>3 DEF FifoInv
    <3> QED BY <3>1, <3>2, <3>3
  <2>10. buffer' \in [0..(size - 1) -> Byte]
    <3> HIDE DEF m, c, l
    <3> QED BY <2>1, <2>8, <2>9
  <2> QED BY <1>1, <2>1, <2>2, <2>10 DEF FifoInv
<1>4. CASE UNCHANGED <<size, buffer>>
  BY <1>1, <1>4 DEF FifoInv
<1>5. ASSUME NEW n \in 0..MaxLen, cqueue_get(n) \/ cqueue_read(n) \/ cqueue_discard(n)
      PROVE  UNCHANGED <<size, buffer>>
  BY <1>5 DEF cqueue_get, cqueue_read, cqueue_discard
<1>6. (UNCHANGED vars) => UNCHANGED <<size, buffer>>
  BY DEF vars
<1> QED BY <1>2, <1>3, <1>4, <1>5, <1>6 DEF Next

LEMMA FifoAlways == Spec => []FifoInv
BY FifoInit, FifoStep, PTL DEF Spec

LEMMA MinIs ==
  ASSUME NEW a \in Nat, NEW b \in Nat
  PROVE  Fifo!Min({a, b}) = least(a, b)
<1>1. \A x \in {a, b} : (\A y \in {a, b} : x =< y) <=> x = least(a, b)
  BY DEF least
<1>2. least(a, b) \in {a, b}
  BY DEF least
<1> QED BY <1>1, <1>2 DEF Fifo!Min

(* The largest power of two, as both modules say it.                        *)
LEMMA CapIs ==
  ASSUME NEW req \in 1..MaxReq
  PROVE  align_to_power(req) = Fifo!Max({p \in 1..req : \E k \in 0..MaxReq : p = 2^k})
<1> DEFINE a == align_to_power(req)
           S == {p \in 1..req : \E k \in 0..MaxReq : p = 2^k}
<1>1. MaxReq \in Nat /\ \A p \in 1..MaxReq : p \in Powers <=> \E k \in 0..MaxReq : p = 2^k
  BY WordAssumption
<1>2. \A p : p \in S <=> p \in 1..req /\ p \in Powers
  BY <1>1
<1>3. a \in Powers /\ a <= req /\ Powers \subseteq Nat \ {0}
  BY AlignFits, WordAssumption
<1>4. \A r \in Powers : r <= req => r <= a
  BY AlignFits
<1> HIDE DEF a, S
<1>5. a \in S /\ \A x \in S : x <= a
  <2>1. a \in 1..req
    BY <1>1, <1>3
  <2>2. \A x \in S : x \in Powers /\ x <= req
    BY <1>1, <1>2
  <2> QED BY <1>2, <1>3, <1>4, <2>1, <2>2
<1>6. \A x \in S : (\A y \in S : x >= y) <=> x = a
  <2>1. S \subseteq Nat
    BY DEF S
  <2> QED BY <1>5, <2>1
<1>7. Fifo!Max(S) = a
  BY <1>5, <1>6 DEF Fifo!Max
<1> QED BY <1>7 DEF a, S

LEMMA WrapTwice ==
  ASSUME NEW sz \in Nat, NEW x \in 0..(sz - 1), NEW a \in 0..sz, NEW j \in 0..(sz - 1)
  PROVE  /\ Wrap(sz, x, a) \in 0..(sz - 1)
         /\ Wrap(sz, Wrap(sz, x, a), j) = Wrap(sz, x, IF a + j < sz THEN a + j ELSE a + j - sz)
BY DEF Wrap

LEMMA FifoRanges ==
  ASSUME FifoInv, size # 0
  PROVE  /\ size \in Powers /\ size \in Nat \ {0} /\ Word \in Nat
         /\ in \in 0..(Word - 1) /\ out \in 0..(Word - 1) /\ Sub(in, out) \in 0..size
         /\ Cell(out) \in 0..(size - 1)
<1>1. size \in Powers
  BY DEF FifoInv
<1>2. /\ size \in Nat \ {0} /\ Word \in Nat
      /\ in \in 0..(Word - 1) /\ out \in 0..(Word - 1) /\ Sub(in, out) <= size
  BY <1>1, PowerIs, WordAssumption DEF FifoInv, Positions
<1>3. Sub(in, out) \in 0..(Word - 1)
  BY <1>2, SubValue
<1>4. Cell(out) \in 0..(size - 1)
  BY <1>1, <1>2, CellMoves DEF Cell
<1> QED BY <1>1, <1>2, <1>3, <1>4

(* What the front of the contents is, by what is copied out.                *)
LEMMA FrontIs ==
  ASSUME FifoInv, size # 0, NEW len \in Nat
  PROVE  Slice(out, least(len, cqueue_datalen)) = Fifo!Prefix(Contents, len)
<1>1. /\ size \in Powers /\ size \in Nat /\ out \in 0..(Word - 1) /\ Sub(in, out) \in 0..size
      /\ Cell(out) \in 0..(size - 1)
  BY FifoRanges
<1>2. ContentsFine
  BY ContentsIs
<1> DEFINE m == least(len, Sub(in, out))
<1>3. m \in 0..size /\ m <= Sub(in, out)
  BY <1>1 DEF least
<1>4. Slice(out, m) = [k \in 1..m |-> buffer[Wrap(size, Cell(out), k - 1)]]
  BY <1>1, <1>3, SliceIs
<1>5. Fifo!Prefix(Contents, len) = SubSeq(Contents, 1, m)
  <2>1. Fifo!Min({len, Len(Contents)}) = least(len, Len(Contents))
    BY <1>1, <1>2, MinIs DEF ContentsFine
  <2> QED BY <1>2, <2>1 DEF Fifo!Prefix, ContentsFine
<1>6. PICK s \in Seq(Byte) : s = Contents /\ Len(s) = Sub(in, out)
  BY <1>2 DEF ContentsFine
<1> HIDE DEF m
<1>7. SubSeq(s, 1, m) = [k \in 1..m |-> s[k]]
  BY <1>1, <1>3, <1>6
<1>8. \A k \in 1..m : s[k] = buffer[Wrap(size, Cell(out), k - 1)]
  BY <1>1, <1>2, <1>3, <1>6 DEF ContentsFine
<1>9. [k \in 1..m |-> s[k]] = [k \in 1..m |-> buffer[Wrap(size, Cell(out), k - 1)]]
  BY <1>8
<1> QED BY <1>4, <1>5, <1>6, <1>7, <1>9 DEF m, cqueue_datalen

(* What is left when the read position moves on.                            *)
LEMMA RestIs ==
  ASSUME FifoInv, FifoInv', size # 0, NEW len \in Nat,
         out' = Add(out, least(len, cqueue_datalen)), UNCHANGED <<buffer, size, in>>
  PROVE  Contents' = Fifo!Rest(Contents, len)
<1>1. /\ size \in Powers /\ size \in Nat /\ out \in 0..(Word - 1) /\ Sub(in, out) \in 0..size
      /\ Cell(out) \in 0..(size - 1)
  BY FifoRanges
<1>2. ContentsFine /\ ContentsFine'
  BY ContentsIs, ContentsNext
<1> DEFINE m == least(len, Sub(in, out))
           L == Sub(in, out)
<1>3. m \in 0..size /\ m <= L /\ m \in Nat /\ L \in Nat
  BY <1>1 DEF least
<1>4. out' = Add(out, m)
  BY DEF cqueue_datalen
<1>5. Sub(in', out') = L - m
  <2>1. Positions
    BY DEF FifoInv
  <2> QED BY <1>3, <1>4, <2>1, TakeKeeps
<1>6. Cell(out)' = Wrap(size, Cell(out), m) /\ Cell(out) \in 0..(size - 1)
  BY <1>1, <1>3, <1>4, CellMoves DEF Cell
<1>7. PICK s \in Seq(Byte), t \in Seq(Byte) :
        s = Contents /\ Len(s) = L /\ t = Contents' /\ Len(t) = L - m
  BY <1>2, <1>5 DEF ContentsFine, Sub
<1> HIDE DEF m, L
<1>8. \A k \in 1..(L - m) : t[k] = s[m + k]
  <2> SUFFICES ASSUME NEW k \in 1..(L - m) PROVE t[k] = s[m + k]
    OBVIOUS
  <2>1. t[k] = buffer[Wrap(size, Cell(out)', k - 1)]
    BY <1>2, <1>7 DEF ContentsFine, Wrap
  <2>2. PICK i \in 1..L : i = m + k
    BY <1>3
  <2>3. s[i] = buffer[Wrap(size, Cell(out), i - 1)]
    BY <1>2, <1>7 DEF ContentsFine
  <2>4. L <= size
    BY <1>1 DEF L
  <2>5. Wrap(size, Wrap(size, Cell(out), m), k - 1) = Wrap(size, Cell(out), i - 1)
    <3>1. PICK j \in 0..(size - 1) : j = k - 1
      BY <1>1, <1>3, <2>4
    <3>2. m + j < size /\ m + j = i - 1
      BY <1>1, <1>3, <2>2, <2>4, <3>1
    <3> QED BY <1>1, <1>3, <3>1, <3>2, WrapTwice
  <2> QED BY <1>6, <2>1, <2>2, <2>3, <2>5
<1>9. t = SubSeq(s, m + 1, Len(s))
  <2>1. SubSeq(s, m + 1, Len(s)) \in Seq(Byte) /\ Len(SubSeq(s, m + 1, Len(s))) = L - m
        /\ \A k \in 1..(L - m) : SubSeq(s, m + 1, Len(s))[k] = s[m + k]
    BY <1>3, <1>7
  <2>2. PICK u \in Seq(Byte) : u = SubSeq(s, m + 1, Len(s))
    BY <2>1
  <2>3. Len(t) = Len(u) /\ \A k \in 1..Len(t) : t[k] = u[k]
    BY <1>7, <1>8, <2>1, <2>2
  <2>4. t = u
    BY <2>3, SeqEqual
  <2> QED BY <2>2, <2>4
<1>10. Fifo!Rest(Contents, len) = SubSeq(Contents, m + 1, Len(Contents))
  <2>1. Fifo!Min({len, Len(Contents)}) = least(len, Len(Contents))
    BY <1>2, <1>3, <1>7, MinIs
  <2> QED BY <1>7, <2>1 DEF Fifo!Rest, m, L
<1> QED BY <1>7, <1>9, <1>10

LEMMA PutIs ==
  ASSUME FifoInv, FifoInv', NEW n \in 0..MaxLen, NEW d \in [1..n -> Byte], cqueue_put(d)
  PROVE  Contents' = Contents \o Fifo!Prefix(d, size - Len(Contents))
<1> DEFINE L == Sub(in, out)
           m == least(Len(d), cqueue_surplus)
<1>1. size # 0 /\ in' = Add(in, m) /\ buffer' = Stored(in, d, m) /\ UNCHANGED <<size, out>>
  BY DEF cqueue_put
<1>2. /\ size \in Powers /\ size \in Nat /\ in \in 0..(Word - 1) /\ out \in 0..(Word - 1)
      /\ L \in 0..size /\ cqueue_surplus = size - L
      /\ n \in Nat /\ Len(d) = n /\ d \in Seq(Byte)
  <2>1. cqueue_surplus = size - L
    BY PositionsOccupancy DEF FifoInv, Occupancy, cqueue_datalen
  <2>2. n \in Nat /\ Len(d) = n /\ d \in Seq(Byte)
    BY WordAssumption
  <2> QED BY <1>1, <2>1, <2>2, FifoRanges
<1>3. m \in 0..size /\ m <= size - L /\ m <= n /\ m = least(size - L, n)
  BY <1>2 DEF least
<1>4. ContentsFine /\ ContentsFine'
  BY ContentsIs, ContentsNext
<1>5. Sub(in', out') = L + m
  <2>1. Positions
    BY DEF FifoInv
  <2>2. m \in Nat
    BY <1>2, <1>3
  <2> QED BY <1>1, <1>3, <2>1, <2>2, PutKeeps
<1>6. Cell(in) = Wrap(size, Cell(out), L) /\ Cell(out) \in 0..(size - 1)
  <2>1. in = Add(out, L)
    <3>1. L = IF in >= out THEN in - out ELSE in - out + Word
      BY <1>2, SubValue
    <3>2. Word \in Nat /\ L \in 0..(Word - 1)
      BY <1>2, <3>1, WordAssumption
    <3>3. Add(out, L) = IF out + L < Word THEN out + L ELSE out + L - Word
      BY <1>2, <3>2, AddValue
    <3> QED BY <1>2, <3>1, <3>2, <3>3
  <2> QED BY <1>2, <2>1, CellMoves DEF Cell
<1>7. PICK s \in Seq(Byte), t \in Seq(Byte) :
        s = Contents /\ Len(s) = L /\ t = Contents' /\ Len(t) = L + m
  BY <1>4, <1>5 DEF ContentsFine, Sub
<1>8. \A j \in 0..(size - 1) : buffer'[Wrap(size, Cell(in), j)]
                                 = IF j < m THEN d[j + 1] ELSE buffer[Wrap(size, Cell(in), j)]
  <2>1. DOMAIN buffer = 0..(size - 1)
    BY DEF FifoInv
  <2> HIDE DEF m
  <2> QED BY <1>1, <1>2, <1>3, <2>1, StoredIs
<1> HIDE DEF m, L
<1>9. ASSUME NEW k \in 1..(L + m) PROVE t[k] = IF k <= L THEN s[k] ELSE d[k - L]
  <2>1. t[k] = buffer'[Wrap(size, Cell(out), k - 1)]
    BY <1>1, <1>4, <1>7 DEF ContentsFine, Wrap, Cell
  <2>2. CASE k <= L
    <3>1. size - L + k - 1 \in 0..(size - 1) /\ size - L + k - 1 >= m
      BY <1>2, <1>3, <1>9, <2>2
    <3>3. PICK j \in 0..(size - 1) : j = size - L + k - 1
      BY <3>1
    <3>2. Wrap(size, Cell(in), j) = Wrap(size, Cell(out), k - 1)
      <4>1. (IF L + j < size THEN L + j ELSE L + j - size) = k - 1
        BY <1>2, <1>9, <3>3
      <4>2. Wrap(size, Wrap(size, Cell(out), L), j)
              = Wrap(size, Cell(out), IF L + j < size THEN L + j ELSE L + j - size)
        BY <1>2, <1>6, WrapTwice
      <4> QED BY <1>6, <4>1, <4>2, Zenon
    <3>4. buffer'[Wrap(size, Cell(in), j)] = buffer[Wrap(size, Cell(in), j)]
      BY <1>2, <1>3, <1>8, <3>1, <3>3
    <3>5. k \in 1..L
      BY <1>2, <1>3, <1>9, <2>2
    <3>6. s[k] = buffer[Wrap(size, Cell(out), k - 1)]
      BY <1>4, <1>7, <3>5 DEF ContentsFine
    <3> QED BY <2>1, <2>2, <3>2, <3>3, <3>4, <3>6
  <2>3. CASE k > L
    <3>1. k - 1 - L \in 0..(size - 1) /\ k - 1 - L < m
      BY <1>2, <1>3, <1>9, <2>3
    <3>3. PICK j \in 0..(size - 1) : j = k - 1 - L
      BY <3>1
    <3>2. Wrap(size, Cell(in), j) = Wrap(size, Cell(out), k - 1)
      <4>1. L + j < size /\ L + j = k - 1
        BY <1>2, <1>3, <1>9, <3>3
      <4> QED BY <1>2, <1>6, <4>1, WrapTwice
    <3>4. buffer'[Wrap(size, Cell(in), j)] = d[j + 1]
      BY <1>2, <1>3, <1>8, <3>1, <3>3
    <3>5. j + 1 = k - L /\ ~(k <= L)
      BY <1>2, <1>9, <2>3, <3>3
    <3> QED BY <2>1, <3>2, <3>3, <3>4, <3>5
  <2> QED BY <1>2, <1>9, <2>2, <2>3
<1>10. Fifo!Prefix(d, size - Len(Contents)) = SubSeq(d, 1, m)
  <2>1. Fifo!Min({size - L, Len(d)}) = m
    <3>1. size - L \in Nat /\ Len(d) \in Nat
      BY <1>2
    <3> QED BY <1>2, <1>3, <3>1, MinIs
  <2> QED BY <1>7, <2>1 DEF Fifo!Prefix
<1>11. t = s \o SubSeq(d, 1, m)
  <2>0. SubSeq(d, 1, m) \in Seq(Byte) /\ Len(SubSeq(d, 1, m)) = m
        /\ \A k \in 1..m : SubSeq(d, 1, m)[k] = d[k]
    <3>1. m \in Nat /\ m <= Len(d)
      BY <1>2, <1>3
    <3> QED BY <1>2, <3>1
  <2>1. PICK e \in Seq(Byte) : e = SubSeq(d, 1, m)
    BY <2>0
  <2>2. Len(e) = m /\ \A k \in 1..m : e[k] = d[k]
    BY <2>0, <2>1
  <2>3. PICK u \in Seq(Byte) : u = s \o e
    BY ConcatProperties
  <2>4. Len(u) = L + m /\ \A k \in 1..(L + m) : u[k] = IF k <= L THEN s[k] ELSE e[k - L]
    <3>1. /\ Len(s \o e) = Len(s) + Len(e)
          /\ \A k \in 1..(Len(s) + Len(e)) : (s \o e)[k] = IF k <= Len(s) THEN s[k] ELSE e[k - Len(s)]
      BY ConcatProperties
    <3> QED BY <1>7, <2>2, <2>3, <3>1
  <2>5. ASSUME NEW k \in 1..(L + m) PROVE t[k] = u[k]
    <3>1. CASE k <= L
      BY <1>9, <2>4, <3>1
    <3>2. CASE ~(k <= L)
      <4>1. k - L \in 1..m
        BY <1>2, <1>3, <3>2
      <4> QED BY <1>9, <2>2, <2>4, <3>2, <4>1
    <3> QED BY <3>1, <3>2
  <2>7. Len(t) = Len(u) /\ \A k \in 1..Len(t) : t[k] = u[k]
    BY <1>7, <2>4, <2>5
  <2>6. t = u
    BY <2>7, SeqEqual
  <2> QED BY <2>1, <2>3, <2>6
<1> QED BY <1>7, <1>10, <1>11

LEMMA FifoSteps == FifoInv /\ FifoInv' /\ [Next]_vars => Fifo!Next
<1> SUFFICES ASSUME FifoInv, FifoInv', [Next]_vars PROVE Fifo!Next
  OBVIOUS
<1>1. ContentsFine /\ ContentsFine' /\ MaxLen \in Nat
  BY ContentsIs, ContentsNext, WordAssumption
<1>2. ASSUME NEW sz \in 0..MaxReq, cqueue_init(sz) PROVE Fifo!Next
  <2>1. sz \in 1..MaxReq
    BY <1>2, WordAssumption DEF cqueue_init
  <2>2. size' = Fifo!Max({p \in 1..sz : \E k \in 0..MaxReq : p = 2^k})
    BY <1>2, <2>1, CapIs DEF cqueue_init
  <2>3. Contents' = <<>>
    <3>1. Sub(0, 0) = 0
      BY SubValue, WordAssumption
    <3>2. Sub(in, out)' = 0
      BY <1>2, <3>1 DEF cqueue_init, Sub
    <3>3. PICK t \in Seq(Byte) : t = Contents' /\ Len(t) = 0
      BY <1>1, <3>2 DEF ContentsFine
    <3> QED BY <3>3, EmptySeq
  <2> QED BY <1>2, <2>1, <2>2, <2>3 DEF cqueue_init, Contents, Fifo!Next, Fifo!Reinit
<1>3. ASSUME NEW n \in 0..MaxLen, NEW d \in [1..n -> Byte], cqueue_put(d) PROVE Fifo!Next
  <2>1. Contents' = Contents \o Fifo!Prefix(d, size - Len(Contents))
    BY <1>3, PutIs
  <2>2. call' = <<"put", d>> /\ size' = size
    BY <1>3 DEF cqueue_put
  <2> QED BY <2>1, <2>2 DEF Contents, Fifo!Next, Fifo!Put
<1>4. ASSUME NEW n \in 0..MaxLen, cqueue_get(n) PROVE Fifo!Next
  <2>1. n \in Nat /\ size # 0
    BY <1>1, <1>4 DEF cqueue_get
  <2>2. call' = <<"get", n, Fifo!Prefix(Contents, n)>> /\ size' = size
    BY <1>4, <2>1, FrontIs DEF cqueue_get
  <2>3. Contents' = Fifo!Rest(Contents, n)
    BY <1>4, <2>1, RestIs DEF cqueue_get
  <2> QED BY <2>2, <2>3 DEF Contents, Fifo!Next, Fifo!Get
<1>5. ASSUME NEW n \in 0..MaxLen, cqueue_read(n) PROVE Fifo!Next
  <2>1. n \in Nat /\ size # 0
    BY <1>1, <1>5 DEF cqueue_read
  <2>2. call' = <<"read", n, Fifo!Prefix(Contents, n)>> /\ size' = size
    BY <1>5, <2>1, FrontIs DEF cqueue_read
  <2>3. Contents' = Contents
    BY <1>5 DEF cqueue_read, Contents, Slice, cqueue_datalen, Sub, Cell
  <2> QED BY <2>2, <2>3 DEF Contents, Fifo!Next, Fifo!Read
<1>6. ASSUME NEW n \in 0..MaxLen, cqueue_discard(n) PROVE Fifo!Next
  <2>1. n \in Nat /\ size # 0
    BY <1>1, <1>6 DEF cqueue_discard
  <2>2. call' = <<"discard", n>> /\ size' = size
    BY <1>6 DEF cqueue_discard
  <2>3. Contents' = Fifo!Rest(Contents, n)
    BY <1>6, <2>1, RestIs DEF cqueue_discard
  <2> QED BY <2>2, <2>3 DEF Contents, Fifo!Next, Fifo!Discard
<1>7. CASE UNCHANGED vars
  <2>1. Contents' = Contents
    BY <1>7 DEF vars, Contents, Slice, cqueue_datalen, Sub, Cell
  <2> QED BY <1>7, <2>1 DEF vars, Contents, Fifo!Next, Fifo!Idle, Fifo!vars
<1> QED
  BY <1>2, <1>3, <1>4, <1>5, <1>6, <1>7 DEF Next

(* For every width of the counters, every size and transfers of any length, *)
(* the circular queue is the bounded first-in first-out queue of module     *)
(* BoundedFifo: cqueue_put appends what fits, cqueue_get, cqueue_read and   *)
(* cqueue_discard deal with the front, across every wrap of the buffer and  *)
(* of the counters.                                                         *)
THEOREM QueueIsFifo == Spec => IsFifo
<1>1. Init => Fifo!Init
  <2> SUFFICES ASSUME Init PROVE Fifo!Init
    OBVIOUS
  <2>1. Sub(0, 0) = 0
    BY SubValue, WordAssumption
  <2>2. Contents = <<>>
    BY <2>1 DEF Init, Contents, Slice, cqueue_datalen
  <2> QED BY <2>2 DEF Init, Contents, Fifo!Init
<1>2. FifoInv /\ FifoInv' /\ [Next]_vars => [Fifo!Next]_(Fifo!vars)
  BY FifoSteps
<1> QED
  BY <1>1, <1>2, FifoAlways, PTL DEF Spec, IsFifo, Fifo!Spec

(* The counters of a queue are words, its size divides their range and it   *)
(* has one cell per index, whatever is called.                              *)
THEOREM QueueTypes == Spec => []TypeOK
<1>1. FifoInv => TypeOK
  BY PowerIs, WordAssumption DEF FifoInv, TypeOK, Positions
<1> QED
  BY <1>1, FifoAlways, PTL

-----------------------------------------------------------------------------
Holding(m) == m.write.s \in m.bits

Discipline ==
  /\ mgrinfo.bits \subseteq {mgrinfo.write.s}
  /\ mgrinfo.write.p > 0 => Holding(mgrinfo)
  /\ Holding(mgrinfo) =>
       /\ \A pos \in Position : pos.s = mgrinfo.write.s /\ pos.p > mgrinfo.write.p
                                  => packet[pos] = Blank
       /\ packet[mgrinfo.write].holds \subseteq {unfinished}
       /\ ~(mgrinfo.read.s = mgrinfo.write.s /\ mgrinfo.read.p > mgrinfo.write.p)

Genuine(k) == k.whole /\ \E r \in FlashReports : k.holds = {r}

Readable == \A pos \in Position : InWindow(pos) => Genuine(packet[pos])

FlashInv == FlashTypeOK /\ (~damaged => Readable /\ (flash_type = "nor" => Discipline))
-----------------------------------------------------------------------------
(* The walk around the ring.                                                *)
LEMMA NextIsPosition ==
  ASSUME NEW r \in Position
  PROVE  /\ hpm_flash_move_next_pos(r) \in Position
         /\ hpm_flash_move_next_sector(r) \in Position
         /\ hpm_flash_move_next_pos(r) # r
  BY FlashAssumption DEF hpm_flash_move_next_pos, hpm_flash_move_next_sector, Position, Sector

LEMMA WriterAdds ==
  ASSUME NEW r \in Position, NEW w \in Position, NEW pos \in Position,
         r # hpm_flash_move_next_pos(w), Within(r, hpm_flash_move_next_pos(w), pos)
  PROVE  Within(r, w, pos) \/ pos = w
  BY FlashAssumption DEF hpm_flash_move_next_pos, hpm_flash_move_next_sector, Position, Sector,
                         Within, Before

(* Whatever the writer meets the reader at, all but the new place of the    *)
(* writer was in the window or has just been written.                       *)
LEMMA WriterPushes ==
  ASSUME NEW w \in Position, NEW pos \in Position,
         LET n == hpm_flash_move_next_pos(w) IN Within(hpm_flash_move_next_pos(n), n, pos)
  PROVE  Within(hpm_flash_move_next_pos(w), w, pos) \/ pos = w
  BY FlashAssumption DEF hpm_flash_move_next_pos, hpm_flash_move_next_sector, Position, Sector,
                         Within, Before

LEMMA ReaderLeaves ==
  ASSUME NEW r \in Position, NEW w \in Position, NEW pos \in Position,
         r # w, Within(hpm_flash_move_next_pos(r), w, pos)
  PROVE  Within(r, w, pos)
  BY FlashAssumption DEF hpm_flash_move_next_pos, hpm_flash_move_next_sector, Position, Sector,
                         Within, Before

(* The reader that is in the sector to be erased goes to the next one.      *)
LEMMA ReaderYields ==
  ASSUME NEW r \in Position, NEW w \in Position, NEW pos \in Position,
         r.s = w.s, r.p > w.p, Within(hpm_flash_move_next_sector(r), w, pos)
  PROVE  Within(r, w, pos)
  BY FlashAssumption DEF hpm_flash_move_next_sector, Position, Sector, Within, Before

LEMMA WrittenBehind ==
  ASSUME NEW r \in Position, NEW w \in Position, NEW pos \in Position,
         ~(r.s = w.s /\ r.p > w.p), Within(r, w, pos), pos.s = w.s
  PROVE  pos.p < w.p
  BY DEF Position, Sector, Within, Before

LEMMA EmptyWindow ==
  ASSUME NEW r \in Position, NEW pos \in Position
  PROVE  ~Within(r, r, pos)
  BY DEF Position, Sector, Within, Before
-----------------------------------------------------------------------------
LEMMA MgrinfoIs ==
  ASSUME NEW m \in Mgrinfo
  PROVE  m.read \in Position /\ m.write \in Position /\ m.bits \subseteq Sector
  BY DEF Mgrinfo

LEMMA PositionIs ==
  ASSUME NEW pos \in Position
  PROVE  pos.s \in Sector /\ pos.p \in 0..(FlashPackets - 1) /\ pos = [s |-> pos.s, p |-> pos.p]
  BY DEF Position

LEMMA FlashInitHolds == FlashInit => FlashInv
<1> SUFFICES ASSUME FlashInit PROVE FlashInv
  OBVIOUS
<1>1. Start \in Position
  BY FlashAssumption DEF Start, Position, Sector
<1>2. mgrinfo \in Mgrinfo /\ mgrinfo.read = Start /\ mgrinfo.write = Start /\ mgrinfo.bits = {}
  BY <1>1 DEF FlashInit, hpm_flash_reset_mgrinfo, Mgrinfo
<1>3. Blank \in Packet
  BY DEF Blank, Packet
<1>4. FlashTypeOK
  <2>1. 0 \in 0..MaxFaults
    BY FlashAssumption
  <2>2. [pos \in Position |-> Blank] \in [Position -> Packet]
    BY <1>3
  <2> QED
    BY <1>2, <2>1, <2>2, Zenon DEF FlashInit, FlashTypeOK
<1>5. Readable
  BY <1>1, <1>2, EmptyWindow DEF Readable, InWindow
<1>6. Discipline
  BY <1>2 DEF Discipline, Holding, Start
<1> QED
  BY <1>4, <1>5, <1>6 DEF FlashInv

(* The types of what a write leaves, before and after it is programmed.     *)
LEMMA ErasedTyped ==
  ASSUME FlashTypeOK
  PROVE  /\ Erased \in Mgrinfo /\ Erased.write = mgrinfo.write
         /\ Erased.bits = IF MustErase THEN mgrinfo.bits \cup {mgrinfo.write.s} ELSE mgrinfo.bits
         /\ Erased.read = IF /\ MustErase
                             /\ mgrinfo.read.s = mgrinfo.write.s
                             /\ mgrinfo.read.p > mgrinfo.write.p
                          THEN hpm_flash_move_next_sector(mgrinfo.read) ELSE mgrinfo.read
         /\ ErasedPackets \in [Position -> Packet]
<1>1. mgrinfo \in Mgrinfo
  BY DEF FlashTypeOK
<1>2. /\ mgrinfo.read \in Position /\ mgrinfo.write \in Position
      /\ mgrinfo.bits \subseteq Sector /\ mgrinfo.write.s \in Sector
  BY <1>1, MgrinfoIs, PositionIs
<1>3. hpm_flash_move_next_sector(mgrinfo.read) \in Position
  BY <1>2, NextIsPosition
<1>4. Blank \in Packet
  BY DEF Blank, Packet
<1>5. packet \in [Position -> Packet]
  BY DEF FlashTypeOK
<1>6. ErasedPackets \in [Position -> Packet]
  BY <1>4, <1>5 DEF ErasedPackets
<1> QED
  BY <1>1, <1>2, <1>3, <1>6 DEF Erased, Mgrinfo

LEMMA ProgrammedTyped ==
  ASSUME NEW k \in Packet, NEW r \in FlashReports, NEW complete \in BOOLEAN
  PROVE  /\ Programmed(k, r, complete) \in Packet
         /\ Programmed(k, r, complete).holds \subseteq k.holds \cup {r}
         /\ r \in Programmed(k, r, complete).holds
         /\ complete => Programmed(k, r, complete).whole
         /\ flash_type = "sd" /\ complete => Programmed(k, r, complete).holds = {r}
  BY DEF Programmed, Packet

(* The reader of a sector that is erased leaves it: the window shrinks and  *)
(* has nothing from the writer on in the writer's sector.                   *)
LEMMA ErasedWindow ==
  ASSUME FlashTypeOK, NEW pos \in Position, Within(Erased.read, mgrinfo.write, pos)
  PROVE  Within(mgrinfo.read, mgrinfo.write, pos)
<1>1. mgrinfo.read \in Position /\ mgrinfo.write \in Position
  BY MgrinfoIs DEF FlashTypeOK
<1> QED
  BY <1>1, ErasedTyped, ReaderYields

(* In a NOR flash, the writer's sector is erased when a write begins.       *)
LEMMA ErasedDiscipline ==
  ASSUME FlashTypeOK, Discipline, flash_type = "nor"
  PROVE  /\ Erased.bits = {mgrinfo.write.s}
         /\ ~(Erased.read.s = mgrinfo.write.s /\ Erased.read.p > mgrinfo.write.p)
         /\ \A pos \in Position : pos.s = mgrinfo.write.s /\ pos.p > mgrinfo.write.p
                                    => ErasedPackets[pos] = Blank
         /\ ErasedPackets[mgrinfo.write].holds \subseteq {unfinished}
         /\ MustErase => ErasedPackets[mgrinfo.write] = Blank
<1>1. /\ mgrinfo.read \in Position /\ mgrinfo.write \in Position
      /\ packet \in [Position -> Packet]
  BY MgrinfoIs DEF FlashTypeOK
<1>2. mgrinfo.write.p \in Nat /\ mgrinfo.write.s \in Nat /\ mgrinfo.read.s \in Nat
      /\ mgrinfo.read.p \in Nat
  BY <1>1 DEF Position, Sector
<1>3. CASE MustErase
  <2>1. mgrinfo.bits = {} /\ mgrinfo.write.p = 0
    BY <1>3 DEF MustErase, Discipline
  <2>2. ~(Erased.read.s = mgrinfo.write.s /\ Erased.read.p > mgrinfo.write.p)
    <3>1. CASE mgrinfo.read.s = mgrinfo.write.s /\ mgrinfo.read.p > mgrinfo.write.p
      <4>1. Erased.read.p = 0
        BY <1>3, <3>1, ErasedTyped DEF hpm_flash_move_next_sector
      <4> QED
        BY <4>1, <1>2
    <3>2. CASE ~(mgrinfo.read.s = mgrinfo.write.s /\ mgrinfo.read.p > mgrinfo.write.p)
      BY <1>3, <3>2, ErasedTyped
    <3> QED
      BY <3>1, <3>2
  <2>3. \A pos \in Position : pos.s = mgrinfo.write.s => ErasedPackets[pos] = Blank
    BY <1>3 DEF ErasedPackets
  <2>4. ErasedPackets[mgrinfo.write] = Blank /\ Blank.holds = {}
    BY <1>1, <2>3 DEF Blank
  <2> QED
    BY <1>3, <2>1, <2>2, <2>3, <2>4, ErasedTyped
<1>4. CASE ~MustErase
  <2>1. Holding(mgrinfo)
    BY <1>2, <1>4 DEF MustErase, Discipline, Holding
  <2>2. mgrinfo.bits = {mgrinfo.write.s}
    BY <2>1 DEF Discipline, Holding
  <2> QED
    BY <1>4, <2>1, <2>2, ErasedTyped DEF Discipline, ErasedPackets
<1> QED
  BY <1>3, <1>4

(* What was in the window is not touched by an erase.                       *)
LEMMA ErasedReadable ==
  ASSUME FlashTypeOK, flash_type = "nor" => Discipline,
         NEW pos \in Position, Within(Erased.read, mgrinfo.write, pos)
  PROVE  /\ ErasedPackets[pos] = packet[pos]
         /\ flash_type = "nor" => pos # mgrinfo.write
<1>1. /\ mgrinfo.read \in Position /\ mgrinfo.write \in Position /\ Erased.read \in Position
  BY MgrinfoIs, ErasedTyped DEF FlashTypeOK
<1>2. CASE flash_type = "nor"
  <2>1. ~(Erased.read.s = mgrinfo.write.s /\ Erased.read.p > mgrinfo.write.p)
    BY <1>2, ErasedDiscipline
  <2>2. pos.s = mgrinfo.write.s => pos.p < mgrinfo.write.p
    BY <1>1, <2>1, WrittenBehind
  <2>3. pos.p \in Nat /\ mgrinfo.write.p \in Nat
    BY <1>1 DEF Position
  <2>4. MustErase => mgrinfo.write.p = 0
    BY DEF MustErase
  <2> QED
    BY <2>2, <2>3, <2>4 DEF ErasedPackets
<1>3. CASE flash_type # "nor"
  BY <1>3 DEF ErasedPackets
<1> QED
  BY <1>2, <1>3
-----------------------------------------------------------------------------
(* The positions and bits after a packet is complete.                       *)
LEMMA AdvancedTyped ==
  ASSUME NEW m \in Mgrinfo
  PROVE  LET n == hpm_flash_move_next_pos(m.write)
         IN  /\ Advanced(m) \in Mgrinfo /\ Advanced(m).write = n
             /\ Advanced(m).bits = IF m.write.p = FlashPackets - 1
                                   THEN m.bits \ {m.write.s} ELSE m.bits
             /\ Advanced(m).read = IF m.read = n THEN hpm_flash_move_next_pos(n) ELSE m.read
<1>1. m.read \in Position /\ m.write \in Position /\ m.bits \subseteq Sector
  BY MgrinfoIs
<1>2. /\ hpm_flash_move_next_pos(m.write) \in Position
      /\ hpm_flash_move_next_pos(m.read) \in Position
  BY <1>1, NextIsPosition
<1> QED
  BY <1>1, <1>2 DEF Advanced, Mgrinfo

(* The packet that is saved holds the report alone.                         *)
LEMMA SavedAlone ==
  ASSUME FlashInv, NEW r \in FlashReports, hpm_flash_save_pack(r), ~damaged'
  PROVE  Programmed(ErasedPackets[mgrinfo.write], r, TRUE).holds = {r}
<1> DEFINE w == mgrinfo.write
           k == Programmed(ErasedPackets[w], r, TRUE)
<1>1. FlashTypeOK /\ ~Misused(r) /\ (flash_type = "nor" => Discipline)
  BY DEF FlashInv, hpm_flash_save_pack
<1>2. w \in Position /\ ErasedPackets \in [Position -> Packet]
  BY <1>1, ErasedTyped, MgrinfoIs DEF FlashTypeOK
<1>3. /\ k.holds \subseteq ErasedPackets[w].holds \cup {r}
      /\ r \in k.holds /\ (flash_type = "sd" => k.holds = {r})
  <2>1. ErasedPackets[w] \in Packet
    BY <1>2
  <2> QED
    BY <2>1, ProgrammedTyped, Zenon
<1>4. CASE flash_type = "nor"
  <2>1. ErasedPackets[w].holds \subseteq {unfinished}
    BY <1>1, <1>4, ErasedDiscipline
  <2>2. unfinished \in {BadReport, r}
    BY <1>1, <1>4 DEF Misused
  <2>3. ErasedPackets[w].holds \subseteq FlashReports
    BY <1>2 DEF Packet
  <2> QED
    BY <2>1, <2>2, <2>3, <1>3, FlashAssumption
<1> QED
  BY <1>1, <1>3, <1>4 DEF FlashTypeOK

(* A report saved: it joins the window, and nothing else does.              *)
LEMMA SaveHolds ==
  ASSUME FlashInv, NEW r \in FlashReports, hpm_flash_save_pack(r)
  PROVE  FlashInv'
<1> DEFINE w == mgrinfo.write
           n == hpm_flash_move_next_pos(w)
           k == Programmed(ErasedPackets[w], r, TRUE)
<1>1. FlashTypeOK /\ (~damaged => Readable /\ (flash_type = "nor" => Discipline))
  BY DEF FlashInv
<1>2. /\ mgrinfo.read \in Position /\ w \in Position /\ n \in Position
      /\ Erased \in Mgrinfo /\ Erased.write = w /\ Erased.read \in Position
      /\ ErasedPackets \in [Position -> Packet]
  BY <1>1, ErasedTyped, MgrinfoIs, NextIsPosition DEF FlashTypeOK
<1>3. /\ k \in Packet /\ k.holds \subseteq ErasedPackets[w].holds \cup {r}
      /\ r \in k.holds /\ k.whole /\ (flash_type = "sd" => k.holds = {r})
  <2>1. ErasedPackets[w] \in Packet
    BY <1>2
  <2> QED
    BY <2>1, ProgrammedTyped, Zenon
<1>4. /\ mgrinfo' = Advanced(Erased)
      /\ packet' = [ErasedPackets EXCEPT ![w] = k]
      /\ flash_type' = flash_type /\ unfinished' = BadReport
      /\ damaged' = (damaged \/ Misused(r))
  BY DEF hpm_flash_save_pack
<1>5. FlashTypeOK'
  <2>1. mgrinfo' \in Mgrinfo /\ packet' \in [Position -> Packet]
    BY <1>2, <1>3, <1>4, AdvancedTyped
  <2> QED
    BY <1>1, <2>1, Zenon DEF FlashTypeOK, hpm_flash_save_pack
<1>6. /\ mgrinfo'.write = n
      /\ mgrinfo'.bits = IF w.p = FlashPackets - 1 THEN Erased.bits \ {w.s} ELSE Erased.bits
      /\ mgrinfo'.read = IF Erased.read = n THEN hpm_flash_move_next_pos(n) ELSE Erased.read
  BY <1>2, <1>4, AdvancedTyped
<1>7. SUFFICES ASSUME ~damaged'
               PROVE  Readable' /\ (flash_type = "nor" => Discipline')
  BY <1>4, <1>5 DEF FlashInv
<1>8. ~damaged /\ ~Misused(r) /\ Readable /\ (flash_type = "nor" => Discipline)
  BY <1>1, <1>4, <1>7
<1>9. Readable'
  <2>1. SUFFICES ASSUME NEW pos \in Position, Within(mgrinfo'.read, n, pos)
                 PROVE  Genuine(packet'[pos])
    BY <1>6 DEF Readable, InWindow, Genuine
  <2>2. pos # w => Within(Erased.read, w, pos)
    <3>1. CASE Erased.read = n
      BY <3>1, <1>2, <1>6, <2>1, WriterPushes
    <3>2. CASE Erased.read # n
      BY <3>2, <1>2, <1>6, <2>1, WriterAdds
    <3> QED
      BY <3>1, <3>2
  <2>3. CASE pos = w
    <3>1. packet'[pos] = k
      BY <1>2, <1>4, <2>3
    <3>2. k.holds = {r}
      BY <1>7, SavedAlone
    <3> QED
      BY <1>3, <3>1, <3>2 DEF Genuine
  <2>4. CASE pos # w
    <3>1. ErasedPackets[pos] = packet[pos] /\ Within(mgrinfo.read, w, pos)
      BY <1>1, <1>8, <2>2, <2>4, ErasedReadable, ErasedWindow
    <3>2. packet'[pos] = packet[pos]
      BY <1>2, <1>4, <2>4, <3>1
    <3> QED
      BY <1>8, <3>1, <3>2 DEF Readable, InWindow
  <2> QED
    BY <2>3, <2>4
<1>10. ASSUME flash_type = "nor" PROVE Discipline'
  <2>1. /\ Erased.bits = {w.s}
        /\ ~(Erased.read.s = w.s /\ Erased.read.p > w.p)
        /\ \A pos \in Position : pos.s = w.s /\ pos.p > w.p => ErasedPackets[pos] = Blank
    BY <1>1, <1>8, <1>10, ErasedDiscipline
  <2>2. w.s \in Sector /\ w.p \in 0..(FlashPackets - 1)
    BY <1>2, PositionIs
  <2>3. CASE w.p = FlashPackets - 1
    <3>1. mgrinfo'.bits = {} /\ n.p = 0
      BY <1>6, <2>1, <2>2, <2>3, FlashAssumption
         DEF hpm_flash_move_next_pos, hpm_flash_move_next_sector
    <3> QED
      BY <1>6, <3>1 DEF Discipline, Holding
  <2>4. CASE w.p # FlashPackets - 1
    <3>1. n.s = w.s /\ n.p = w.p + 1
      BY <1>2, <2>2, <2>4, FlashAssumption DEF hpm_flash_move_next_pos, Position
    <3>2. mgrinfo'.bits = {w.s} /\ mgrinfo'.read = Erased.read
      BY <1>6, <2>1, <2>2, <2>4, <3>1
    <3>3. \A pos \in Position : pos.s = n.s /\ pos.p > w.p => packet'[pos] = Blank
      <4>1. SUFFICES ASSUME NEW pos \in Position, pos.s = w.s, pos.p > w.p
                     PROVE  packet'[pos] = Blank
        BY <3>1
      <4>2. pos # w
        BY <2>2, <4>1
      <4> QED
        BY <1>2, <1>4, <2>1, <4>1, <4>2
    <3>4. packet'[n] = Blank /\ Blank.holds = {}
      BY <1>2, <2>2, <3>1, <3>3 DEF Blank
    <3>5. \A pos \in Position : pos.s = n.s /\ pos.p > n.p => packet'[pos] = Blank
      BY <2>2, <3>1, <3>3 DEF Position
    <3>6. ~(Erased.read.s = n.s /\ Erased.read.p > n.p)
      BY <1>2, <2>1, <2>2, <3>1 DEF Position
    <3> QED
      BY <1>6, <3>1, <3>2, <3>4, <3>5, <3>6 DEF Discipline, Holding
  <2> QED
    BY <2>3, <2>4
<1> QED
  BY <1>9, <1>10

(* A write that fails: the window keeps what it has, and the packet at the  *)
(* writer is blank or holds the report.                                     *)
LEMMA WriteFailsHolds ==
  ASSUME FlashInv, NEW r \in FlashReports, hpm_flash_save_pack_write_fails(r)
  PROVE  FlashInv'
<1> DEFINE w == mgrinfo.write
<1>1. FlashTypeOK /\ (~damaged => Readable /\ (flash_type = "nor" => Discipline))
  BY DEF FlashInv
<1>2. /\ mgrinfo.read \in Position /\ w \in Position
      /\ Erased \in Mgrinfo /\ Erased.write = w /\ Erased.read \in Position
      /\ ErasedPackets \in [Position -> Packet]
  BY <1>1, ErasedTyped, MgrinfoIs DEF FlashTypeOK
<1>3. /\ mgrinfo' = Erased /\ flash_type' = flash_type /\ unfinished' = r
      /\ damaged' = (damaged \/ Misused(r)) /\ faults' \in 0..MaxFaults
  BY <1>1, FlashAssumption DEF hpm_flash_save_pack_write_fails, Fault, FlashTypeOK
<1>4. /\ packet' \in [Position -> Packet]
      /\ \A pos \in Position : pos # w => packet'[pos] = ErasedPackets[pos]
      /\ packet'[w].holds \subseteq ErasedPackets[w].holds \cup {r}
  <2>1. CASE packet' = ErasedPackets
    BY <1>2, <2>1
  <2>2. ASSUME NEW complete \in BOOLEAN,
               packet' = [ErasedPackets EXCEPT ![w] = Programmed(@, r, complete)]
        PROVE  /\ packet' \in [Position -> Packet]
               /\ \A pos \in Position : pos # w => packet'[pos] = ErasedPackets[pos]
               /\ packet'[w].holds \subseteq ErasedPackets[w].holds \cup {r}
    <3>1. ErasedPackets[w] \in Packet
      BY <1>2
    <3>2. /\ Programmed(ErasedPackets[w], r, complete) \in Packet
          /\ Programmed(ErasedPackets[w], r, complete).holds \subseteq ErasedPackets[w].holds \cup {r}
      BY <3>1, ProgrammedTyped
    <3> QED
      BY <1>2, <2>2, <3>2
  <2> QED
    BY <2>1, <2>2 DEF hpm_flash_save_pack_write_fails
<1>5. FlashTypeOK'
  BY <1>1, <1>2, <1>3, <1>4, Zenon DEF FlashTypeOK, hpm_flash_save_pack_write_fails
<1>6. SUFFICES ASSUME ~damaged'
               PROVE  Readable' /\ (flash_type = "nor" => Discipline')
  BY <1>3, <1>5 DEF FlashInv
<1>7. ~damaged /\ ~Misused(r) /\ Readable /\ (flash_type = "nor" => Discipline)
  BY <1>1, <1>3, <1>6
<1>8. Readable'
  <2>1. SUFFICES ASSUME NEW pos \in Position, Within(Erased.read, w, pos)
                 PROVE  Genuine(packet'[pos])
    BY <1>2, <1>3 DEF Readable, InWindow, Genuine
  <2>2. Within(mgrinfo.read, w, pos) /\ ErasedPackets[pos] = packet[pos]
    BY <1>1, <1>7, <2>1, ErasedWindow, ErasedReadable
  <2>3. pos # w
    <3>1. ~Within(Erased.read, w, w)
      BY <1>2 DEF Within, Before, Position, Sector
    <3> QED
      BY <2>1, <3>1
  <2> QED
    BY <1>4, <1>7, <2>2, <2>3 DEF Readable, InWindow
<1>9. ASSUME flash_type = "nor" PROVE Discipline'
  <2>1. /\ Erased.bits = {w.s}
        /\ ~(Erased.read.s = w.s /\ Erased.read.p > w.p)
        /\ \A pos \in Position : pos.s = w.s /\ pos.p > w.p => ErasedPackets[pos] = Blank
        /\ ErasedPackets[w].holds \subseteq {unfinished}
    BY <1>1, <1>7, <1>9, ErasedDiscipline
  <2>2. w.p \in Nat
    BY <1>2 DEF Position
  <2>3. ErasedPackets[w].holds \subseteq FlashReports /\ unfinished \in {BadReport, r}
    BY <1>2, <1>7, <1>9 DEF Packet, Misused
  <2>4. packet'[w].holds \subseteq {r}
    BY <1>4, <2>1, <2>3, FlashAssumption
  <2>5. \A pos \in Position : pos.s = w.s /\ pos.p > w.p => packet'[pos] = Blank
    BY <1>4, <2>1, <2>2
  <2> QED
    BY <1>2, <1>3, <2>1, <2>4, <2>5 DEF Discipline, Holding
<1> QED
  BY <1>8, <1>9

(* The reader moves on.                                                     *)
LEMMA LoadHolds ==
  ASSUME FlashInv, hpm_flash_load_pack
  PROVE  FlashInv'
<1> DEFINE r == mgrinfo.read
           w == mgrinfo.write
           n == hpm_flash_move_next_pos(r)
<1>1. FlashTypeOK /\ (~damaged => Readable /\ (flash_type = "nor" => Discipline))
  BY DEF FlashInv
<1>2. mgrinfo \in Mgrinfo /\ r \in Position /\ w \in Position /\ n \in Position /\ r # w
  BY <1>1, MgrinfoIs, NextIsPosition DEF FlashTypeOK, hpm_flash_load_pack
<1>3. /\ mgrinfo' \in Mgrinfo /\ mgrinfo'.read = n /\ mgrinfo'.write = w
      /\ mgrinfo'.bits = mgrinfo.bits
      /\ UNCHANGED <<packet, flash_type, unfinished, damaged>>
  BY <1>2 DEF hpm_flash_load_pack, Mgrinfo
<1>4. Yield(packet[r]) \in FlashReports \cup {BadReport}
  BY DEF Yield
<1>5. FlashTypeOK'
  BY <1>1, <1>3, <1>4, Zenon DEF FlashTypeOK, hpm_flash_load_pack
<1>6. Readable => Readable'
  BY <1>2, <1>3, ReaderLeaves DEF Readable, InWindow, Genuine
<1>7. ~(r.s = w.s /\ r.p > w.p) => ~(n.s = w.s /\ n.p > w.p)
  BY <1>2, FlashAssumption DEF hpm_flash_move_next_pos, hpm_flash_move_next_sector,
                               Position, Sector
<1>8. Discipline => Discipline'
  BY <1>3, <1>7 DEF Discipline, Holding
<1> QED
  BY <1>1, <1>3, <1>5, <1>6, <1>8 DEF FlashInv

(* After a loss of power the record is what there was, or the store is      *)
(* empty, or it is damaged.                                                 *)
LEMMA InitAgainHolds ==
  ASSUME FlashInv, hpm_flash_init
  PROVE  FlashInv'
<1>1. FlashTypeOK /\ faults' \in 0..MaxFaults /\ flash_type' = flash_type /\ packet' = packet
  BY FlashAssumption DEF FlashInv, hpm_flash_init, Fault, FlashTypeOK
<1>2. CASE record # NoRecord /\ mgrinfo' = record /\ flash_write_flag' = FALSE
           /\ loaded' = BadReport /\ damaged' = (damaged \/ record # mgrinfo)
           /\ UNCHANGED unfinished
  <2>1. FlashTypeOK'
    <3>1. record' = record
      BY DEF hpm_flash_init
    <3> QED
      BY <1>1, <1>2, <3>1, Zenon DEF FlashTypeOK
  <2>2. ASSUME ~damaged' PROVE ~damaged /\ mgrinfo' = mgrinfo /\ unfinished' = unfinished
    BY <1>2, <2>2
  <2>3. ~damaged' => Readable' /\ (flash_type' = "nor" => Discipline')
    BY <1>1, <2>2 DEF FlashInv, Readable, InWindow, Discipline, Holding
  <2> QED
    BY <2>1, <2>3 DEF FlashInv
<1>3. CASE mgrinfo' = hpm_flash_reset_mgrinfo /\ flash_write_flag' = TRUE
           /\ loaded' \in {UnreadRecord} \cup {BadReport : x \in {NoRecord} \cap {record}}
           /\ damaged' = FALSE /\ unfinished' = BadReport
  <2>1. Start \in Position
    BY FlashAssumption DEF Start, Position, Sector
  <2>2. mgrinfo' \in Mgrinfo /\ mgrinfo'.read = Start /\ mgrinfo'.write = Start
        /\ mgrinfo'.bits = {}
    BY <1>3, <2>1 DEF hpm_flash_reset_mgrinfo, Mgrinfo
  <2>3. loaded' \in {UnreadRecord, BadReport} /\ record' = record
    BY <1>3 DEF hpm_flash_init
  <2>4. FlashTypeOK'
    BY <1>1, <1>3, <2>2, <2>3, Zenon DEF FlashTypeOK
  <2>5. Readable'
    BY <2>1, <2>2, EmptyWindow DEF Readable, InWindow
  <2>6. Discipline'
    BY <2>2 DEF Discipline, Holding, Start
  <2> QED
    BY <2>4, <2>5, <2>6 DEF FlashInv
<1> QED
  BY <1>2, <1>3 DEF hpm_flash_init

LEMMA ClearHolds ==
  ASSUME FlashInv, hpm_flash_clear_info
  PROVE  FlashInv'
<1>1. FlashTypeOK /\ faults' \in 0..MaxFaults /\ mgrinfo \in Mgrinfo
  BY FlashAssumption DEF FlashInv, hpm_flash_clear_info, Fault, FlashTypeOK
<1>2. Start \in Position
  BY FlashAssumption DEF Start, Position, Sector
<1>3. mgrinfo' \in Mgrinfo /\ mgrinfo'.read = Start /\ mgrinfo'.write = Start
      /\ mgrinfo'.bits = mgrinfo.bits
  BY <1>1, <1>2 DEF hpm_flash_clear_info, Mgrinfo
<1>4. FlashTypeOK'
  BY <1>1, <1>3, Zenon DEF FlashTypeOK, hpm_flash_clear_info
<1>5. Readable'
  BY <1>2, <1>3, EmptyWindow DEF Readable, InWindow
<1>6. ~damaged' /\ flash_type' = "nor" => mgrinfo.bits = {}
  BY DEF hpm_flash_clear_info
<1>7. mgrinfo.bits = {} => Discipline'
  BY <1>3 DEF Discipline, Holding, Start
<1> QED
  BY <1>4, <1>5, <1>6, <1>7 DEF FlashInv

(* What only concerns the record or fails before it changes anything.       *)
LEMMA RecordHolds ==
  ASSUME FlashInv,
         \/ hpm_flash_save_pack_erase_fails \/ hpm_flash_load_pack_read_fails
         \/ hpm_flash_sleep \/ hpm_flash_period \/ hpm_flash_save_mgrinfo_fails
         \/ UNCHANGED flashVars
  PROVE  FlashInv'
<1>1. UNCHANGED <<flash_type, mgrinfo, packet, unfinished, damaged>>
  BY DEF hpm_flash_save_pack_erase_fails, hpm_flash_load_pack_read_fails, hpm_flash_sleep,
         hpm_flash_period, hpm_flash_save_mgrinfo_fails, flashVars
<1>2. FlashTypeOK /\ mgrinfo \in Mgrinfo /\ record \in Mgrinfo \cup {NoRecord}
  BY DEF FlashInv, FlashTypeOK
<1>3. [mgrinfo EXCEPT !.bits = Sector] \in Mgrinfo
  BY <1>2 DEF Mgrinfo
<1>4. record' \in Mgrinfo \cup {NoRecord}
  BY <1>2, <1>3 DEF hpm_flash_save_pack_erase_fails, hpm_flash_load_pack_read_fails,
         hpm_flash_sleep, hpm_flash_period, hpm_flash_save_mgrinfo_fails, flashVars
<1>5. faults' \in 0..MaxFaults
  BY <1>2, FlashAssumption DEF Fault, FlashTypeOK, hpm_flash_save_pack_erase_fails,
         hpm_flash_load_pack_read_fails, hpm_flash_sleep, hpm_flash_period,
         hpm_flash_save_mgrinfo_fails, flashVars
<1>6. loaded' \in FlashReports \cup {BadReport, UnreadRecord, ClearedStore}
      /\ flash_write_flag' \in BOOLEAN
  BY <1>2, Zenon DEF FlashTypeOK, hpm_flash_save_pack_erase_fails,
         hpm_flash_load_pack_read_fails, hpm_flash_sleep, hpm_flash_period,
         hpm_flash_save_mgrinfo_fails, flashVars
<1>7. FlashTypeOK'
  BY <1>1, <1>2, <1>4, <1>5, <1>6, Zenon DEF FlashTypeOK
<1> QED
  BY <1>1, <1>7 DEF FlashInv, Readable, InWindow, Discipline, Holding

LEMMA FlashStepHolds == FlashInv /\ [FlashNext]_flashVars => FlashInv'
  BY SaveHolds, WriteFailsHolds, LoadHolds, InitAgainHolds, ClearHolds, RecordHolds
     DEF FlashNext

LEMMA FlashAlways == FlashSpec => []FlashInv
  BY FlashInitHolds, FlashStepHolds, PTL DEF FlashSpec

(* The positions of the report store stay within the ring, whatever fails.  *)
THEOREM FlashTypes == FlashSpec => []FlashTypeOK
<1>1. FlashInv => FlashTypeOK
  BY DEF FlashInv
<1> QED
  BY <1>1, FlashAlways, PTL

(* For every ring, every packet hpm_flash_load_pack will reach holds one    *)
(* whole report, whatever write, erase, record or power failed before,      *)
(* unless the record was older than the packets or the sector bits stale.   *)
THEOREM StoreNotGarbled == FlashSpec => []NothingGarbled
<1>1. ASSUME FlashInv PROVE NothingGarbled
  <2>1. SUFFICES ASSUME ~damaged, NEW pos \in Position, InWindow(pos)
                 PROVE  Yield(packet[pos]) # BadReport
    BY DEF NothingGarbled
  <2>2. Genuine(packet[pos])
    BY <1>1, <2>1 DEF FlashInv, Readable
  <2>3. (CHOOSE r \in FlashReports : packet[pos].holds = {r}) \in FlashReports
    BY <2>2 DEF Genuine
  <2> QED
    BY <2>2, <2>3, FlashAssumption DEF Genuine, Yield
<1> QED
  BY <1>1, FlashAlways, PTL
-----------------------------------------------------------------------------
(* The store as a queue.  A position has an index in the ring; what waits   *)
(* are the packets at the Dist indices from the reader on, and every action *)
(* moves reader and writer by a number of them that can be told.            *)
Ring == FlashSectors * FlashPackets

LEMMA RingIs == /\ FlashPackets \in Nat /\ FlashPackets >= 2 /\ FlashSectors \in Nat /\ FlashSectors >= 2
                /\ Ring \in Nat /\ Ring >= 2 * FlashPackets
<1>1. /\ FlashPackets \in Nat /\ FlashPackets >= 2 /\ FlashSectors \in Nat /\ FlashSectors >= 2
  BY FlashAssumption
<1>2. 2 * FlashPackets <= FlashSectors * FlashPackets
  BY <1>1, TimesMono
<1>3. Ring \in Nat
  BY <1>1 DEF Ring
<1>4. QED BY <1>1, <1>2, <1>3 DEF Ring

LEMMA IndexIs ==
  ASSUME NEW pos \in Position
  PROVE  /\ Index(pos) \in 0..(Ring - 1)
         /\ Index(pos) - pos.p \in Nat /\ Index(pos) - pos.p + FlashPackets <= Ring
         /\ pos.p \in 0..(FlashPackets - 1)
         /\ pos.s + 1 = FlashSectors <=> Index(pos) - pos.p + FlashPackets = Ring
         /\ At(Index(pos)) = pos
         /\ At(Index(pos) + Ring) = pos
<1>1. pos.s \in Nat /\ pos.s + 1 <= FlashSectors /\ pos.p \in 0..(FlashPackets - 1)
      /\ pos = [s |-> pos.s, p |-> pos.p]
  BY RingIs DEF Position, Sector
<1>2. (pos.s + 1) * FlashPackets <= Ring /\ (pos.s + 1) * FlashPackets = pos.s * FlashPackets + FlashPackets
  BY <1>1, RingIs, TimesMono DEF Ring
<1>3. pos.s * FlashPackets \in Nat
  BY <1>1, RingIs
<1>4. pos.s + 1 = FlashSectors <=> (pos.s + 1) * FlashPackets = Ring
  <2>1. ASSUME (pos.s + 1) * FlashPackets = Ring PROVE pos.s + 1 = FlashSectors
    <3>1. (pos.s + 1) * FlashPackets + 0 = FlashSectors * FlashPackets + 0
      BY <2>1, RingIs DEF Ring
    <3> QED BY <1>1, <3>1, RingIs, Splits
  <2> QED BY <2>1 DEF Ring
<1>5. /\ Index(pos) \in 0..(Ring - 1)
      /\ Index(pos) - pos.p \in Nat /\ Index(pos) - pos.p + FlashPackets <= Ring
      /\ pos.s + 1 = FlashSectors <=> Index(pos) - pos.p + FlashPackets = Ring
  BY <1>1, <1>2, <1>3, <1>4, RingIs DEF Index
<1>6. At(Index(pos)) = pos
  <2>1. Index(pos) \div FlashPackets = pos.s /\ Index(pos) % FlashPackets = pos.p
    BY <1>1, RingIs, DivMod DEF Index
  <2>2. pos.s % FlashSectors = pos.s
    BY <1>1, RingIs
  <2> QED BY <1>1, <2>1, <2>2 DEF At
<1>7. At(Index(pos) + Ring) = pos
  <2>1. Index(pos) + Ring = (pos.s + FlashSectors) * FlashPackets + pos.p
    BY <1>1, RingIs DEF Index, Ring
  <2>2. pos.s + FlashSectors \in Nat
    BY <1>1, RingIs
  <2>3. (Index(pos) + Ring) \div FlashPackets = pos.s + FlashSectors /\ (Index(pos) + Ring) % FlashPackets = pos.p
    BY <1>1, <2>1, <2>2, RingIs, DivMod
  <2>4. (pos.s + FlashSectors) % FlashSectors = pos.s
    BY <1>1, RingIs
  <2> QED BY <1>1, <2>3, <2>4 DEF At
<1>8. QED BY <1>1, <1>5, <1>6, <1>7

(* Every index is that of a position. *)
LEMMA AtIs ==
  ASSUME NEW n \in 0..(2 * Ring - 1)
  PROVE  At(n) \in Position /\ Index(At(n)) = IF n < Ring THEN n ELSE n - Ring
<1>1. ASSUME NEW m \in 0..(Ring - 1)
      PROVE  At(m) \in Position /\ Index(At(m)) = m
  <2> DEFINE a == m \div FlashPackets
             x == m % FlashPackets
  <2>1. a \in Nat /\ x \in 0..(FlashPackets - 1) /\ m = a * FlashPackets + x
    BY RingIs
  <2>2. a < FlashSectors
    <3> SUFFICES ASSUME FlashSectors <= a PROVE FALSE
      BY <2>1, RingIs
    <3>1. Ring <= a * FlashPackets /\ a * FlashPackets \in Nat
      BY <2>1, RingIs, TimesMono DEF Ring
    <3> QED BY <2>1, <3>1, RingIs
  <2>3. a % FlashSectors = a
    BY <2>1, <2>2, RingIs
  <2>4. At(m) = [s |-> a, p |-> x]
    BY <2>3 DEF At
  <2> HIDE DEF a, x
  <2> QED BY <2>1, <2>2, <2>4, RingIs DEF Position, Sector, Index
<1>2. CASE n < Ring
  BY <1>1, <1>2, RingIs
<1>3. CASE n >= Ring
  <2>1. n - Ring \in 0..(Ring - 1)
    BY <1>3, RingIs
  <2>2. At(n - Ring) \in Position /\ Index(At(n - Ring)) = n - Ring
    BY <1>1, <2>1
  <2>3. At(Index(At(n - Ring)) + Ring) = At(n - Ring)
    BY <2>2, IndexIs
  <2>4. Index(At(n - Ring)) + Ring = n
    BY <2>2, RingIs
  <2> QED BY <1>3, <2>2, <2>3, <2>4, RingIs
<1>4. QED BY <1>2, <1>3, RingIs

LEMMA NextIndex ==
  ASSUME NEW pos \in Position
  PROVE  /\ Index(hpm_flash_move_next_pos(pos)) = IF Index(pos) + 1 = Ring THEN 0 ELSE Index(pos) + 1
         /\ Index(hpm_flash_move_next_sector(pos)) =
              IF Index(pos) - pos.p + FlashPackets = Ring THEN 0 ELSE Index(pos) - pos.p + FlashPackets
<1>1. /\ pos.s \in Nat /\ pos.s + 1 <= FlashSectors /\ pos.p \in 0..(FlashPackets - 1)
      /\ pos = [s |-> pos.s, p |-> pos.p]
  BY RingIs DEF Position, Sector
<1>2. (pos.s + 1) * FlashPackets = pos.s * FlashPackets + FlashPackets /\ pos.s * FlashPackets \in Nat
      /\ 0 * FlashPackets = 0
  BY <1>1, RingIs, TimesMono
<1>3. Index(hpm_flash_move_next_sector(pos)) =
        IF Index(pos) - pos.p + FlashPackets = Ring THEN 0 ELSE Index(pos) - pos.p + FlashPackets
  <2>1. CASE pos.s + 1 = FlashSectors
    <3>1. hpm_flash_move_next_sector(pos) = [s |-> 0, p |-> 0]
      BY <2>1, RingIs DEF hpm_flash_move_next_sector
    <3> QED BY <1>2, <2>1, <3>1, IndexIs DEF Index
  <2>2. CASE pos.s + 1 # FlashSectors
    <3>1. hpm_flash_move_next_sector(pos) = [s |-> pos.s + 1, p |-> 0]
      BY <1>1, <2>2, RingIs DEF hpm_flash_move_next_sector
    <3>2. Index(pos) - pos.p + FlashPackets # Ring
      BY <2>2, IndexIs
    <3>3. Index(hpm_flash_move_next_sector(pos)) = (pos.s + 1) * FlashPackets
      BY <1>1, <1>2, <3>1, RingIs DEF Index
    <3> QED BY <1>1, <1>2, <3>2, <3>3, RingIs DEF Index
  <2> QED BY <2>1, <2>2
<1>4. CASE pos.p + 1 = FlashPackets
  BY <1>1, <1>3, <1>4, IndexIs, RingIs DEF hpm_flash_move_next_pos
<1>5. CASE pos.p + 1 # FlashPackets
  <2>1. hpm_flash_move_next_pos(pos) = [s |-> pos.s, p |-> pos.p + 1]
    BY <1>1, <1>5, RingIs DEF hpm_flash_move_next_pos
  <2>2. Index(hpm_flash_move_next_pos(pos)) = Index(pos) + 1
    BY <1>1, <1>2, <2>1 DEF Index
  <2>3. Index(pos) + 1 # Ring
    BY <1>1, <1>5, IndexIs, RingIs
  <2> QED BY <1>3, <2>2, <2>3
<1>6. QED BY <1>3, <1>4, <1>5

Dist(r, w) == IF Index(w) >= Index(r) THEN Index(w) - Index(r) ELSE Index(w) - Index(r) + Ring

Entry == FlashReports \cup {BadReport}

(* What waits, counted from the reader. *)
WaitingFine ==
  /\ Waiting \in Seq(Entry)
  /\ Len(Waiting) = Dist(mgrinfo.read, mgrinfo.write)
  /\ \A i \in 1..Len(Waiting) : Waiting[i] = Yield(packet[At(Index(mgrinfo.read) + i - 1)])

LEMMA YieldIs ==
  ASSUME NEW k PROVE Yield(k) \in Entry
BY DEF Yield, Entry

LEMMA WaitingIs == FlashTypeOK => WaitingFine
<1> SUFFICES ASSUME FlashTypeOK PROVE WaitingFine
  OBVIOUS
<1> DEFINE ir == Index(mgrinfo.read)
           iw == Index(mgrinfo.write)
           d == Dist(mgrinfo.read, mgrinfo.write)
           f == [i \in 1..d |-> Yield(packet[At(ir + i - 1)])]
<1>1. ir \in 0..(Ring - 1) /\ iw \in 0..(Ring - 1)
  <2>1. mgrinfo.read \in Position /\ mgrinfo.write \in Position
    BY DEF FlashTypeOK, Mgrinfo
  <2> QED BY <2>1, IndexIs
<1>2. (iw - ir) % Ring = d /\ d \in Nat
  BY <1>1, RingIs DEF Dist
<1>3. Waiting = f
  BY <1>2 DEF Waiting, Ring
<1>4. f \in Seq(Entry) /\ Len(f) = d
  <2>1. \A i \in 1..d : Yield(packet[At(ir + i - 1)]) \in Entry
    BY YieldIs
  <2> HIDE DEF d
  <2> QED BY <1>2, <2>1
<1>5. \A i \in 1..d : f[i] = Yield(packet[At(ir + i - 1)])
  OBVIOUS
<1> QED BY <1>3, <1>4, <1>5 DEF WaitingFine

LEMMA WaitingNext == FlashTypeOK' => WaitingFine'
BY WaitingIs, PTL

(* What is left of a sequence whose first k elements are gone.              *)
LEMMA Dropped ==
  ASSUME NEW a \in Seq(Entry), NEW b \in Seq(Entry), NEW k \in 0..Len(a),
         Len(b) = Len(a) - k, \A i \in 1..Len(b) : b[i] = a[k + i]
  PROVE  b = SubSeq(a, k + 1, Len(a))
<1> DEFINE c == SubSeq(a, k + 1, Len(a))
<1>1. Len(a) \in Nat /\ k \in Nat /\ k <= Len(a)
  OBVIOUS
<1>2. c \in Seq(Entry) /\ Len(c) = Len(a) - k /\ \A i \in 1..(Len(a) - k) : c[i] = a[k + i]
  BY <1>1, SubSeqProperties
<1> HIDE DEF c
<1>3. \A i \in 1..Len(b) : b[i] = c[i]
  BY <1>2
<1>4. b = c
  BY <1>2, <1>3, SeqEqual
<1> QED BY <1>4 DEF c

LEMMA Appended ==
  ASSUME NEW a \in Seq(Entry), NEW b \in Seq(Entry), NEW k \in 0..Len(a), NEW e \in Entry,
         Len(b) = Len(a) - k + 1, \A i \in 1..(Len(a) - k) : b[i] = a[k + i],
         b[Len(b)] = e
  PROVE  b = Append(SubSeq(a, k + 1, Len(a)), e)
<1> DEFINE c == SubSeq(a, k + 1, Len(a))
           d == Append(c, e)
<1>1. Len(a) \in Nat /\ k \in Nat /\ k <= Len(a)
  OBVIOUS
<1>2. c \in Seq(Entry) /\ Len(c) = Len(a) - k /\ \A i \in 1..(Len(a) - k) : c[i] = a[k + i]
  BY <1>1, SubSeqProperties
<1>3. /\ d \in Seq(Entry) /\ Len(d) = Len(c) + 1 /\ d[Len(c) + 1] = e
      /\ \A i \in 1..Len(c) : d[i] = c[i]
  <2> HIDE DEF c
  <2> QED BY <1>2, AppendProperties
<1> HIDE DEF c, d
<1>4. \A i \in 1..Len(b) : b[i] = d[i]
  BY <1>1, <1>2, <1>3
<1>5. b = d
  BY <1>1, <1>2, <1>3, <1>4, SeqEqual
<1> QED BY <1>5 DEF c, d

LEMMA AtWraps ==
  ASSUME NEW n \in Ring..(2 * Ring - 1)
  PROVE  At(n) = At(n - Ring)
<1>1. n \in 0..(2 * Ring - 1) /\ n - Ring \in 0..(2 * Ring - 1) /\ n - Ring < Ring /\ n >= Ring
  BY RingIs
<1>2. /\ At(n) \in Position /\ Index(At(n)) = n - Ring
      /\ At(n - Ring) \in Position /\ Index(At(n - Ring)) = n - Ring
  BY <1>1, RingIs, AtIs
<1>3. At(Index(At(n))) = At(n)
  BY <1>2, IndexIs
<1> QED BY <1>2, <1>3

LEMMA DistIs ==
  ASSUME NEW r \in Position, NEW w \in Position
  PROVE  /\ Dist(r, w) \in 0..(Ring - 1) /\ Index(r) \in 0..(Ring - 1) /\ Index(w) \in 0..(Ring - 1)
         /\ Dist(r, w) = 0 <=> r = w
<1>1. Index(r) \in 0..(Ring - 1) /\ Index(w) \in 0..(Ring - 1)
      /\ At(Index(r)) = r /\ At(Index(w)) = w
  BY IndexIs
<1> QED BY <1>1, RingIs DEF Dist

(* A reader k places further on.                                            *)
Ahead(r, k, r2) == Index(r2) = IF Index(r) + k < Ring THEN Index(r) + k ELSE Index(r) + k - Ring

LEMMA MovesOn ==
  ASSUME NEW r \in Position, NEW w \in Position, NEW r2 \in Position,
         NEW k \in 0..Dist(r, w), Ahead(r, k, r2)
  PROVE  /\ Dist(r2, w) = Dist(r, w) - k
         /\ \A i \in 1..(Dist(r, w) - k) : At(Index(r2) + i - 1) = At(Index(r) + k + i - 1)
<1>1. /\ Index(r) \in 0..(Ring - 1) /\ Index(w) \in 0..(Ring - 1) /\ Index(r2) \in 0..(Ring - 1)
      /\ Dist(r, w) \in 0..(Ring - 1) /\ k \in 0..(Ring - 1) /\ Ring \in Nat
  BY DistIs, RingIs
<1>2. Dist(r2, w) = Dist(r, w) - k
  BY <1>1 DEF Dist, Ahead
<1>3. ASSUME NEW i \in 1..(Dist(r, w) - k)
      PROVE  At(Index(r2) + i - 1) = At(Index(r) + k + i - 1)
  <2>1. CASE Index(r) + k < Ring
    BY <2>1, <1>1 DEF Ahead
  <2>2. CASE Index(r) + k >= Ring
    <3>1. Index(r) + k + i - 1 \in Ring..(2 * Ring - 1)
      BY <1>1, <1>3, <2>2
    <3>2. At(Index(r) + k + i - 1) = At(Index(r) + k + i - 1 - Ring)
      <4>1. PICK m \in Ring..(2 * Ring - 1) : m = Index(r) + k + i - 1
        BY <3>1
      <4>2. At(m) = At(m - Ring)
        BY AtWraps
      <4> QED BY <1>1, <1>3, <4>1, <4>2
    <3>3. Index(r) + k + i - 1 - Ring = Index(r2) + i - 1
      BY <1>1, <2>2 DEF Ahead
    <3> QED BY <3>2, <3>3
  <2> QED BY <1>1, <2>1, <2>2
<1> QED BY <1>2, <1>3

(* The writer moves one place on, with the reader not in front of it.       *)
LEMMA WriterMoves ==
  ASSUME NEW r \in Position, NEW w \in Position, r # hpm_flash_move_next_pos(w)
  PROVE  /\ Dist(r, hpm_flash_move_next_pos(w)) = Dist(r, w) + 1
         /\ At(Index(r) + Dist(r, w)) = w
<1> DEFINE n == hpm_flash_move_next_pos(w)
<1>1. n \in Position /\ Index(n) = IF Index(w) + 1 = Ring THEN 0 ELSE Index(w) + 1
  BY NextIsPosition, NextIndex
<1>2. /\ Index(r) \in 0..(Ring - 1) /\ Index(w) \in 0..(Ring - 1) /\ Ring \in Nat
      /\ At(Index(r)) = r /\ At(Index(n)) = n /\ At(Index(w)) = w /\ At(Index(w) + Ring) = w
  BY <1>1, IndexIs, RingIs
<1>3. Index(r) # Index(n)
  BY <1>2
<1> HIDE DEF n
<1>4. Dist(r, n) = Dist(r, w) + 1
  BY <1>1, <1>2, <1>3 DEF Dist
<1>5. Index(r) + Dist(r, w) \in {Index(w), Index(w) + Ring}
  BY <1>2 DEF Dist
<1> QED BY <1>2, <1>4, <1>5 DEF n

LEMMA BeforeIs ==
  ASSUME NEW a \in Position, NEW b \in Position
  PROVE  Before(a, b) <=> Index(a) < Index(b)
<1>1. /\ a.s \in Nat /\ b.s \in Nat /\ a.p \in 0..(FlashPackets - 1) /\ b.p \in 0..(FlashPackets - 1)
      /\ FlashPackets \in Nat
  BY RingIs DEF Position, Sector
<1>2. a.s < b.s => (a.s + 1) * FlashPackets <= b.s * FlashPackets
  BY <1>1, TimesMono
<1>3. b.s < a.s => (b.s + 1) * FlashPackets <= a.s * FlashPackets
  BY <1>1, TimesMono
<1>4. /\ (a.s + 1) * FlashPackets = a.s * FlashPackets + FlashPackets
      /\ (b.s + 1) * FlashPackets = b.s * FlashPackets + FlashPackets
      /\ a.s * FlashPackets \in Nat /\ b.s * FlashPackets \in Nat
  BY <1>1, TimesMono
<1>5. a.s = b.s => a.s * FlashPackets = b.s * FlashPackets
  OBVIOUS
<1> QED BY <1>1, <1>2, <1>3, <1>4, <1>5 DEF Before, Index

(* What waits is in the window.                                             *)
LEMMA WaitsWithin ==
  ASSUME NEW r \in Position, NEW w \in Position, NEW i \in 1..Dist(r, w)
  PROVE  At(Index(r) + i - 1) \in Position /\ Within(r, w, At(Index(r) + i - 1))
<1>1. /\ Index(r) \in 0..(Ring - 1) /\ Index(w) \in 0..(Ring - 1) /\ Ring \in Nat
      /\ Dist(r, w) \in 0..(Ring - 1)
  BY DistIs, RingIs
<1>2. Index(r) + i - 1 \in 0..(2 * Ring - 1)
  BY <1>1
<1>0. PICK n \in 0..(2 * Ring - 1) : n = Index(r) + i - 1
  BY <1>2
<1>3. PICK pos : pos = At(n)
  OBVIOUS
<1>4. pos \in Position
      /\ Index(pos) = IF Index(r) + i - 1 < Ring THEN Index(r) + i - 1 ELSE Index(r) + i - 1 - Ring
  <2>1. At(n) \in Position /\ Index(At(n)) = IF n < Ring THEN n ELSE n - Ring
    BY AtIs
  <2> QED BY <1>0, <1>1, <1>3, <2>1
<1>5. /\ Before(pos, w) <=> Index(pos) < Index(w)
      /\ Before(pos, r) <=> Index(pos) < Index(r)
      /\ Before(w, r) <=> Index(w) < Index(r)
  BY <1>4, BeforeIs
<1>6. Within(r, w, pos)
  BY <1>1, <1>4, <1>5 DEF Within, Dist
<1> QED BY <1>0, <1>3, <1>4, <1>6
-----------------------------------------------------------------------------
(* A reader that an erase pushes on gives up less than a sector, and leaves *)
(* all the room but that of a sector in use.                                *)
LEMMA ErasedDrop ==
  ASSUME FlashTypeOK
  PROVE  \E k \in 0..(FlashPackets - 1) :
           /\ k <= Dist(mgrinfo.read, mgrinfo.write)
           /\ k > 0 => Dist(mgrinfo.read, mgrinfo.write) - k >= Ring - FlashPackets
           /\ Ahead(mgrinfo.read, k, Erased.read)
<1> DEFINE r == mgrinfo.read
           w == mgrinfo.write
<1>1. r \in Position /\ w \in Position
  BY MgrinfoIs DEF FlashTypeOK
<1>2. /\ Dist(r, w) \in 0..(Ring - 1) /\ Index(r) \in 0..(Ring - 1) /\ Index(w) \in 0..(Ring - 1)
      /\ Index(r) - r.p \in Nat /\ Index(r) - r.p + FlashPackets <= Ring
      /\ r.p \in 0..(FlashPackets - 1)
      /\ FlashPackets \in Nat /\ FlashPackets >= 2 /\ Ring \in Nat /\ Ring >= 2 * FlashPackets
  BY <1>1, DistIs, IndexIs, RingIs
<1>3. CASE MustErase /\ r.s = w.s /\ r.p > w.p
  <2>1. w.p = 0 /\ Erased.read = hpm_flash_move_next_sector(r)
    BY <1>3, ErasedTyped DEF MustErase
  <2>2. Index(w) = Index(r) - r.p
    BY <1>1, <1>2, <1>3, <2>1, RingIs DEF Index, Position, Sector
  <2>3. Index(Erased.read) = IF Index(r) - r.p + FlashPackets = Ring THEN 0
                             ELSE Index(r) - r.p + FlashPackets
    BY <1>1, <2>1, NextIndex
  <2>4. Dist(r, w) = Ring - r.p
    BY <1>2, <1>3, <2>1, <2>2 DEF Dist
  <2>5. /\ FlashPackets - r.p \in 0..(FlashPackets - 1)
        /\ FlashPackets - r.p <= Dist(r, w)
        /\ Dist(r, w) - (FlashPackets - r.p) >= Ring - FlashPackets
    BY <1>2, <1>3, <2>1, <2>4
  <2>6. Ahead(r, FlashPackets - r.p, Erased.read)
    BY <1>2, <2>3 DEF Ahead
  <2> QED BY <2>5, <2>6
<1>4. CASE ~(MustErase /\ r.s = w.s /\ r.p > w.p)
  <2>1. Erased.read = r
    BY <1>4, ErasedTyped
  <2>2. 0 \in 0..(FlashPackets - 1) /\ 0 <= Dist(r, w) /\ Ahead(r, 0, Erased.read)
    BY <1>2, <2>1 DEF Ahead
  <2> QED BY <2>2
<1> QED BY <1>3, <1>4

(* No packet that waits is touched by an erase or is the writer's.          *)
LEMMA ErasedKeeps ==
  ASSUME FlashTypeOK, NEW pos \in Position, Within(Erased.read, mgrinfo.write, pos)
  PROVE  ErasedPackets[pos] = packet[pos] /\ pos # mgrinfo.write
<1> DEFINE r == mgrinfo.read
           w == mgrinfo.write
<1>1. r \in Position /\ w \in Position /\ Erased.read \in Position
  BY MgrinfoIs, ErasedTyped DEF FlashTypeOK
<1>2. pos # w
  <2>1. ~Within(Erased.read, w, w)
    BY <1>1 DEF Within, Before, Position, Sector
  <2> QED BY <2>1
<1>3. MustErase => pos.s # w.s
  <2> SUFFICES ASSUME MustErase PROVE pos.s # w.s
    OBVIOUS
  <2>1. w.p = 0 /\ Erased.read = IF r.s = w.s /\ r.p > w.p THEN hpm_flash_move_next_sector(r) ELSE r
    BY ErasedTyped DEF MustErase
  <2>2. hpm_flash_move_next_sector(r).p = 0
    BY DEF hpm_flash_move_next_sector
  <2>3. ~(Erased.read.s = w.s /\ Erased.read.p > w.p)
    BY <2>1, <2>2
  <2>4. pos.s = w.s => pos.p < w.p
    BY <1>1, <2>3, WrittenBehind
  <2> QED BY <2>1, <2>4 DEF Position
<1>4. packet \in [Position -> Packet]
  BY DEF FlashTypeOK
<1> QED BY <1>2, <1>3, <1>4 DEF ErasedPackets

(* The packets that wait behind a reader of the window keep their places.   *)
LEMMA WaitingKept ==
  ASSUME FlashTypeOK, FlashTypeOK',
         NEW r2 \in Position, NEW k \in 0..Dist(mgrinfo.read, mgrinfo.write),
         Ahead(mgrinfo.read, k, r2), mgrinfo'.read = r2,
         NEW i \in 1..(Dist(mgrinfo.read, mgrinfo.write) - k),
         i <= Dist(mgrinfo'.read, mgrinfo'.write),
         \A pos \in Position : Within(r2, mgrinfo.write, pos) => packet'[pos] = packet[pos]
  PROVE  Waiting'[i] = Waiting[k + i]
<1> DEFINE r == mgrinfo.read
           w == mgrinfo.write
<1>1. r \in Position /\ w \in Position /\ mgrinfo'.read \in Position /\ mgrinfo'.write \in Position
  BY MgrinfoIs DEF FlashTypeOK
<1>2. WaitingFine /\ WaitingFine'
  BY WaitingIs, WaitingNext
<1>3. /\ Dist(r2, w) = Dist(r, w) - k
      /\ At(Index(r2) + i - 1) = At(Index(r) + k + i - 1)
  BY <1>1, MovesOn
<1>4. i \in 1..Dist(r2, w) /\ i \in 1..Len(Waiting)' /\ k + i \in 1..Len(Waiting)
  <2>1. Dist(r, w) \in Nat /\ Dist(mgrinfo'.read, mgrinfo'.write) \in Nat
    BY <1>1, DistIs, RingIs
  <2> QED BY <1>2, <1>3, <2>1 DEF WaitingFine, Dist
<1>5. Waiting'[i] = Yield(packet'[At(Index(r2) + i - 1)])
  BY <1>2, <1>4 DEF WaitingFine, At, Index
<1>6. Waiting[k + i] = Yield(packet[At(Index(r) + (k + i) - 1)])
  BY <1>2, <1>4 DEF WaitingFine
<1>7. Index(r) + (k + i) - 1 = Index(r) + k + i - 1
  BY <1>1, DistIs, RingIs
<1>8. packet'[At(Index(r2) + i - 1)] = packet[At(Index(r2) + i - 1)]
  BY <1>1, <1>4, WaitsWithin
<1> QED BY <1>3, <1>5, <1>6, <1>7, <1>8
-----------------------------------------------------------------------------
LEMMA SavedIs ==
  ASSUME FlashInv, NEW r \in FlashReports, hpm_flash_save_pack(r)
  PROVE  Yield(packet'[mgrinfo.write]) \in {r} \cup (IF damaged' THEN {BadReport} ELSE {})
<1> DEFINE w == mgrinfo.write
           k == Programmed(ErasedPackets[w], r, TRUE)
<1>1. FlashTypeOK /\ (~damaged => Readable /\ (flash_type = "nor" => Discipline))
  BY DEF FlashInv
<1>2. w \in Position /\ ErasedPackets \in [Position -> Packet]
  BY <1>1, ErasedTyped, MgrinfoIs DEF FlashTypeOK
<1>3. /\ k \in Packet /\ k.holds \subseteq ErasedPackets[w].holds \cup {r}
      /\ r \in k.holds /\ k.whole /\ (flash_type = "sd" => k.holds = {r})
  <2>1. ErasedPackets[w] \in Packet
    BY <1>2
  <2> QED
    BY <2>1, ProgrammedTyped, Zenon
<1>4. packet'[w] = k /\ damaged' = (damaged \/ Misused(r))
  BY <1>2 DEF hpm_flash_save_pack
<1>5. ~damaged' => k.holds = {r}
  BY SavedAlone
<1>6. k.holds = {r} => Yield(k) = r
  BY <1>3 DEF Yield
<1>7. k.holds # {r} => Yield(k) = BadReport
  BY <1>3 DEF Yield
<1> QED
  BY <1>4, <1>5, <1>6, <1>7

LEMMA SaveIsPut ==
  ASSUME FlashInv, FlashTypeOK', NEW r \in FlashReports, hpm_flash_save_pack(r)
  PROVE  ReportQueue!Put(r)
<1> DEFINE rd == mgrinfo.read
           w == mgrinfo.write
           n == hpm_flash_move_next_pos(w)
           er == Erased.read
           D == Dist(rd, w)
<1>1. FlashTypeOK
  BY DEF FlashInv
<1>2. /\ rd \in Position /\ w \in Position /\ n \in Position
      /\ Erased \in Mgrinfo /\ Erased.write = w /\ er \in Position
      /\ ErasedPackets \in [Position -> Packet]
      /\ mgrinfo'.read \in Position /\ mgrinfo'.write \in Position
  BY <1>1, ErasedTyped, MgrinfoIs, NextIsPosition DEF FlashTypeOK
<1>3. /\ mgrinfo'.write = n
      /\ mgrinfo'.read = IF er = n THEN hpm_flash_move_next_pos(n) ELSE er
  BY <1>2, AdvancedTyped DEF hpm_flash_save_pack
<1>4. \A pos \in Position : pos # w => packet'[pos] = ErasedPackets[pos]
  BY <1>2 DEF hpm_flash_save_pack
<1>5. D \in 0..(Ring - 1) /\ Ring \in Nat /\ FlashPackets \in Nat /\ FlashPackets >= 2
      /\ Index(rd) \in 0..(Ring - 1) /\ Index(n) \in 0..(Ring - 1)
  BY <1>2, DistIs, RingIs
<1>6. mgrinfo'.read # n
  <2>1. er = n => hpm_flash_move_next_pos(n) # n
    BY <1>2, NextIsPosition
  <2> QED BY <1>3, <2>1
<1>7. \E k \in 0..(FlashPackets - 1) :
        /\ k <= D /\ (k > 0 => D - k >= Ring - FlashPackets)
        /\ Ahead(rd, k, mgrinfo'.read)
        /\ \A pos \in Position : Within(mgrinfo'.read, w, pos) => Within(er, w, pos)
  <2>1. PICK k \in 0..(FlashPackets - 1) :
          /\ k <= D /\ (k > 0 => D - k >= Ring - FlashPackets)
          /\ Ahead(rd, k, er)
    BY <1>1, ErasedDrop
  <2>2. CASE er # n
    BY <1>3, <2>1, <2>2
  <2>3. CASE er = n
    <3>1. Dist(er, w) = D - k
      BY <1>2, <1>5, <2>1, MovesOn
    <3>2. Dist(n, w) = Ring - 1
      <4>1. Index(n) = IF Index(w) + 1 = Ring THEN 0 ELSE Index(w) + 1
        BY <1>2, NextIndex
      <4>2. Index(w) \in 0..(Ring - 1)
        BY <1>2, DistIs
      <4> QED BY <1>5, <4>1, <4>2 DEF Dist
    <3>3. k = 0 /\ D = Ring - 1
      BY <1>5, <2>1, <2>3, <3>1, <3>2
    <3>4. mgrinfo'.read = hpm_flash_move_next_pos(n) /\ Index(n) = Index(rd)
      BY <1>3, <1>5, <2>1, <2>3, <3>3 DEF Ahead
    <3>5. Ahead(rd, 1, mgrinfo'.read)
      <4>1. Index(mgrinfo'.read) = IF Index(n) + 1 = Ring THEN 0 ELSE Index(n) + 1
        BY <1>2, <3>4, NextIndex
      <4> QED BY <1>5, <3>4, <4>1 DEF Ahead
    <3>6. n # w
      BY <1>2, NextIsPosition
    <3>7. \A pos \in Position : Within(mgrinfo'.read, w, pos) => Within(er, w, pos)
      BY <1>2, <2>3, <3>4, <3>6, ReaderLeaves
    <3>8. 1 \in 0..(FlashPackets - 1) /\ 1 <= D /\ D - 1 >= Ring - FlashPackets
      BY <1>5, <3>3, RingIs
    <3> QED BY <3>5, <3>7, <3>8
  <2> QED BY <2>2, <2>3
<1>8. PICK k \in 0..(FlashPackets - 1) :
        /\ k <= D /\ (k > 0 => D - k >= Ring - FlashPackets)
        /\ Ahead(rd, k, mgrinfo'.read)
        /\ \A pos \in Position : Within(mgrinfo'.read, w, pos) => Within(er, w, pos)
  BY <1>7
<1>9. k \in 0..D
  BY <1>5, <1>8
<1>10. /\ Dist(mgrinfo'.read, w) = D - k
       /\ Dist(mgrinfo'.read, mgrinfo'.write) = D - k + 1
       /\ At(Index(mgrinfo'.read) + (D - k)) = w
  <2>1. Dist(mgrinfo'.read, w) = D - k
    BY <1>2, <1>8, <1>9, MovesOn
  <2>2. Dist(mgrinfo'.read, n) = Dist(mgrinfo'.read, w) + 1
        /\ At(Index(mgrinfo'.read) + Dist(mgrinfo'.read, w)) = w
    BY <1>2, <1>6, WriterMoves
  <2> QED BY <1>3, <2>1, <2>2
<1>11. \A pos \in Position : Within(mgrinfo'.read, w, pos) => packet'[pos] = packet[pos]
  BY <1>1, <1>4, <1>8, ErasedKeeps
<1>12. WaitingFine /\ WaitingFine'
  BY <1>1, WaitingIs, WaitingNext
<1>13. Len(Waiting) = D /\ Len(Waiting)' = D - k + 1 /\ Waiting \in Seq(Entry) /\ Waiting' \in Seq(Entry)
  BY <1>10, <1>12 DEF WaitingFine, Dist, Index, Entry
<1>14. \A i \in 1..(D - k) : Waiting'[i] = Waiting[k + i]
  <2> SUFFICES ASSUME NEW i \in 1..(D - k) PROVE Waiting'[i] = Waiting[k + i]
    OBVIOUS
  <2>1. i <= Dist(mgrinfo'.read, mgrinfo'.write)
    BY <1>5, <1>9, <1>10
  <2> QED BY <1>1, <1>2, <1>8, <1>9, <1>11, <2>1, WaitingKept
<1>15. Waiting'[D - k + 1] = Yield(packet'[w])
  <2>1. D - k + 1 \in 1..Len(Waiting)'
    BY <1>5, <1>9, <1>13
  <2>2. Waiting'[D - k + 1] = Yield(packet'[At(Index(mgrinfo'.read) + (D - k + 1) - 1)])
    BY <1>12, <2>1 DEF WaitingFine, At, Index
  <2>3. Index(mgrinfo'.read) + (D - k + 1) - 1 = Index(mgrinfo'.read) + (D - k)
    BY <1>2, <1>5, <1>9, DistIs
  <2> QED BY <1>10, <2>2, <2>3
<1>16. Yield(packet'[w]) \in {r} \cup (IF damaged' THEN {BadReport} ELSE {}) /\ Yield(packet'[w]) \in Entry
  BY SavedIs, YieldIs
<1>17. Waiting' = Append(SubSeq(Waiting, k + 1, Len(Waiting)), Yield(packet'[w]))
  <2>1. PICK a \in Seq(Entry), b \in Seq(Entry), e \in Entry :
          a = Waiting /\ b = Waiting' /\ e = Yield(packet'[w])
    BY <1>13, <1>16
  <2>2. /\ k \in 0..Len(a) /\ Len(b) = Len(a) - k + 1 /\ b[Len(b)] = e
        /\ \A i \in 1..(Len(a) - k) : b[i] = a[k + i]
    BY <1>9, <1>13, <1>14, <1>15, <2>1
  <2>3. b = Append(SubSeq(a, k + 1, Len(a)), e)
    BY <2>2, Appended
  <2> QED BY <2>1, <2>3
<1>18. /\ loaded' = BadReport /\ damaged' \in BOOLEAN /\ (record = mgrinfo)' \in BOOLEAN
       /\ damaged => damaged'
  BY <1>1 DEF hpm_flash_save_pack, FlashTypeOK
<1>19. k <= Len(Waiting) /\ (k > 0 => Len(Waiting) - k >= FlashSectors * FlashPackets - FlashPackets)
  BY <1>8, <1>13 DEF Ring
<1> QED
  BY <1>16, <1>17, <1>18, <1>19 DEF ReportQueue!Put, ReportQueue!MayDrop, ReportQueue!Without

(* The positions and what yields stay.                                      *)
LEMMA WaitingSame ==
  ASSUME UNCHANGED <<mgrinfo, packet>>
  PROVE  Waiting' = Waiting
BY DEF Waiting, Index, At, Yield

LEMMA WaitingEmpty ==
  ASSUME FlashTypeOK, mgrinfo.read = mgrinfo.write
  PROVE  Waiting = <<>>
<1>1. mgrinfo.read \in Position /\ mgrinfo.write \in Position
  BY MgrinfoIs DEF FlashTypeOK
<1>2. Dist(mgrinfo.read, mgrinfo.write) = 0
  BY <1>1, DistIs
<1>3. Waiting \in Seq(Entry) /\ Len(Waiting) = 0
  BY <1>2, WaitingIs DEF WaitingFine
<1> QED BY <1>3, EmptySeq

LEMMA EmptyNext ==
  ASSUME FlashTypeOK', mgrinfo'.read = mgrinfo'.write
  PROVE  Waiting' = <<>>
<1>1. mgrinfo'.read \in Position /\ mgrinfo'.write \in Position
  BY MgrinfoIs DEF FlashTypeOK
<1>2. Dist(mgrinfo'.read, mgrinfo'.write) = 0
  BY <1>1, DistIs
<1>3. WaitingFine'
  BY WaitingNext
<1>4. Waiting' \in Seq(Entry) /\ Len(Waiting') = 0
  BY <1>2, <1>3 DEF WaitingFine, Dist, Index, Entry
<1> QED BY <1>4, EmptySeq

LEMMA WriteFailsIsPutFails ==
  ASSUME FlashInv, FlashTypeOK', NEW r \in FlashReports, hpm_flash_save_pack_write_fails(r)
  PROVE  ReportQueue!PutFails
<1> DEFINE rd == mgrinfo.read
           w == mgrinfo.write
           D == Dist(rd, w)
<1>1. FlashTypeOK
  BY DEF FlashInv
<1>2. /\ rd \in Position /\ w \in Position
      /\ Erased \in Mgrinfo /\ Erased.write = w /\ Erased.read \in Position
      /\ ErasedPackets \in [Position -> Packet]
      /\ mgrinfo' = Erased
  BY <1>1, ErasedTyped, MgrinfoIs DEF FlashTypeOK, hpm_flash_save_pack_write_fails
<1>3. \A pos \in Position : pos # w => packet'[pos] = ErasedPackets[pos]
  BY <1>2 DEF hpm_flash_save_pack_write_fails
<1>4. D \in 0..(Ring - 1) /\ FlashPackets \in Nat
  BY <1>2, DistIs, RingIs
<1>5. PICK k \in 0..(FlashPackets - 1) :
        /\ k <= D /\ (k > 0 => D - k >= Ring - FlashPackets)
        /\ Ahead(rd, k, mgrinfo'.read)
  BY <1>1, <1>2, ErasedDrop
<1>6. k \in 0..D
  BY <1>4, <1>5
<1>7. Dist(mgrinfo'.read, mgrinfo'.write) = D - k
  BY <1>2, <1>5, <1>6, MovesOn
<1>8. \A pos \in Position : Within(mgrinfo'.read, w, pos) => packet'[pos] = packet[pos]
  BY <1>1, <1>2, <1>3, ErasedKeeps
<1>9. WaitingFine /\ WaitingFine'
  BY <1>1, WaitingIs, WaitingNext
<1>10. Len(Waiting) = D /\ Len(Waiting)' = D - k /\ Waiting \in Seq(Entry) /\ Waiting' \in Seq(Entry)
  BY <1>7, <1>9 DEF WaitingFine, Dist, Index, Entry
<1>11. \A i \in 1..(D - k) : Waiting'[i] = Waiting[k + i]
  <2> SUFFICES ASSUME NEW i \in 1..(D - k) PROVE Waiting'[i] = Waiting[k + i]
    OBVIOUS
  <2>1. i <= Dist(mgrinfo'.read, mgrinfo'.write)
    BY <1>4, <1>6, <1>7
  <2> QED BY <1>1, <1>2, <1>5, <1>6, <1>8, <2>1, WaitingKept
<1>12. Waiting' = SubSeq(Waiting, k + 1, Len(Waiting))
  <2>1. PICK a \in Seq(Entry), b \in Seq(Entry) : a = Waiting /\ b = Waiting'
    BY <1>10
  <2>2. k \in 0..Len(a) /\ Len(b) = Len(a) - k /\ \A i \in 1..Len(b) : b[i] = a[k + i]
    BY <1>6, <1>10, <1>11, <2>1
  <2>3. b = SubSeq(a, k + 1, Len(a))
    BY <2>2, Dropped
  <2> QED BY <2>1, <2>3
<1>13. /\ loaded' = BadReport /\ damaged' \in BOOLEAN /\ (record = mgrinfo)' \in BOOLEAN
       /\ damaged => damaged'
  BY <1>1 DEF hpm_flash_save_pack_write_fails, FlashTypeOK
<1>14. k <= Len(Waiting) /\ (k > 0 => Len(Waiting) - k >= FlashSectors * FlashPackets - FlashPackets)
  BY <1>5, <1>10 DEF Ring
<1> QED
  BY <1>12, <1>13, <1>14 DEF ReportQueue!PutFails, ReportQueue!MayDrop, ReportQueue!Without

LEMMA LoadIsTake ==
  ASSUME FlashInv, FlashTypeOK', hpm_flash_load_pack
  PROVE  ReportQueue!Take
<1> DEFINE rd == mgrinfo.read
           w == mgrinfo.write
           D == Dist(rd, w)
<1>1. FlashTypeOK
  BY DEF FlashInv
<1>2. /\ rd \in Position /\ w \in Position /\ rd # w /\ mgrinfo \in Mgrinfo
      /\ hpm_flash_move_next_pos(rd) \in Position
  BY <1>1, MgrinfoIs, NextIsPosition DEF FlashTypeOK, hpm_flash_load_pack
<1>3. mgrinfo'.read = hpm_flash_move_next_pos(rd) /\ mgrinfo'.write = w /\ packet' = packet
  BY <1>2 DEF hpm_flash_load_pack, Mgrinfo
<1>4. D \in 0..(Ring - 1) /\ Index(rd) \in 0..(Ring - 1) /\ 1 \in 0..D /\ Ring \in Nat
  BY <1>2, DistIs, RingIs
<1>5. Ahead(rd, 1, mgrinfo'.read)
  <2>1. Index(mgrinfo'.read) = IF Index(rd) + 1 = Ring THEN 0 ELSE Index(rd) + 1
    BY <1>2, <1>3, NextIndex
  <2> QED BY <1>4, <2>1 DEF Ahead
<1>6. Dist(mgrinfo'.read, mgrinfo'.write) = D - 1
  BY <1>2, <1>3, <1>4, <1>5, MovesOn
<1>7. WaitingFine /\ WaitingFine'
  BY <1>1, WaitingIs, WaitingNext
<1>8. Len(Waiting) = D /\ Len(Waiting)' = D - 1 /\ Waiting \in Seq(Entry) /\ Waiting' \in Seq(Entry)
  BY <1>6, <1>7 DEF WaitingFine, Dist, Index, Entry
<1>9. \A i \in 1..(D - 1) : Waiting'[i] = Waiting[1 + i]
  <2> SUFFICES ASSUME NEW i \in 1..(D - 1) PROVE Waiting'[i] = Waiting[1 + i]
    OBVIOUS
  <2>1. i <= Dist(mgrinfo'.read, mgrinfo'.write)
    BY <1>4, <1>6
  <2> QED BY <1>1, <1>2, <1>3, <1>4, <1>5, <2>1, WaitingKept
<1>10. Waiting' = SubSeq(Waiting, 2, Len(Waiting))
  <2>1. PICK a \in Seq(Entry), b \in Seq(Entry) : a = Waiting /\ b = Waiting'
    BY <1>8
  <2>2. 1 \in 0..Len(a) /\ Len(b) = Len(a) - 1 /\ \A i \in 1..Len(b) : b[i] = a[1 + i]
    BY <1>4, <1>8, <1>9, <2>1
  <2>3. b = SubSeq(a, 1 + 1, Len(a))
    BY <2>2, Dropped
  <2> QED BY <2>1, <2>3
<1>11. Waiting # <<>> /\ Tail(Waiting) = SubSeq(Waiting, 2, Len(Waiting)) /\ Head(Waiting) = Waiting[1]
  <2>1. Len(Waiting) # 0
    BY <1>4, <1>8
  <2> QED BY <2>1, <1>8
<1>12. Waiting[1] = Yield(packet[rd])
  <2>1. 1 \in 1..Len(Waiting)
    BY <1>4, <1>8
  <2>2. Waiting[1] = Yield(packet[At(Index(rd) + 1 - 1)])
    BY <1>7, <2>1 DEF WaitingFine
  <2>3. Index(rd) + 1 - 1 = Index(rd) /\ At(Index(rd)) = rd
    BY <1>2, <1>4, IndexIs
  <2> QED BY <2>2, <2>3
<1>13. loaded' = Yield(packet[rd]) /\ UNCHANGED damaged /\ (record = mgrinfo)' \in BOOLEAN
  BY DEF hpm_flash_load_pack
<1> QED
  BY <1>10, <1>11, <1>12, <1>13 DEF ReportQueue!Take

LEMMA RestartIsRestart ==
  ASSUME FlashInv, FlashTypeOK', hpm_flash_init
  PROVE  ReportQueue!Restart
<1>1. FlashTypeOK
  BY DEF FlashInv
<1>2. packet' = packet /\ record' = record /\ (record = mgrinfo)' \in BOOLEAN
  BY DEF hpm_flash_init
<1>3. CASE record # NoRecord /\ mgrinfo' = record /\ flash_write_flag' = FALSE
           /\ loaded' = BadReport /\ damaged' = (damaged \/ record # mgrinfo)
           /\ UNCHANGED unfinished
  <2>1. CASE record = mgrinfo
    <3>1. Waiting' = Waiting
      BY <1>2, <1>3, <2>1, WaitingSame
    <3> QED BY <1>1, <1>2, <1>3, <2>1, <3>1 DEF ReportQueue!Restart, FlashTypeOK
  <2>2. CASE record # mgrinfo
    <3>1. WaitingFine'
      BY WaitingNext
    <3>2. mgrinfo'.read \in Position /\ mgrinfo'.write \in Position
      BY MgrinfoIs DEF FlashTypeOK
    <3>3. Dist(mgrinfo'.read, mgrinfo'.write) < Ring
      BY <3>2, DistIs, RingIs
    <3>4. Len(Waiting') < FlashSectors * FlashPackets /\ Waiting' \in Seq(Entry)
      BY <3>1, <3>3 DEF WaitingFine, Dist, Index, Entry, Ring
    <3>5. \A i \in DOMAIN Waiting' : Waiting'[i] \in FlashReports \cup {BadReport}
      BY <3>4 DEF Entry
    <3> QED BY <1>2, <1>3, <2>2, <3>4, <3>5 DEF ReportQueue!Restart
  <2> QED BY <2>1, <2>2
<1>4. CASE mgrinfo' = hpm_flash_reset_mgrinfo /\ flash_write_flag' = TRUE
           /\ loaded' \in {UnreadRecord} \cup {BadReport : x \in {NoRecord} \cap {record}}
           /\ damaged' = FALSE /\ unfinished' = BadReport
  <2>1. Waiting' = <<>>
    BY <1>4, EmptyNext DEF hpm_flash_reset_mgrinfo
  <2>2. record = mgrinfo => loaded' = UnreadRecord
    BY <1>1, <1>4, RecordAssumption DEF FlashTypeOK
  <2>3. loaded' \in {BadReport, UnreadRecord}
    BY <1>4
  <2> QED BY <1>2, <1>4, <2>1, <2>2, <2>3 DEF ReportQueue!Restart
<1> QED
  BY <1>3, <1>4 DEF hpm_flash_init

LEMMA ClearIsClear ==
  ASSUME FlashInv, FlashTypeOK', hpm_flash_clear_info
  PROVE  ReportQueue!Clear
<1>1. FlashTypeOK /\ mgrinfo \in Mgrinfo
  BY DEF FlashInv, FlashTypeOK
<1>2. mgrinfo'.read = mgrinfo'.write
  BY <1>1 DEF hpm_flash_clear_info, Mgrinfo
<1>3. Waiting' = <<>>
  BY <1>2, EmptyNext
<1> QED
  BY <1>1, <1>3 DEF hpm_flash_clear_info, ReportQueue!Clear, FlashTypeOK

(* What only concerns the record or fails before it changes anything.       *)
LEMMA RecordIsSync ==
  ASSUME FlashInv,
         \/ hpm_flash_save_pack_erase_fails \/ hpm_flash_load_pack_read_fails
         \/ hpm_flash_sleep \/ hpm_flash_period \/ hpm_flash_save_mgrinfo_fails
         \/ UNCHANGED flashVars
  PROVE  ReportQueue!TakeFails \/ ReportQueue!Sync \/ ReportQueue!SyncFails \/ ReportQueue!Idle
<1>1. UNCHANGED <<mgrinfo, packet, damaged>> /\ Waiting' = Waiting
  <2>1. UNCHANGED <<mgrinfo, packet, damaged>>
    BY DEF hpm_flash_save_pack_erase_fails, hpm_flash_load_pack_read_fails, hpm_flash_sleep,
           hpm_flash_period, hpm_flash_save_mgrinfo_fails, flashVars
  <2> QED BY <2>1, WaitingSame
<1>2. CASE hpm_flash_sleep
  BY <1>1, <1>2 DEF hpm_flash_sleep, ReportQueue!Sync
<1>3. CASE hpm_flash_period \/ hpm_flash_save_mgrinfo_fails
  BY <1>1, <1>3 DEF hpm_flash_period, hpm_flash_save_mgrinfo_fails, ReportQueue!SyncFails
<1>4. CASE hpm_flash_save_pack_erase_fails \/ hpm_flash_load_pack_read_fails
  BY <1>1, <1>4 DEF hpm_flash_save_pack_erase_fails, hpm_flash_load_pack_read_fails,
                    ReportQueue!TakeFails
<1>5. CASE UNCHANGED flashVars
  BY <1>1, <1>5 DEF flashVars, ReportQueue!Idle, ReportQueue!vars
<1> QED
  BY <1>2, <1>3, <1>4, <1>5

LEMMA StoreSteps == FlashInv /\ FlashInv' /\ [FlashNext]_flashVars => ReportQueue!Next
<1> SUFFICES ASSUME FlashInv, FlashInv', [FlashNext]_flashVars PROVE ReportQueue!Next
  OBVIOUS
<1>1. FlashTypeOK'
  BY DEF FlashInv
<1>2. ASSUME NEW r \in FlashReports, hpm_flash_save_pack(r) PROVE ReportQueue!Next
  BY <1>1, <1>2, SaveIsPut DEF ReportQueue!Next
<1>3. ASSUME NEW r \in FlashReports, hpm_flash_save_pack_write_fails(r) PROVE ReportQueue!Next
  BY <1>1, <1>3, WriteFailsIsPutFails DEF ReportQueue!Next
<1>4. CASE hpm_flash_load_pack
  BY <1>1, <1>4, LoadIsTake DEF ReportQueue!Next
<1>5. CASE hpm_flash_init
  BY <1>1, <1>5, RestartIsRestart DEF ReportQueue!Next
<1>6. CASE hpm_flash_clear_info
  BY <1>1, <1>6, ClearIsClear DEF ReportQueue!Next
<1>7. CASE \/ hpm_flash_save_pack_erase_fails \/ hpm_flash_load_pack_read_fails
           \/ hpm_flash_sleep \/ hpm_flash_period \/ hpm_flash_save_mgrinfo_fails
           \/ UNCHANGED flashVars
  BY <1>7, RecordIsSync DEF ReportQueue!Next
<1> QED
  BY <1>2, <1>3, <1>4, <1>5, <1>6, <1>7 DEF FlashNext

(* For every ring and any number of faults the report store is the queue    *)
(* of module FlashQueue: what hpm_flash_save_pack puts in, hpm_flash_load_  *)
(* pack takes out once and in order; the oldest go only when less than a    *)
(* sector is free; and a restart after a saved record changes nothing.      *)
THEOREM StoreIsQueue == FlashSpec => FlashIsQueue
<1>1. FlashInit => ReportQueue!Init
  <2> SUFFICES ASSUME FlashInit PROVE ReportQueue!Init
    OBVIOUS
  <2>1. FlashTypeOK
    BY FlashInitHolds DEF FlashInv
  <2>2. Waiting = <<>>
    BY <2>1, WaitingEmpty DEF FlashInit, hpm_flash_reset_mgrinfo
  <2> QED BY <2>2 DEF FlashInit, ReportQueue!Init
<1>2. FlashInv /\ FlashInv' /\ [FlashNext]_flashVars => [ReportQueue!Next]_(ReportQueue!vars)
  BY StoreSteps
<1> QED
  BY <1>1, <1>2, FlashAlways, PTL DEF FlashSpec, FlashIsQueue, ReportQueue!Spec
=============================================================================
