--------------------------- MODULE JpegRowsProofs ---------------------------
(***************************************************************************)
(* Each row group is compressed, and each row read, once, in order and     *)
(* with its neighbours in the picture.                                     *)
(***************************************************************************)
EXTENDS JpegRows, SequenceTheorems, WellFoundedInduction, TLAPS

-----------------------------------------------------------------------------
(* Arithmetic.                                                             *)

LEMMA Quotient ==
  ASSUME NEW a \in Int, NEW b \in Nat \ {0}
  PROVE  /\ a \div b \in Int
         /\ b * (a \div b) <= a /\ a < b * (a \div b) + b
<1>1. a = b * (a \div b) + (a % b) /\ a \div b \in Int /\ a % b \in 0 .. b - 1
  OBVIOUS
<1>2. b * (a \div b) \in Int
  BY <1>1
<1> QED
  BY <1>1, <1>2

LEMMA Times ==
  ASSUME NEW a \in Int, NEW b \in Int, NEW c \in Nat, a <= b
  PROVE  a * c \in Int /\ b * c \in Int /\ a * c <= b * c
OBVIOUS

\* How the quotient compares to other numbers.
LEMMA QuotientIsLeast ==
  ASSUME NEW a \in Int, NEW b \in Nat \ {0}, NEW c \in Int
  PROVE  (c <= a \div b <=> c * b <= a) /\ c * b \in Int
<1> DEFINE q == a \div b
<1>1. q \in Int /\ b * q <= a /\ a < b * q + b
  BY Quotient
<1> HIDE DEF q
<1>2. c * b \in Int /\ q * b \in Int /\ q * b = b * q /\ (q + 1) * b = b * q + b
  BY <1>1
<1>3. ASSUME c <= q PROVE c * b <= a
  <2>1. c * b <= q * b
    BY <1>1, <1>3, Times
  <2> QED
    BY <1>1, <1>2, <2>1
<1>4. ASSUME ~(c <= q) PROVE ~(c * b <= a)
  <2>1. q + 1 <= c /\ q + 1 \in Int
    BY <1>1, <1>4
  <2>2. (q + 1) * b <= c * b
    BY <2>1, Times
  <2> QED
    BY <1>1, <1>2, <2>2
<1> QED
  BY <1>2, <1>3, <1>4 DEF q

LEMMA LeastIs ==
  ASSUME NEW a \in Int, NEW b \in Int
  PROVE  Least(a, b) = IF a <= b THEN a ELSE b
<1> DEFINE m == IF a <= b THEN a ELSE b
<1>1. m \in {a, b} /\ \A y \in {a, b} : m <= y
  OBVIOUS
<1>2. \A x \in {a, b} : (\A y \in {a, b} : x <= y) => x = m
  OBVIOUS
<1> HIDE DEF m
<1>3. Min({a, b}) = m
  BY <1>1, <1>2 DEF Min
<1> QED
  BY <1>3 DEF Least, m

-----------------------------------------------------------------------------
(* The writer.                                                             *)

RowGroup == [rows : Seq(Int), around : Seq(Int)]

Buffers == [0 .. 2 -> Int] \cup [0 .. 5 -> Int]

WriterType ==
  [context : BOOLEAN, V : {1, 2}, height : Heights, color_buf : Buffers,
   next_buf_row : Int, next_buf_stop : Int, this_row_group : Int, rows_to_go : Int,
   next_scanline : Int, in : Int, groups : Seq(RowGroup), cur_iMCU_row : Nat,
   suspended : BOOLEAN, first : Int, sent : Seq(RowGroup)]

WriterTyped(w) == w \in WriterType /\ DOMAIN w.color_buf = 0 .. 3 * w.V - 1

\* What a writer is for as long as its picture lasts.
SameWriter(w, u) == u.context = w.context /\ u.V = w.V /\ u.height = w.height

\* What only compressing an iMCU row changes.
SameOutput(w, u) ==
  /\ u.next_scanline = w.next_scanline /\ u.cur_iMCU_row = w.cur_iMCU_row
  /\ u.suspended = w.suspended /\ u.first = w.first /\ u.sent = w.sent

\* The first rows of a picture go to the beginning of the buffer.
First(w) == w.context /\ w.rows_to_go = w.height

LEMMA Modulo ==
  ASSUME NEW m \in {3, 6}, NEW i \in Int
  PROVE  /\ i % m \in 0 .. m - 1
         /\ 0 <= i /\ i < m => i % m = i
         /\ -m <= i /\ i < 0 => i % m = i + m
         /\ m <= i /\ i < 2 * m => i % m = i - m
<1>1. CASE m = 3
  BY <1>1
<1>2. CASE m = 6
  BY <1>2
<1> QED
  BY <1>1, <1>2

\* Where the rows around lie in the buffer.
LEMMA SlotIs ==
  ASSUME NEW w, w.V \in {1, 2}, NEW i \in Int
  PROVE  /\ Slot(w, i) \in 0 .. 3 * w.V - 1
         /\ 0 <= i /\ i < 3 * w.V => Slot(w, i) = i
         /\ -3 * w.V <= i /\ i < 0 => Slot(w, i) = i + 3 * w.V
         /\ 3 * w.V <= i /\ i < 6 * w.V => Slot(w, i) = i - 3 * w.V
<1> DEFINE m == 3 * w.V
<1>1. m \in {3, 6} /\ m \in Int /\ 6 * w.V = 2 * m /\ -3 * w.V = -m
  OBVIOUS
<1>2. Slot(w, i) = i % m
  BY DEF Slot
<1>3. i % m \in 0 .. m - 1 /\ (0 <= i /\ i < m => i % m = i)
  BY <1>1, Modulo
<1>4. (-m <= i /\ i < 0 => i % m = i + m) /\ (m <= i /\ i < 2 * m => i % m = i - m)
  BY <1>1, Modulo
<1> QED
  <2> HIDE DEF m
  <2> QED
    BY <1>1, <1>2, <1>3, <1>4 DEF m

LEMMA TakeKeepsV ==
  ASSUME NEW w, WriterTyped(w), NEW n
  PROVE  Take(w, n).V = w.V
BY DEF Take, WriterTyped, WriterType

LEMMA TakeIs ==
  ASSUME NEW w, WriterTyped(w), NEW n \in Nat, n > 0,
         0 <= w.next_buf_row, w.next_buf_row + n <= 3 * w.V,
         First(w) => w.next_buf_row = 0 /\ n <= 2 * w.V
  PROVE  LET t == Take(w, n)
         IN /\ WriterTyped(t) /\ SameWriter(w, t) /\ SameOutput(w, t)
            /\ t.in = w.in + n /\ t.next_buf_row = w.next_buf_row + n /\ t.rows_to_go = w.rows_to_go - n
            /\ t.next_buf_stop = w.next_buf_stop /\ t.this_row_group = w.this_row_group
            /\ t.groups = w.groups
            /\ \A i \in 0 .. n - 1 : t.color_buf[w.next_buf_row + i] = w.next_scanline + w.in + i
            /\ ~First(w) => \A i \in 0 .. 3 * w.V - 1 :
                 ~(w.next_buf_row <= i /\ i < w.next_buf_row + n) => t.color_buf[i] = w.color_buf[i]
            /\ First(w) => t.color_buf[3 * w.V - 1] = w.next_scanline + w.in
<1> DEFINE row(i) == w.next_scanline + w.in + (i - w.next_buf_row)
           taken == [i \in DOMAIN w.color_buf |->
                       IF \E j \in 0 .. n - 1 : Slot(w, w.next_buf_row + j) = i THEN row(i) ELSE w.color_buf[i]]
           above == {Slot(w, -j) : j \in 1 .. w.V}
           buf == IF w.context /\ w.rows_to_go = w.height
                  THEN [i \in DOMAIN taken |-> IF i \in above THEN taken[0] ELSE taken[i]] ELSE taken
<1>1. Take(w, n) = [w EXCEPT !.in = @ + n, !.next_buf_row = @ + n, !.rows_to_go = @ - n, !.color_buf = buf]
  BY DEF Take
<1>2. /\ w \in WriterType /\ w.V \in {1, 2} /\ DOMAIN w.color_buf = 0 .. 3 * w.V - 1
      /\ w.next_scanline \in Int /\ w.in \in Int /\ w.next_buf_row \in Int /\ w.rows_to_go \in Int
  BY DEF WriterTyped, WriterType
<1>3. \A i \in 0 .. 3 * w.V - 1 : w.color_buf[i] \in Int
  <2>1. w.color_buf \in [0 .. 2 -> Int] \cup [0 .. 5 -> Int]
    BY <1>2 DEF WriterType, Buffers
  <2> QED
    BY <1>2, <2>1
<1>4. ASSUME NEW j \in 0 .. n - 1 PROVE Slot(w, w.next_buf_row + j) = w.next_buf_row + j
  <2>1. w.next_buf_row + j \in Int /\ 0 <= w.next_buf_row + j /\ w.next_buf_row + j < 3 * w.V
    BY <1>2
  <2> QED
    BY <1>2, <2>1, SlotIs
<1>5. taken \in [0 .. 3 * w.V - 1 -> Int]
  <2>1. \A i \in 0 .. 3 * w.V - 1 : row(i) \in Int
    BY <1>2
  <2> HIDE DEF row
  <2> QED
    BY <1>2, <1>3, <2>1
<1>6. ASSUME NEW i \in 0 .. n - 1 PROVE taken[w.next_buf_row + i] = w.next_scanline + w.in + i
  <2>1. w.next_buf_row + i \in 0 .. 3 * w.V - 1 /\ row(w.next_buf_row + i) = w.next_scanline + w.in + i
    BY <1>2
  <2> QED
    BY <1>2, <1>4, <2>1
<1>7. \A i \in 0 .. 3 * w.V - 1 :
        ~(w.next_buf_row <= i /\ i < w.next_buf_row + n) => taken[i] = w.color_buf[i]
  <2> SUFFICES ASSUME NEW i \in 0 .. 3 * w.V - 1, ~(w.next_buf_row <= i /\ i < w.next_buf_row + n)
               PROVE  taken[i] = w.color_buf[i]
    OBVIOUS
  <2>1. ASSUME NEW j \in 0 .. n - 1, Slot(w, w.next_buf_row + j) = i PROVE FALSE
    <3>1. i = w.next_buf_row + j
      BY <1>4, <2>1
    <3>2. w.next_buf_row \in Int /\ j \in Int /\ 0 <= j /\ j < n
      BY <1>2
    <3> QED
      BY <3>1, <3>2
  <2>2. ~\E j \in 0 .. n - 1 : Slot(w, w.next_buf_row + j) = i
    BY <2>1
  <2>3. i \in DOMAIN w.color_buf
    BY <1>2
  <2> QED
    BY <2>2, <2>3
<1>8. \A i \in above : 2 * w.V <= i /\ i < 3 * w.V
  <2>1. ASSUME NEW j \in 1 .. w.V PROVE Slot(w, -j) = -j + 3 * w.V
    <3>1. -j \in Int /\ -3 * w.V <= -j /\ -j < 0
      BY <1>2
    <3> QED
      BY <1>2, <3>1, SlotIs
  <2> QED
    BY <1>2, <2>1
<1>9. 3 * w.V - 1 \in above
  <2>1. Slot(w, -1) = 3 * w.V - 1
    <3>1. -1 \in Int /\ -3 * w.V <= -1 /\ -1 < 0 /\ -1 + 3 * w.V = 3 * w.V - 1
      BY <1>2
    <3> QED
      BY <1>2, <3>1, SlotIs
  <2>2. 1 \in 1 .. w.V
    BY <1>2
  <2> QED
    BY <2>1, <2>2
<1> HIDE DEF taken, above
<1>10. buf \in [0 .. 3 * w.V - 1 -> Int]
  <2>1. 0 \in 0 .. 3 * w.V - 1
    BY <1>2
  <2> QED
    BY <1>5, <2>1
<1>11. \A i \in 0 .. n - 1 : buf[w.next_buf_row + i] = w.next_scanline + w.in + i
  <2>1. CASE First(w)
    <3>1. w.next_buf_row = 0 /\ n <= 2 * w.V
      BY <2>1
    <3>2. ASSUME NEW i \in 0 .. n - 1 PROVE buf[i] = w.next_scanline + w.in + i
      <4>1. i \in DOMAIN taken /\ i \notin above
        BY <1>2, <1>5, <1>8, <3>1
      <4>2. buf[i] = taken[i]
        BY <2>1, <4>1 DEF First
      <4>3. w.next_buf_row + i = i
        BY <3>1
      <4> QED
        BY <1>6, <4>2, <4>3
    <3>3. \A i \in 0 .. n - 1 : w.next_buf_row + i = i
      BY <3>1
    <3> HIDE DEF buf
    <3> QED
      BY <3>2, <3>3
  <2>2. CASE ~First(w)
    BY <1>6, <2>2 DEF First
  <2> QED
    BY <2>1, <2>2
<1>12. ~First(w) => \A i \in 0 .. 3 * w.V - 1 :
                 ~(w.next_buf_row <= i /\ i < w.next_buf_row + n) => buf[i] = w.color_buf[i]
  BY <1>7 DEF First
<1>13. First(w) => buf[3 * w.V - 1] = w.next_scanline + w.in
  <2> SUFFICES ASSUME First(w) PROVE buf[3 * w.V - 1] = w.next_scanline + w.in
    OBVIOUS
  <2>1. taken[0] = w.next_scanline + w.in
    <3>1. w.next_buf_row = 0
      OBVIOUS
    <3>2. 0 \in 0 .. n - 1 /\ w.next_scanline + w.in + 0 = w.next_scanline + w.in
      BY <1>2
    <3> QED
      BY <1>6, <3>1, <3>2
  <2>2. 3 * w.V - 1 \in DOMAIN taken
    BY <1>2, <1>5
  <2> QED
    BY <1>9, <2>1, <2>2 DEF First
<1> HIDE DEF buf
<1>14. w.V = 1 => buf \in [0 .. 2 -> Int]
  BY <1>10
<1>15. w.V = 2 => buf \in [0 .. 5 -> Int]
  BY <1>10
<1>16. buf \in Buffers /\ DOMAIN buf = 0 .. 3 * w.V - 1
  BY <1>2, <1>10, <1>14, <1>15 DEF Buffers
<1>17. Take(w, n) \in WriterType /\ Take(w, n).color_buf = buf /\ Take(w, n).V = w.V
  <2> DEFINE in == w.in + n
             next == w.next_buf_row + n
             left == w.rows_to_go - n
  <2>1. in \in Int /\ next \in Int /\ left \in Int
    BY <1>2
  <2> HIDE DEF in, next, left
  <2>2. Take(w, n) = [w EXCEPT !.in = in, !.next_buf_row = next, !.rows_to_go = left, !.color_buf = buf]
    BY <1>1, Zenon DEF in, next, left
  <2> QED
    BY <1>2, <1>16, <2>1, <2>2 DEF WriterType
<1>18. WriterTyped(Take(w, n))
  BY <1>16, <1>17 DEF WriterTyped
<1>19. LET t == Take(w, n)
       IN /\ SameWriter(w, t) /\ SameOutput(w, t)
          /\ t.in = w.in + n /\ t.next_buf_row = w.next_buf_row + n /\ t.rows_to_go = w.rows_to_go - n
          /\ t.next_buf_stop = w.next_buf_stop /\ t.this_row_group = w.this_row_group
          /\ t.groups = w.groups
  BY <1>1, <1>2 DEF WriterType, SameWriter, SameOutput
<1> QED
  BY <1>11, <1>12, <1>13, <1>17, <1>18, <1>19

LEMMA PaddedIs ==
  ASSUME NEW w, WriterTyped(w), NEW stop \in Int,
         0 <= w.next_buf_row, w.next_buf_row <= stop, stop <= 3 * w.V
  PROVE  LET t == Padded(w, stop)
         IN /\ WriterTyped(t) /\ SameWriter(w, t) /\ SameOutput(w, t)
            /\ t.in = w.in /\ t.next_buf_row = stop /\ t.rows_to_go = w.rows_to_go
            /\ t.next_buf_stop = w.next_buf_stop /\ t.this_row_group = w.this_row_group
            /\ t.groups = w.groups
            /\ \A i \in 0 .. 3 * w.V - 1 :
                 t.color_buf[i] = IF w.next_buf_row <= i /\ i < stop
                                  THEN w.color_buf[Slot(w, w.next_buf_row - 1)] ELSE w.color_buf[i]
<1> DEFINE last == w.color_buf[Slot(w, w.next_buf_row - 1)]
           buf == [i \in DOMAIN w.color_buf |->
                     IF w.next_buf_row <= i /\ i < stop THEN last ELSE w.color_buf[i]]
<1>1. /\ w \in WriterType /\ w.V \in {1, 2} /\ DOMAIN w.color_buf = 0 .. 3 * w.V - 1
      /\ w.next_buf_row \in Int /\ w.color_buf \in Buffers
  BY DEF WriterTyped, WriterType
<1>2. \A i \in 0 .. 3 * w.V - 1 : w.color_buf[i] \in Int
  BY <1>1 DEF Buffers
<1>3. Slot(w, w.next_buf_row - 1) \in 0 .. 3 * w.V - 1
  <2> DEFINE i == w.next_buf_row - 1
  <2>1. i \in Int
    BY <1>1
  <2> HIDE DEF i
  <2>2. w.V \in {1, 2}
    BY <1>1
  <2>3. Slot(w, i) \in 0 .. 3 * w.V - 1
    BY <2>1, <2>2, SlotIs
  <2> QED
    BY <2>3 DEF i
<1>4. last \in Int
  BY <1>2, <1>3
<1>5. Padded(w, stop) = [w EXCEPT !.next_buf_row = stop, !.color_buf = buf]
  BY DEF Padded
<1>6. buf \in [0 .. 3 * w.V - 1 -> Int]
  <2> HIDE DEF last
  <2> QED
    BY <1>1, <1>2, <1>4
<1>7. \A i \in 0 .. 3 * w.V - 1 : buf[i] = IF w.next_buf_row <= i /\ i < stop THEN last ELSE w.color_buf[i]
  <2> HIDE DEF last
  <2> QED
    BY <1>1
<1> HIDE DEF buf
<1>8. buf \in Buffers /\ DOMAIN buf = 0 .. 3 * w.V - 1
  <2>1. w.V = 1 => buf \in [0 .. 2 -> Int]
    BY <1>6
  <2>2. w.V = 2 => buf \in [0 .. 5 -> Int]
    BY <1>6
  <2> QED
    BY <1>1, <1>6, <2>1, <2>2 DEF Buffers
<1>9. Padded(w, stop) \in WriterType /\ Padded(w, stop).color_buf = buf /\ Padded(w, stop).V = w.V
  BY <1>1, <1>5, <1>8 DEF WriterType
<1>10. LET t == Padded(w, stop)
       IN /\ SameWriter(w, t) /\ SameOutput(w, t)
          /\ t.in = w.in /\ t.next_buf_row = stop /\ t.rows_to_go = w.rows_to_go
          /\ t.next_buf_stop = w.next_buf_stop /\ t.this_row_group = w.this_row_group
          /\ t.groups = w.groups
  BY <1>1, <1>5 DEF WriterType, SameWriter, SameOutput
<1>11. WriterTyped(Padded(w, stop))
  BY <1>8, <1>9 DEF WriterTyped
<1> QED
  BY <1>7, <1>9, <1>10, <1>11

-----------------------------------------------------------------------------
(* The buffer of a writer with rows around.  Before the row group that is  *)
(* made next are x rows of the picture; the rows that are there count from *)
(* its first one.                                                          *)

Base(w) == IF w.this_row_group = 2 * w.V THEN 0 ELSE w.this_row_group + w.V
Ahead(w) == w.next_buf_row - Base(w) + w.V

\* Where the buffer's pointers stand.
RingStands(w, x) ==
  /\ w.this_row_group \in {0, w.V, 2 * w.V}
  /\ w.next_buf_stop = Base(w) + w.V
  /\ 0 <= Ahead(w) /\ Ahead(w) <= 2 * w.V
  /\ IF x = 0 THEN w.this_row_group = 0 ELSE w.V <= Ahead(w)

\* The rows of the picture in it, and the one before them.
RingHolds(w, x) ==
  /\ RingStands(w, x)
  /\ w.rows_to_go > 0 => x + Ahead(w) = w.height - w.rows_to_go
  /\ w.rows_to_go = 0 => x + Ahead(w) >= w.height
  /\ x + Ahead(w) > 0 =>
       \A j \in -1 .. Ahead(w) - 1 : w.color_buf[Slot(w, w.this_row_group + j)] = Clamp(x + j, w.height)

LEMMA ClampIs ==
  ASSUME NEW i \in Int, NEW h \in Nat \ {0}
  PROVE  Clamp(i, h) = IF i < 0 THEN 0 ELSE IF i < h THEN i ELSE h - 1
<1>1. Least(i, h - 1) = IF i <= h - 1 THEN i ELSE h - 1
  BY LeastIs
<1> QED
  BY <1>1 DEF Clamp

\* The numbers that the lemmas about a writer need.
LEMMA WriterNumbers ==
  ASSUME NEW w, WriterTyped(w)
  PROVE  /\ w.V \in {1, 2} /\ w.height \in Nat \ {0} /\ w.next_buf_row \in Int /\ w.next_buf_stop \in Int
         /\ w.this_row_group \in Int /\ w.rows_to_go \in Int /\ w.next_scanline \in Int /\ w.in \in Int
         /\ w.groups \in Seq(RowGroup) /\ w.sent \in Seq(RowGroup) /\ w.cur_iMCU_row \in Nat
         /\ w.first \in Int /\ w.suspended \in BOOLEAN /\ w.context \in BOOLEAN
         /\ \A i \in 0 .. 3 * w.V - 1 : w.color_buf[i] \in Int
<1>1. w \in WriterType /\ w.color_buf \in Buffers /\ DOMAIN w.color_buf = 0 .. 3 * w.V - 1
  BY DEF WriterTyped, WriterType
<1>2. \A i \in 0 .. 3 * w.V - 1 : w.color_buf[i] \in Int
  BY <1>1 DEF Buffers
<1>3. w.height \in Nat \ {0}
  BY <1>1, RowsAssumption DEF WriterType
<1> QED
  BY <1>1, <1>2, <1>3 DEF WriterType

\* The slot of a row around the row group.
SlotAt(v, k) == IF k < 0 THEN k + 3 * v ELSE IF k < 3 * v THEN k ELSE k - 3 * v

LEMMA RingSlot ==
  ASSUME NEW w, WriterTyped(w), NEW x \in Nat, RingStands(w, x), NEW j \in -1 .. 2 * w.V - 1
  PROVE  Slot(w, w.this_row_group + j) = SlotAt(w.V, w.this_row_group + j)
<1> DEFINE k == w.this_row_group + j
<1>1. w.V \in {1, 2} /\ w.this_row_group \in {0, w.V, 2 * w.V}
  BY WriterNumbers DEF RingStands
<1>2. k \in Int /\ -3 * w.V <= k /\ k < 6 * w.V
  BY <1>1
<1> HIDE DEF k
<1>3. /\ 0 <= k /\ k < 3 * w.V => Slot(w, k) = k
      /\ -3 * w.V <= k /\ k < 0 => Slot(w, k) = k + 3 * w.V
      /\ 3 * w.V <= k /\ k < 6 * w.V => Slot(w, k) = k - 3 * w.V
  BY <1>1, <1>2, SlotIs
<1>4. Slot(w, k) = SlotAt(w.V, k)
  BY <1>1, <1>2, <1>3 DEF SlotAt
<1> QED
  BY <1>4 DEF k

\* Rows that are taken continue those that are there.
LEMMA RingTakes ==
  ASSUME NEW w, WriterTyped(w), w.context, NEW x \in Nat, RingHolds(w, x), NEW n \in Nat, n > 0,
         n <= w.next_buf_stop - w.next_buf_row, n <= w.rows_to_go,
         w.next_scanline + w.in = w.height - w.rows_to_go
  PROVE  LET t == Take(w, n)
         IN /\ WriterTyped(t) /\ SameWriter(w, t) /\ SameOutput(w, t)
            /\ t.in = w.in + n /\ t.next_buf_row = w.next_buf_row + n /\ t.rows_to_go = w.rows_to_go - n
            /\ t.next_buf_stop = w.next_buf_stop /\ t.this_row_group = w.this_row_group
            /\ t.groups = w.groups
            /\ RingHolds(t, x)
<1> DEFINE t == Take(w, n)
           q == w.this_row_group
           e == Ahead(w)
           T == w.next_scanline + w.in
<1>1. /\ w.V \in {1, 2} /\ w.height \in Nat \ {0} /\ w.next_buf_row \in Int /\ w.next_buf_stop \in Int
      /\ q \in Int /\ w.rows_to_go \in Int /\ T \in Int /\ e \in Int
  <2>1. /\ w.V \in {1, 2} /\ w.height \in Nat \ {0} /\ w.next_buf_row \in Int /\ w.next_buf_stop \in Int
        /\ q \in Int /\ w.rows_to_go \in Int /\ w.next_scanline \in Int /\ w.in \in Int
    BY WriterNumbers
  <2>2. Base(w) \in Int
    BY <2>1 DEF Base
  <2> QED
    BY <2>1, <2>2 DEF Ahead
<1>2. /\ q \in {0, w.V, 2 * w.V} /\ w.next_buf_stop = Base(w) + w.V
      /\ 0 <= e /\ e <= 2 * w.V /\ (x = 0 => q = 0) /\ (x # 0 => w.V <= e)
      /\ x + e = T /\ T = w.height - w.rows_to_go
  BY <1>1 DEF RingHolds, RingStands
<1>3. /\ Base(w) = IF q = 2 * w.V THEN 0 ELSE q + w.V
      /\ w.next_buf_row = e + Base(w) - w.V
  BY <1>1 DEF Base, Ahead
<1>4. 0 <= w.next_buf_row /\ w.next_buf_row + n <= 3 * w.V /\ e + n <= 2 * w.V
  BY <1>1, <1>2, <1>3
<1>5. First(w) => /\ w.next_buf_row = 0 /\ n <= 2 * w.V /\ x = 0 /\ e = 0 /\ q = 0 /\ T = 0
  <2> SUFFICES ASSUME First(w) PROVE w.next_buf_row = 0 /\ n <= 2 * w.V /\ x = 0 /\ e = 0 /\ q = 0 /\ T = 0
    OBVIOUS
  <2>1. T = 0
    BY <1>1, <1>2 DEF First
  <2>2. x = 0 /\ e = 0
    BY <1>1, <1>2, <2>1
  <2>3. q = 0 /\ Base(w) = w.V
    BY <1>1, <1>2, <1>3, <2>2
  <2> QED
    BY <1>1, <1>3, <1>4, <2>1, <2>2, <2>3
<1>6. /\ WriterTyped(t) /\ SameWriter(w, t) /\ SameOutput(w, t)
      /\ t.in = w.in + n /\ t.next_buf_row = w.next_buf_row + n /\ t.rows_to_go = w.rows_to_go - n
      /\ t.next_buf_stop = w.next_buf_stop /\ t.this_row_group = w.this_row_group
      /\ t.groups = w.groups
  BY <1>4, <1>5, TakeIs
<1>7. /\ \A i \in 0 .. n - 1 : t.color_buf[w.next_buf_row + i] = T + i
      /\ ~First(w) => \A i \in 0 .. 3 * w.V - 1 :
           ~(w.next_buf_row <= i /\ i < w.next_buf_row + n) => t.color_buf[i] = w.color_buf[i]
      /\ First(w) => t.color_buf[3 * w.V - 1] = T
  BY <1>4, <1>5, TakeIs
<1> HIDE DEF t
<1>8. t.V = w.V /\ t.height = w.height /\ Ahead(t) = e + n /\ Base(t) = Base(w)
  BY <1>1, <1>6 DEF SameWriter, Ahead, Base
<1>9. RingStands(t, x)
  BY <1>1, <1>2, <1>4, <1>6, <1>8 DEF RingStands
<1>10. RingStands(w, x)
  BY DEF RingHolds
<1>11. ASSUME NEW j \in -1 .. e + n - 1
       PROVE  t.color_buf[Slot(t, q + j)] = Clamp(x + j, w.height)
  <2>1. Slot(t, q + j) = Slot(w, q + j)
    BY <1>8 DEF Slot
  <2>2. j \in -1 .. 2 * w.V - 1
    BY <1>1, <1>2, <1>4
  <2> DEFINE k == q + j
             s == SlotAt(w.V, k)
  <2>3. Slot(w, q + j) = s
    BY <1>10, <2>2, RingSlot
  <2>7. /\ s \in 0 .. 3 * w.V - 1
        /\ j >= e => s = w.next_buf_row + (j - e)
        /\ j < e => s = w.next_buf_row + (j - e) \/ s = w.next_buf_row + (j - e) + 3 * w.V
    <3>1. e \in 0 .. 2 * w.V /\ (q = 0 \/ w.V <= e)
      BY <1>1, <1>2
    <3>2. w.next_buf_row = e + (IF q = 2 * w.V THEN 0 ELSE q + w.V) - w.V
      BY <1>3
    <3>3. w.V \in {1, 2} /\ q \in {0, w.V, 2 * w.V} /\ j \in -1 .. 2 * w.V - 1 /\ e \in Int
      BY <1>1, <1>2, <2>2
    <3>4. CASE w.V = 1
      <4> HIDE DEF e, q
      <4> QED
        BY <3>1, <3>2, <3>3, <3>4 DEF SlotAt
    <3>5. CASE w.V = 2
      <4> HIDE DEF e, q
      <4> QED
        BY <3>1, <3>2, <3>3, <3>5 DEF SlotAt
    <3> QED
      BY <3>3, <3>4, <3>5
  <2>4. CASE j >= e
    <3> DEFINE i == j - e
    <3>1. i \in 0 .. n - 1 /\ s = w.next_buf_row + i /\ T + i = x + j
      <4> HIDE DEF s, T, e
      <4> QED
        BY <1>1, <1>2, <1>4, <2>2, <2>4, <2>7
    <3>2. t.color_buf[s] = x + j
      BY <1>7, <3>1
    <3>3. x + j \in Int /\ 0 <= x + j /\ x + j < w.height
      BY <1>1, <1>2, <2>4
    <3>4. Clamp(x + j, w.height) = x + j
      BY <1>1, <3>3, ClampIs
    <3> QED
      BY <2>1, <2>3, <3>2, <3>4
  <2>5. CASE j < e /\ First(w)
    <3>1. j = -1 /\ x = 0 /\ e = 0 /\ q = 0 /\ T = 0
      BY <1>5, <2>5
    <3>2. s = 3 * w.V - 1 /\ x + j = -1
      BY <1>1, <3>1 DEF SlotAt
    <3>3. t.color_buf[s] = 0
      BY <1>7, <2>5, <3>1, <3>2
    <3>4. Clamp(x + j, w.height) = 0
      BY <1>1, <3>2, ClampIs
    <3> QED
      BY <2>1, <2>3, <3>3, <3>4
  <2>6. CASE j < e /\ ~First(w)
    <3>1. s \in 0 .. 3 * w.V - 1 /\ ~(w.next_buf_row <= s /\ s < w.next_buf_row + n)
      <4>1. /\ s \in 0 .. 3 * w.V - 1
            /\ s = w.next_buf_row + (j - e) \/ s = w.next_buf_row + (j - e) + 3 * w.V
        BY <2>6, <2>7
      <4> HIDE DEF s, e
      <4> QED
        BY <1>1, <1>2, <1>4, <2>2, <2>6, <4>1
    <3>2. t.color_buf[s] = w.color_buf[s]
      BY <1>7, <2>6, <3>1
    <3>3. x + e > 0
      <4>1. w.rows_to_go # w.height
        BY <2>6, Zenon DEF First
      <4> HIDE DEF T, e
      <4> QED
        BY <1>1, <1>2, <4>1
    <3>4. j \in -1 .. e - 1
      BY <1>1, <2>6
    <3>5. w.color_buf[Slot(w, q + j)] = Clamp(x + j, w.height)
      BY <3>3, <3>4 DEF RingHolds
    <3> QED
      BY <2>1, <2>3, <3>2, <3>5
  <2> QED
    BY <1>1, <2>4, <2>5, <2>6
<1>12. /\ t.rows_to_go > 0 => x + Ahead(t) = t.height - t.rows_to_go
       /\ t.rows_to_go = 0 => x + Ahead(t) >= t.height
  BY <1>1, <1>2, <1>6, <1>8
<1>13. \A j \in -1 .. Ahead(t) - 1 : t.color_buf[Slot(t, t.this_row_group + j)] = Clamp(x + j, t.height)
  <2>1. Ahead(t) - 1 = e + n - 1 /\ t.height = w.height /\ t.this_row_group = q
    BY <1>1, <1>6, <1>8 DEF SameWriter
  <2> HIDE DEF e
  <2> QED
    BY <1>11, <2>1
<1>14. RingHolds(t, x)
  BY <1>9, <1>12, <1>13 DEF RingHolds
<1> QED
  BY <1>6, <1>14 DEF t

\* Behind the last row of the picture, it is repeated.
LEMMA RingPads ==
  ASSUME NEW w, WriterTyped(w), NEW x \in Nat, RingHolds(w, x), w.rows_to_go = 0
  PROVE  LET t == Padded(w, w.next_buf_stop)
         IN /\ WriterTyped(t) /\ SameWriter(w, t) /\ SameOutput(w, t)
            /\ t.in = w.in /\ t.next_buf_row = w.next_buf_stop /\ t.rows_to_go = w.rows_to_go
            /\ t.next_buf_stop = w.next_buf_stop /\ t.this_row_group = w.this_row_group
            /\ t.groups = w.groups
            /\ RingHolds(t, x)
<1> DEFINE t == Padded(w, w.next_buf_stop)
           q == w.this_row_group
           e == Ahead(w)
<1>1. /\ w.V \in {1, 2} /\ w.height \in Nat \ {0} /\ w.next_buf_row \in Int /\ w.next_buf_stop \in Int
      /\ q \in Int /\ w.rows_to_go \in Int /\ e \in Int
  BY WriterNumbers DEF Ahead, Base
<1>2. /\ q \in {0, w.V, 2 * w.V} /\ w.next_buf_stop = Base(w) + w.V
      /\ 0 <= e /\ e <= 2 * w.V /\ (x = 0 => q = 0) /\ (x # 0 => w.V <= e)
      /\ x + e >= w.height
  BY <1>1 DEF RingHolds, RingStands
<1>3. /\ Base(w) = IF q = 2 * w.V THEN 0 ELSE q + w.V
      /\ w.next_buf_row = e + Base(w) - w.V
  BY <1>1 DEF Base, Ahead
<1>4. 0 <= w.next_buf_row /\ w.next_buf_row <= w.next_buf_stop /\ w.next_buf_stop <= 3 * w.V
  BY <1>1, <1>2, <1>3
<1>6. /\ WriterTyped(t) /\ SameWriter(w, t) /\ SameOutput(w, t)
      /\ t.in = w.in /\ t.next_buf_row = w.next_buf_stop /\ t.rows_to_go = w.rows_to_go
      /\ t.next_buf_stop = w.next_buf_stop /\ t.this_row_group = w.this_row_group
      /\ t.groups = w.groups
  BY <1>1, <1>4, PaddedIs
<1>7. \A i \in 0 .. 3 * w.V - 1 :
        t.color_buf[i] = IF w.next_buf_row <= i /\ i < w.next_buf_stop
                         THEN w.color_buf[Slot(w, w.next_buf_row - 1)] ELSE w.color_buf[i]
  BY <1>1, <1>4, PaddedIs
<1> HIDE DEF t
<1>8. t.V = w.V /\ t.height = w.height /\ Ahead(t) = 2 * w.V /\ Base(t) = Base(w)
  BY <1>1, <1>2, <1>3, <1>6 DEF SameWriter, Ahead, Base
<1>9. RingStands(t, x)
  BY <1>1, <1>2, <1>4, <1>6, <1>8 DEF RingStands
<1>10. RingStands(w, x) /\ \A j \in -1 .. e - 1 : w.color_buf[Slot(w, q + j)] = Clamp(x + j, w.height)
  BY <1>1, <1>2 DEF RingHolds
<1>11. w.color_buf[Slot(w, w.next_buf_row - 1)] = w.height - 1
  <2> DEFINE k == q + (e - 1)
             s == SlotAt(w.V, k)
  <2>1. e - 1 \in -1 .. e - 1 /\ e - 1 \in -1 .. 2 * w.V - 1
    BY <1>1, <1>2
  <2>2. w.color_buf[Slot(w, q + (e - 1))] = Clamp(x + (e - 1), w.height)
    BY <1>10, <2>1
  <2>3. Slot(w, q + (e - 1)) = s
    BY <1>10, <2>1, RingSlot
  <2> DEFINE m == w.next_buf_row - 1
  <2>4. m \in Int /\ (m = s \/ (m < 0 /\ -3 * w.V <= m /\ s = m + 3 * w.V)) /\ s \in 0 .. 3 * w.V - 1
    <3> DEFINE j == e - 1
    <3>1. e \in 0 .. 2 * w.V /\ (q = 0 \/ w.V <= e)
      BY <1>1, <1>2
    <3>2. w.next_buf_row = e + (IF q = 2 * w.V THEN 0 ELSE q + w.V) - w.V
      BY <1>3
    <3>3. j \in -1 .. 2 * w.V - 1 /\ j < e /\ j - e = -1
      BY <1>1, <1>2
    <3>4. s \in 0 .. 3 * w.V - 1 /\ (s = w.next_buf_row + (j - e) \/ s = w.next_buf_row + (j - e) + 3 * w.V)
      <4>1. w.V \in {1, 2} /\ q \in {0, w.V, 2 * w.V} /\ e \in Int
        BY <1>1, <1>2
      <4>2. CASE w.V = 1
        <5> HIDE DEF e, q, j
        <5> QED
          BY <3>1, <3>2, <3>3, <4>1, <4>2 DEF SlotAt
      <4>3. CASE w.V = 2
        <5> HIDE DEF e, q, j
        <5> QED
          BY <3>1, <3>2, <3>3, <4>1, <4>3 DEF SlotAt
      <4> QED
        BY <4>1, <4>2, <4>3
    <3> HIDE DEF s, j, e
    <3> QED
      BY <1>1, <1>4, <3>3, <3>4
  <2> HIDE DEF m, s
  <2>5. /\ 0 <= m /\ m < 3 * w.V => Slot(w, m) = m
        /\ -3 * w.V <= m /\ m < 0 => Slot(w, m) = m + 3 * w.V
    BY <1>1, <2>4, SlotIs
  <2>6. Slot(w, m) = s
    BY <1>1, <2>4, <2>5
  <2>7. x + (e - 1) \in Int /\ 0 <= x + (e - 1) /\ x + (e - 1) >= w.height - 1
    BY <1>1, <1>2
  <2>8. Clamp(x + (e - 1), w.height) = w.height - 1
    BY <1>1, <2>7, ClampIs
  <2> QED
    BY <2>2, <2>3, <2>6, <2>8 DEF m
<1>12. ASSUME NEW j \in -1 .. 2 * w.V - 1
       PROVE  t.color_buf[Slot(t, q + j)] = Clamp(x + j, w.height)
  <2>1. Slot(t, q + j) = Slot(w, q + j)
    BY <1>8 DEF Slot
  <2> DEFINE k == q + j
             s == SlotAt(w.V, k)
  <2>2. Slot(w, q + j) = s
    BY <1>10, RingSlot
  <2>6. /\ s \in 0 .. 3 * w.V - 1
        /\ j >= e => s = w.next_buf_row + (j - e)
        /\ j < e => s = w.next_buf_row + (j - e) \/ s = w.next_buf_row + (j - e) + 3 * w.V
    <3>1. e \in 0 .. 2 * w.V /\ (q = 0 \/ w.V <= e)
      BY <1>1, <1>2
    <3>2. w.next_buf_row = e + (IF q = 2 * w.V THEN 0 ELSE q + w.V) - w.V
      BY <1>3
    <3>3. w.V \in {1, 2} /\ q \in {0, w.V, 2 * w.V} /\ j \in -1 .. 2 * w.V - 1 /\ e \in Int
      BY <1>1, <1>2
    <3>4. CASE w.V = 1
      <4> HIDE DEF e, q
      <4> QED
        BY <3>1, <3>2, <3>3, <3>4 DEF SlotAt
    <3>5. CASE w.V = 2
      <4> HIDE DEF e, q
      <4> QED
        BY <3>1, <3>2, <3>3, <3>5 DEF SlotAt
    <3> QED
      BY <3>3, <3>4, <3>5
  <2>3. s \in 0 .. 3 * w.V - 1
    BY <2>6
  <2>4. CASE j >= e
    <3>1. w.next_buf_row <= s /\ s < w.next_buf_stop
      <4>1. s = w.next_buf_row + (j - e)
        BY <2>4, <2>6
      <4>2. w.next_buf_row - e + 2 * w.V = w.next_buf_stop
        BY <1>1, <1>2, <1>3
      <4> HIDE DEF s, e
      <4> QED
        BY <1>1, <1>2, <2>4, <4>1, <4>2
    <3>2. t.color_buf[s] = w.height - 1
      BY <1>7, <1>11, <2>3, <3>1
    <3>3. x + j \in Int /\ 0 <= x + j /\ x + j >= w.height
      BY <1>1, <1>2, <2>4
    <3>4. Clamp(x + j, w.height) = w.height - 1
      BY <1>1, <3>3, ClampIs
    <3> QED
      BY <2>1, <2>2, <3>2, <3>4
  <2>5. CASE j < e
    <3>1. ~(w.next_buf_row <= s /\ s < w.next_buf_stop)
      <4>1. s = w.next_buf_row + (j - e) \/ s = w.next_buf_row + (j - e) + 3 * w.V
        BY <2>5, <2>6
      <4>2. w.next_buf_row - e + 2 * w.V = w.next_buf_stop
        BY <1>1, <1>2, <1>3
      <4> HIDE DEF s, e
      <4> QED
        BY <1>1, <1>2, <2>5, <4>1, <4>2
    <3>2. t.color_buf[s] = w.color_buf[s]
      BY <1>7, <2>3, <3>1
    <3>3. j \in -1 .. e - 1
      BY <1>1, <2>5
    <3> QED
      BY <1>10, <2>1, <2>2, <3>2, <3>3
  <2> QED
    BY <1>1, <2>4, <2>5
<1>13. /\ t.rows_to_go > 0 => x + Ahead(t) = t.height - t.rows_to_go
       /\ t.rows_to_go = 0 => x + Ahead(t) >= t.height
  BY <1>1, <1>2, <1>6, <1>8
<1>14. \A j \in -1 .. Ahead(t) - 1 : t.color_buf[Slot(t, t.this_row_group + j)] = Clamp(x + j, t.height)
  <2> HIDE DEF e
  <2>1. Ahead(t) - 1 = 2 * w.V - 1 /\ t.height = w.height /\ t.this_row_group = q
    BY <1>6, <1>8 DEF SameWriter
  <2> QED
    BY <1>12, <2>1
<1>15. RingHolds(t, x)
  BY <1>9, <1>13, <1>14 DEF RingHolds
<1> QED
  BY <1>6, <1>15 DEF t

\* The row group from row x on.
GroupFrom(w, x) ==
  LET c(i) == Clamp(x + i, w.height)
  IN [rows |-> [j \in 1 .. w.V |-> c(j - 1)], around |-> IF w.context THEN <<c(-1), c(w.V)>> ELSE <<>>]

\* When the buffer is full to its stop, what the downsampler gets is the row group.
LEMMA RingGroup ==
  ASSUME NEW w, WriterTyped(w), w.context, NEW x \in Nat, RingHolds(w, x), Ahead(w) = 2 * w.V
  PROVE  Group(w, w.this_row_group) = GroupFrom(w, x) /\ Group(w, w.this_row_group) \in RowGroup
<1> DEFINE q == w.this_row_group
           c(i) == Clamp(x + i, w.height)
<1>1. w.V \in {1, 2} /\ w.height \in Nat \ {0} /\ q \in Int
  BY WriterNumbers
<1>2. ASSUME NEW j \in -1 .. 2 * w.V - 1 PROVE w.color_buf[Slot(w, q + j)] = c(j)
  BY <1>1 DEF RingHolds
<1>3. ASSUME NEW i \in Int PROVE c(i) \in Int
  <2>1. x + i \in Int
    OBVIOUS
  <2> QED
    BY <1>1, <2>1, ClampIs
<1> DEFINE b(j) == w.color_buf[Slot(w, j)]
<1>4. Group(w, q) = [rows |-> [j \in 1 .. w.V |-> b(q + j - 1)], around |-> <<b(q - 1), b(q + w.V)>>]
  BY DEF Group
<1>5. ASSUME NEW j \in 1 .. w.V PROVE b(q + j - 1) = c(j - 1)
  <2>1. j - 1 \in -1 .. 2 * w.V - 1 /\ q + j - 1 = q + (j - 1)
    BY <1>1
  <2> QED
    BY <1>2, <2>1
<1>6. b(q - 1) = c(-1) /\ b(q + w.V) = c(w.V)
  <2>1. -1 \in -1 .. 2 * w.V - 1 /\ q - 1 = q + (-1) /\ w.V \in -1 .. 2 * w.V - 1
    BY <1>1
  <2> QED
    BY <1>2, <2>1
<1>7. GroupFrom(w, x) = [rows |-> [j \in 1 .. w.V |-> c(j - 1)], around |-> <<c(-1), c(w.V)>>]
  BY DEF GroupFrom
<1> HIDE DEF b, c
<1>8. [j \in 1 .. w.V |-> b(q + j - 1)] = [j \in 1 .. w.V |-> c(j - 1)]
  BY <1>5
<1>9. Group(w, q) = GroupFrom(w, x)
  BY <1>4, <1>6, <1>7, <1>8
<1>10. [j \in 1 .. w.V |-> c(j - 1)] \in Seq(Int)
  <2>1. \A j \in 1 .. w.V : c(j - 1) \in Int
    BY <1>1, <1>3
  <2> QED
    BY <1>1, <2>1
<1>11. <<c(-1), c(w.V)>> \in Seq(Int)
  <2>1. c(-1) \in Int /\ c(w.V) \in Int
    BY <1>1, <1>3
  <2> QED
    BY <2>1
<1> QED
  BY <1>7, <1>9, <1>10, <1>11 DEF RowGroup

\* The pointers go on to the next row group, and around.
LEMMA RingGoesOn ==
  ASSUME NEW w, WriterTyped(w), NEW x \in Nat, RingHolds(w, x), Ahead(w) = 2 * w.V, NEW groups \in Seq(RowGroup)
  PROVE  LET row == Wrapped(w, w.next_buf_row)
             t == [w EXCEPT !.groups = groups, !.this_row_group = Wrapped(w, @ + w.V),
                            !.next_buf_row = row, !.next_buf_stop = row + w.V]
         IN /\ WriterTyped(t) /\ SameWriter(w, t) /\ SameOutput(w, t)
            /\ t.in = w.in /\ t.rows_to_go = w.rows_to_go /\ t.groups = groups
            /\ RingHolds(t, x + w.V) /\ Ahead(t) = w.V
<1> DEFINE q == w.this_row_group
           row == Wrapped(w, w.next_buf_row)
           p == Wrapped(w, q + w.V)
           t == [w EXCEPT !.groups = groups, !.this_row_group = p, !.next_buf_row = row, !.next_buf_stop = row + w.V]
<1>1. /\ w.V \in {1, 2} /\ w.height \in Nat \ {0} /\ w.next_buf_row \in Int /\ w.next_buf_stop \in Int
      /\ q \in Int /\ w.rows_to_go \in Int
  BY WriterNumbers
<1>2. /\ q \in {0, w.V, 2 * w.V} /\ w.next_buf_stop = Base(w) + w.V
  BY DEF RingHolds, RingStands
<1>3. /\ Base(w) = IF q = 2 * w.V THEN 0 ELSE q + w.V
      /\ w.next_buf_row = Base(w) + w.V
  <2>1. Base(w) = IF q = 2 * w.V THEN 0 ELSE q + w.V
    BY DEF Base
  <2>2. Base(w) \in Int
    BY <1>1, <2>1
  <2> QED
    BY <1>1, <2>1, <2>2 DEF Ahead
<1>4. p = Base(w) /\ p \in {0, w.V, 2 * w.V} /\ row = IF p = 2 * w.V THEN 0 ELSE p + w.V
  <2>1. p = Base(w) /\ p \in {0, w.V, 2 * w.V}
    BY <1>1, <1>2, <1>3 DEF Wrapped
  <2>2. w.next_buf_row = p + w.V
    BY <1>3, <2>1
  <2>3. row = IF p = 2 * w.V THEN 0 ELSE p + w.V
    <3> HIDE DEF p
    <3> QED
      BY <1>1, <2>1, <2>2 DEF Wrapped
  <2> QED
    BY <2>1, <2>3
<1>5. p \in Int /\ row \in Int /\ row + w.V \in Int
  BY <1>1, <1>4
<1> HIDE DEF p, row
<1>6. w \in WriterType /\ DOMAIN w.color_buf = 0 .. 3 * w.V - 1
  BY DEF WriterTyped
<1>7. /\ t \in WriterType /\ SameWriter(w, t) /\ SameOutput(w, t) /\ t.color_buf = w.color_buf
      /\ t.in = w.in /\ t.rows_to_go = w.rows_to_go /\ t.groups = groups
      /\ t.this_row_group = p /\ t.next_buf_row = row /\ t.next_buf_stop = row + w.V
  BY <1>5, <1>6 DEF WriterType, SameWriter, SameOutput
<1> HIDE DEF t
<1>8. t.V = w.V /\ t.height = w.height
  BY <1>7 DEF SameWriter
<1>9. WriterTyped(t)
  BY <1>6, <1>7, <1>8 DEF WriterTyped
<1>10. Base(t) = row /\ Ahead(t) = w.V
  <2>1. Base(t) = row
    BY <1>4, <1>7, <1>8 DEF Base
  <2> QED
    BY <1>1, <1>5, <1>7, <1>8, <2>1 DEF Ahead
<1>11. RingStands(t, x + w.V)
  BY <1>1, <1>4, <1>7, <1>8, <1>10 DEF RingStands
<1>12. /\ t.rows_to_go > 0 => x + w.V + Ahead(t) = t.height - t.rows_to_go
       /\ t.rows_to_go = 0 => x + w.V + Ahead(t) >= t.height
  BY <1>1, <1>7, <1>8, <1>10 DEF RingHolds
<1>13. ASSUME NEW j \in -1 .. w.V - 1
       PROVE  t.color_buf[Slot(t, p + j)] = Clamp(x + w.V + j, w.height)
  <2> DEFINE i == w.V + j
  <2>1. i \in -1 .. 2 * w.V - 1 /\ j \in -1 .. 2 * w.V - 1 /\ x + w.V + j = x + i
    <3>1. w.V \in {1, 2} /\ x \in Int
      BY <1>1
    <3>2. CASE w.V = 1
      BY <3>1, <3>2
    <3>3. CASE w.V = 2
      BY <3>1, <3>3
    <3> QED
      BY <3>1, <3>2, <3>3
  <2>2. w.color_buf[Slot(w, q + i)] = Clamp(x + i, w.height)
    <3> HIDE DEF i
    <3> QED
      BY <1>1, <2>1 DEF RingHolds
  <2>3. Slot(w, q + i) = SlotAt(w.V, q + i)
    <3>1. RingStands(w, x)
      BY DEF RingHolds
    <3> HIDE DEF i
    <3> QED
      BY <2>1, <3>1, RingSlot
  <2>4. Slot(t, p + j) = SlotAt(w.V, p + j)
    <3>1. x + w.V \in Nat
      BY <1>1
    <3> QED
      BY <1>7, <1>8, <1>9, <1>11, <2>1, <3>1, RingSlot
  <2>5. SlotAt(w.V, p + j) = SlotAt(w.V, q + i)
    <3>1. q \in {0, w.V, 2 * w.V} /\ p = (IF q = 2 * w.V THEN 0 ELSE q + w.V) /\ j \in -1 .. w.V - 1
      BY <1>2, <1>3, <1>4
    <3> HIDE DEF q
    <3>2. CASE w.V = 1
      BY <3>1, <3>2 DEF SlotAt
    <3>3. CASE w.V = 2
      BY <3>1, <3>3 DEF SlotAt
    <3> QED
      BY <1>1, <3>2, <3>3
  <2> QED
    BY <1>7, <2>1, <2>2, <2>3, <2>4, <2>5
<1>14. RingHolds(t, x + w.V)
  <2>1. Ahead(t) - 1 = w.V - 1
    BY <1>10
  <2> QED
    BY <1>7, <1>8, <1>11, <1>12, <1>13, <2>1 DEF RingHolds
<1>15. t = [w EXCEPT !.groups = groups, !.this_row_group = Wrapped(w, @ + w.V),
                     !.next_buf_row = Wrapped(w, w.next_buf_row), !.next_buf_stop = Wrapped(w, w.next_buf_row) + w.V]
  BY DEF t, p, row
<1> QED
  BY <1>7, <1>9, <1>10, <1>14, <1>15

-----------------------------------------------------------------------------
(* The rounds of a call.                                                   *)

\* Row groups, the first of which is g.
GroupsHold(w, groups, g) ==
  \A i \in DOMAIN groups : (g + i - 1) * w.V < w.height => groups[i] = Wanted(w, g + i - 1)

LEMMA TimesV ==
  ASSUME NEW k \in Nat, NEW v \in {1, 2}
  PROVE  k * v \in Nat /\ (k + 1) * v = k * v + v
<1>1. CASE v = 1
  BY <1>1
<1>2. CASE v = 2
  BY <1>2
<1> QED
  BY <1>1, <1>2

LEMMA WantedIs ==
  ASSUME NEW w, NEW g
  PROVE  Wanted(w, g) = GroupFrom(w, g * w.V)
BY DEF Wanted, GroupFrom

LEMMA SameWanted ==
  ASSUME NEW w, NEW u, SameWriter(w, u), NEW g
  PROVE  Wanted(u, g) = Wanted(w, g)
BY DEF Wanted, SameWriter

LEMMA GroupsStay ==
  ASSUME NEW w, NEW u, SameWriter(w, u), NEW groups, NEW g, GroupsHold(w, groups, g)
  PROVE  GroupsHold(u, groups, g)
<1> SUFFICES ASSUME NEW i \in DOMAIN groups, (g + i - 1) * u.V < u.height
             PROVE  groups[i] = Wanted(u, g + i - 1)
  BY DEF GroupsHold
<1>1. (g + i - 1) * w.V < w.height
  BY DEF SameWriter
<1>2. groups[i] = Wanted(w, g + i - 1)
  BY <1>1 DEF GroupsHold
<1> QED
  BY <1>2, SameWanted

LEMMA GroupsGrow ==
  ASSUME NEW w, NEW groups \in Seq(RowGroup), NEW g \in Nat, GroupsHold(w, groups, g),
         NEW next \in RowGroup,
         (g + Len(groups)) * w.V < w.height => next = Wanted(w, g + Len(groups))
  PROVE  /\ Append(groups, next) \in Seq(RowGroup) /\ Len(Append(groups, next)) = Len(groups) + 1
         /\ GroupsHold(w, Append(groups, next), g)
<1> DEFINE all == Append(groups, next)
<1>1. all \in Seq(RowGroup) /\ Len(all) = Len(groups) + 1 /\ Len(groups) \in Nat
  OBVIOUS
<1>2. ASSUME NEW i \in DOMAIN all, (g + i - 1) * w.V < w.height
      PROVE  all[i] = Wanted(w, g + i - 1)
  <2>1. CASE i = Len(groups) + 1
    <3>1. all[i] = next /\ g + i - 1 = g + Len(groups)
      BY <1>1, <2>1
    <3> QED
      BY <1>2, <3>1
  <2>2. CASE i # Len(groups) + 1
    <3>1. i \in DOMAIN groups /\ all[i] = groups[i]
      BY <1>1, <2>2
    <3> QED
      BY <1>2, <3>1 DEF GroupsHold
  <2> QED
    BY <2>1, <2>2
<1> HIDE DEF all
<1>3. GroupsHold(w, all, g)
  BY <1>2 DEF GroupsHold
<1> QED
  BY <1>1, <1>3 DEF all

\* In a call, the groups of the iMCU row count from g.
CallHolds(w, g, avail) ==
  /\ WriterTyped(w) /\ Len(w.groups) <= DCTSIZE /\ GroupsHold(w, w.groups, g)
  /\ w.next_scanline + w.in = w.height - w.rows_to_go /\ 0 <= w.rows_to_go
  /\ w.in <= avail /\ avail - w.in <= w.rows_to_go

ContextHolds(w, g) ==
  LET x == (g + Len(w.groups)) * w.V
  IN w.context /\ RingHolds(w, x) /\ Ahead(w) < 2 * w.V

\* A round makes a row group at least, or takes the last rows.
Progress(w, u, avail) ==
  /\ w.in <= u.in
  /\ Len(u.groups) > Len(w.groups) \/ (Len(u.groups) = Len(w.groups) /\ w.in < avail /\ u.in = avail)

LEMMA RoundOfContextHolds ==
  ASSUME NEW w, NEW g \in Nat, NEW avail \in Int,
         CallHolds(w, g, avail), ContextHolds(w, g), ~NoMoreContext(w, avail)
  PROVE  LET t == RoundOfContext(w, avail)
         IN /\ SameWriter(w, t) /\ SameOutput(w, t) /\ Progress(w, t, avail)
            /\ CallHolds(t, g, avail) /\ ContextHolds(t, g)
<1> DEFINE k == Len(w.groups)
           x == (g + k) * w.V
           n == Least(w.next_buf_stop - w.next_buf_row, avail - w.in)
           fed == IF w.in < avail THEN Take(w, n) ELSE Padded(w, w.next_buf_stop)
           groups == Append(fed.groups, Group(fed, fed.this_row_group))
           out == [fed EXCEPT !.groups = groups,
                              !.this_row_group = Wrapped(fed, @ + fed.V),
                              !.next_buf_row = Wrapped(fed, fed.next_buf_row),
                              !.next_buf_stop = Wrapped(fed, fed.next_buf_row) + fed.V]
<1>1. /\ w.V \in {1, 2} /\ w.height \in Nat \ {0} /\ w.next_buf_row \in Int /\ w.next_buf_stop \in Int
      /\ w.this_row_group \in Int /\ w.rows_to_go \in Int /\ w.next_scanline \in Int /\ w.in \in Int
  <2>1. WriterTyped(w)
    BY DEF CallHolds
  <2> QED
    BY <2>1, WriterNumbers
<1>15. w.groups \in Seq(RowGroup) /\ k \in Nat
  <2>1. WriterTyped(w)
    BY DEF CallHolds
  <2>2. w.groups \in Seq(RowGroup)
    BY <2>1, WriterNumbers
  <2> QED
    BY <2>2
<1>2. g + k \in Nat /\ x \in Nat /\ (g + (k + 1)) * w.V = x + w.V
  <2>1. g + k \in Nat /\ g + (k + 1) = (g + k) + 1
    BY <1>15
  <2> QED
    BY <1>1, <2>1, TimesV
<1>3. /\ WriterTyped(w) /\ k <= DCTSIZE /\ GroupsHold(w, w.groups, g)
      /\ w.next_scanline + w.in = w.height - w.rows_to_go /\ 0 <= w.rows_to_go
      /\ w.in <= avail /\ avail - w.in <= w.rows_to_go
      /\ w.context /\ RingHolds(w, x) /\ Ahead(w) < 2 * w.V
  BY DEF CallHolds, ContextHolds
<1>4. k < DCTSIZE /\ (w.in < avail \/ w.rows_to_go = 0)
  <2>1. k # DCTSIZE /\ ~(w.in = avail /\ w.rows_to_go # 0)
    BY DEF NoMoreContext
  <2> HIDE DEF k
  <2>2. k < DCTSIZE
    BY <1>3, <1>15, <2>1, RowsAssumption
  <2>3. w.in <= avail /\ w.in \in Int
    BY <1>1, <1>3
  <2>4. w.in < avail \/ w.in = avail
    BY <2>3
  <2> QED
    BY <2>1, <2>2, <2>4
<1>5. w.next_buf_row < w.next_buf_stop /\ w.next_buf_stop - w.next_buf_row = 2 * w.V - Ahead(w)
  <2>1. w.next_buf_stop = Base(w) + w.V
    BY <1>3 DEF RingHolds, RingStands
  <2>2. Base(w) \in Int
    BY <1>1 DEF Base
  <2>3. Ahead(w) = w.next_buf_row - Base(w) + w.V /\ Ahead(w) < 2 * w.V
    BY <1>3 DEF Ahead
  <2> QED
    BY <1>1, <2>1, <2>2, <2>3
<1>6. /\ n \in Int /\ n <= w.next_buf_stop - w.next_buf_row /\ n <= avail - w.in
      /\ n = w.next_buf_stop - w.next_buf_row \/ n = avail - w.in
      /\ w.in < avail => n > 0
  <2> DEFINE a == w.next_buf_stop - w.next_buf_row
             b == avail - w.in
  <2>1. a \in Int /\ b \in Int /\ a > 0
    BY <1>1, <1>5
  <2> HIDE DEF a, b
  <2>2. n = IF a <= b THEN a ELSE b
    BY <2>1, LeastIs DEF a, b
  <2>3. w.in < avail => b > 0
    BY <1>1 DEF b
  <2> HIDE DEF n
  <2>4. n \in Int /\ n <= a /\ n <= b /\ (n = a \/ n = b) /\ (w.in < avail => n > 0)
    BY <2>1, <2>2, <2>3
  <2> QED
    BY <2>4 DEF a, b
<1> HIDE DEF n, x
<1>7. /\ WriterTyped(fed) /\ SameWriter(w, fed) /\ SameOutput(w, fed)
      /\ fed.in + fed.rows_to_go = w.in + w.rows_to_go /\ w.in <= fed.in /\ fed.in <= avail
      /\ fed.groups = w.groups /\ RingHolds(fed, x)
      /\ fed.next_buf_stop = w.next_buf_stop /\ fed.this_row_group = w.this_row_group
      /\ fed.next_buf_row = fed.next_buf_stop \/ (w.in < avail /\ fed.in = avail /\ fed.next_buf_row < fed.next_buf_stop)
  <2>1. CASE w.in < avail
    <3>1. n \in Nat /\ n > 0 /\ n <= w.rows_to_go
      BY <1>1, <1>3, <1>6, <2>1
    <3> DEFINE t == Take(w, n)
    <3>2. /\ WriterTyped(t) /\ SameWriter(w, t) /\ SameOutput(w, t)
          /\ t.in = w.in + n /\ t.next_buf_row = w.next_buf_row + n /\ t.rows_to_go = w.rows_to_go - n
          /\ t.next_buf_stop = w.next_buf_stop /\ t.this_row_group = w.this_row_group
          /\ t.groups = w.groups
          /\ RingHolds(t, x)
      BY <1>2, <1>3, <1>6, <3>1, RingTakes
    <3>3. fed = t
      BY <2>1
    <3> HIDE DEF t, fed
    <3>4. /\ t.in + t.rows_to_go = w.in + w.rows_to_go /\ w.in <= t.in /\ t.in <= avail
          /\ n = avail - w.in => t.in = avail
      BY <1>1, <1>6, <3>1, <3>2
    <3>5. t.next_buf_row <= t.next_buf_stop /\ (n # avail - w.in => t.next_buf_row = t.next_buf_stop)
      BY <1>1, <1>6, <3>1, <3>2
    <3>6. t.next_buf_row = t.next_buf_stop \/ (t.in = avail /\ t.next_buf_row < t.next_buf_stop)
      BY <1>1, <3>1, <3>2, <3>4, <3>5
    <3> QED
      BY <2>1, <3>2, <3>3, <3>4, <3>6
  <2>2. CASE ~(w.in < avail)
    <3> DEFINE t == Padded(w, w.next_buf_stop)
    <3>1. /\ WriterTyped(t) /\ SameWriter(w, t) /\ SameOutput(w, t)
          /\ t.in = w.in /\ t.next_buf_row = w.next_buf_stop /\ t.rows_to_go = w.rows_to_go
          /\ t.next_buf_stop = w.next_buf_stop /\ t.this_row_group = w.this_row_group
          /\ t.groups = w.groups
          /\ RingHolds(t, x)
      BY <1>2, <1>3, <1>4, <2>2, RingPads
    <3>2. fed = t
      BY <2>2
    <3> HIDE DEF t, fed
    <3>3. w.in <= w.in
      BY <1>1
    <3> QED
      BY <1>3, <3>1, <3>2, <3>3
  <2> QED
    BY <2>1, <2>2
<1>8. RoundOfContext(w, avail) = IF fed.next_buf_row = fed.next_buf_stop THEN out ELSE fed
  <2>1. RoundOfContext(w, avail) = Downsampled(fed)
    BY DEF RoundOfContext, n
  <2> HIDE DEF fed
  <2> QED
    BY <2>1 DEF Downsampled
<1>9. /\ fed.next_buf_row \in Int /\ fed.next_buf_stop \in Int /\ fed.rows_to_go \in Int
      /\ fed.in \in Int /\ fed.V = w.V /\ fed.height = w.height /\ fed.context = w.context
  <2>1. /\ fed.next_buf_row \in Int /\ fed.next_buf_stop \in Int /\ fed.rows_to_go \in Int /\ fed.in \in Int
    <3> HIDE DEF fed
    <3> QED
      BY <1>7, WriterNumbers
  <2>2. fed.V = w.V /\ fed.height = w.height /\ fed.context = w.context
    <3> HIDE DEF fed
    <3> QED
      BY <1>7 DEF SameWriter
  <2> QED
    BY <2>1, <2>2
<1> HIDE DEF fed
<1>10. Ahead(fed) = 2 * w.V - (fed.next_buf_stop - fed.next_buf_row)
  <2>1. fed.next_buf_stop = Base(fed) + w.V
    BY <1>7, <1>9 DEF RingHolds, RingStands
  <2>2. Base(fed) \in Int
    <3>1. fed.this_row_group \in Int
      BY <1>7, WriterNumbers
    <3>2. fed.V \in Int
      BY <1>1, <1>9
    <3> QED
      BY <3>1, <3>2 DEF Base
  <2>3. Ahead(fed) = fed.next_buf_row - Base(fed) + w.V
    BY <1>9 DEF Ahead
  <2> QED
    BY <1>1, <1>9, <2>1, <2>2, <2>3
<1>11. fed.rows_to_go >= 0 /\ fed.next_scanline = w.next_scanline
       /\ fed.next_scanline + fed.in = fed.height - fed.rows_to_go /\ avail - fed.in <= fed.rows_to_go
  <2>1. fed.next_scanline = w.next_scanline
    BY <1>7 DEF SameOutput
  <2>2. fed.in + fed.rows_to_go = w.in + w.rows_to_go /\ fed.in <= avail
    BY <1>7
  <2>3. w.next_scanline + w.in = w.height - w.rows_to_go /\ avail - w.in <= w.rows_to_go
    BY <1>3
  <2>4. fed.rows_to_go >= 0 /\ avail - fed.in <= fed.rows_to_go
    BY <1>1, <1>9, <2>2, <2>3
  <2>5. w.next_scanline + fed.in = w.height - fed.rows_to_go
    BY <1>1, <1>9, <2>2, <2>3
  <2> QED
    BY <1>9, <2>1, <2>4, <2>5
<1>12. GroupsHold(fed, w.groups, g)
  BY <1>3, <1>7, GroupsStay
<1>13. CASE fed.next_buf_row = fed.next_buf_stop
  <2> DEFINE t == [fed EXCEPT !.groups = groups, !.this_row_group = Wrapped(fed, @ + fed.V),
                              !.next_buf_row = Wrapped(fed, fed.next_buf_row),
                              !.next_buf_stop = Wrapped(fed, fed.next_buf_row) + fed.V]
  <2>1. Ahead(fed) = 2 * w.V
    BY <1>1, <1>9, <1>10, <1>13
  <2>2. Group(fed, fed.this_row_group) = GroupFrom(fed, x) /\ Group(fed, fed.this_row_group) \in RowGroup
    BY <1>2, <1>3, <1>7, <1>9, <2>1, RingGroup
  <2>3. GroupFrom(fed, x) = Wanted(fed, g + k)
    BY <1>9, WantedIs DEF x
  <2>4. groups \in Seq(RowGroup) /\ Len(groups) = k + 1 /\ GroupsHold(fed, groups, g)
    <3> DEFINE next == Group(fed, fed.this_row_group)
    <3>1. next \in RowGroup /\ next = Wanted(fed, g + k)
      BY <2>2, <2>3
    <3> HIDE DEF next
    <3>2. LET all == Append(w.groups, next)
          IN all \in Seq(RowGroup) /\ Len(all) = k + 1 /\ GroupsHold(fed, all, g)
      BY <1>12, <1>15, <3>1, GroupsGrow
    <3>3. groups = Append(w.groups, next)
      BY <1>7 DEF next
    <3> QED
      BY <3>2, <3>3
  <2> HIDE DEF groups
  <2>5. /\ WriterTyped(t) /\ SameWriter(fed, t) /\ SameOutput(fed, t)
        /\ t.in = fed.in /\ t.rows_to_go = fed.rows_to_go /\ t.groups = groups
        /\ RingHolds(t, x + fed.V) /\ Ahead(t) = fed.V
    BY <1>2, <1>7, <1>9, <2>1, <2>4, RingGoesOn
  <2>7. out = t
    OBVIOUS
  <2> HIDE DEF t, out
  <2>8. RoundOfContext(w, avail) = t
    BY <1>8, <1>13, <2>7
  <2>9. SameWriter(w, t) /\ SameOutput(w, t)
    BY <1>7, <2>5 DEF SameWriter, SameOutput
  <2>10. Progress(w, t, avail)
    BY <1>7, <1>15, <2>4, <2>5 DEF Progress
  <2>11. GroupsHold(t, t.groups, g)
    BY <2>4, <2>5, GroupsStay
  <2>12. t.height = w.height /\ t.V = w.V /\ t.context /\ t.next_scanline = w.next_scanline
    BY <1>3, <2>9 DEF SameWriter, SameOutput
  <2>13. CallHolds(t, g, avail)
    <3>1. Len(t.groups) <= DCTSIZE
      BY <1>4, <1>15, <2>4, <2>5, RowsAssumption
    <3> QED
      BY <1>3, <1>7, <1>9, <1>11, <2>5, <2>11, <2>12, <3>1 DEF CallHolds
  <2>14. ContextHolds(t, g)
    <3>1. (g + Len(t.groups)) * t.V = x + fed.V
      BY <1>2, <1>9, <2>4, <2>5, <2>12
    <3>2. Ahead(t) < 2 * t.V
      BY <1>1, <1>9, <2>5, <2>12
    <3> QED
      BY <2>5, <2>12, <3>1, <3>2 DEF ContextHolds
  <2> QED
    BY <2>8, <2>9, <2>10, <2>13, <2>14
<1>14. CASE fed.next_buf_row # fed.next_buf_stop
  <2>1. RoundOfContext(w, avail) = fed
    BY <1>8, <1>14
  <2>2. w.in < avail /\ fed.in = avail /\ fed.next_buf_row < fed.next_buf_stop
    BY <1>7, <1>14
  <2>3. Progress(w, fed, avail)
    BY <1>7, <2>2 DEF Progress
  <2>4. CallHolds(fed, g, avail)
    BY <1>3, <1>7, <1>11, <1>12 DEF CallHolds
  <2>5. ContextHolds(fed, g)
    <3>1. Ahead(fed) < 2 * fed.V
      BY <1>1, <1>9, <1>10, <2>2
    <3>2. (g + Len(fed.groups)) * fed.V = x
      BY <1>7, <1>9 DEF x
    <3> QED
      BY <1>3, <1>7, <1>9, <3>1, <3>2 DEF ContextHolds
  <2> QED
    BY <1>7, <2>1, <2>3, <2>4, <2>5
<1> QED
  BY <1>13, <1>14

\* Without rows around, the buffer holds the rows of one row group; the last iMCU row is
\* filled at once.
RowsHold(w, x) ==
  IF w.rows_to_go > 0
  THEN /\ 0 <= w.next_buf_row /\ w.next_buf_row < w.V
       /\ x + w.next_buf_row = w.height - w.rows_to_go
       /\ \A i \in 0 .. w.next_buf_row - 1 : w.color_buf[i] = x + i
  ELSE /\ w.height <= x
       /\ Len(w.groups) = DCTSIZE \/ w.cur_iMCU_row = total_iMCU_rows(w)

DataHolds(w, g) == ~w.context /\ RowsHold(w, (g + Len(w.groups)) * w.V)

\* The rows of a row group, in a buffer that may end behind the picture.
LEMMA RowsTaken ==
  ASSUME NEW w, WriterTyped(w), ~w.context, NEW x \in Nat, RowsHold(w, x), w.rows_to_go > 0, NEW n \in Nat, n > 0,
         n <= w.V - w.next_buf_row, n <= w.rows_to_go,
         w.next_scanline + w.in = w.height - w.rows_to_go
  PROVE  LET t == Take(w, n)
             u == IF t.rows_to_go = 0 THEN Padded(t, w.V) ELSE t
         IN /\ WriterTyped(u) /\ SameWriter(w, u) /\ SameOutput(w, u)
            /\ t.rows_to_go = w.rows_to_go - n /\ u.rows_to_go = w.rows_to_go - n
            /\ u.in = w.in + n /\ u.groups = w.groups
            /\ u.next_buf_row = IF w.rows_to_go = n THEN w.V ELSE w.next_buf_row + n
            /\ \A i \in 0 .. u.next_buf_row - 1 : u.color_buf[i] = Clamp(x + i, w.height)
<1> DEFINE t == Take(w, n)
           u == IF t.rows_to_go = 0 THEN Padded(t, w.V) ELSE t
           T == w.next_scanline + w.in
<1>1. /\ w.V \in {1, 2} /\ w.height \in Nat \ {0} /\ w.next_buf_row \in Int
      /\ w.rows_to_go \in Int /\ w.next_scanline \in Int /\ w.in \in Int /\ T \in Int
  BY WriterNumbers
<1>2. /\ 0 <= w.next_buf_row /\ w.next_buf_row < w.V /\ x + w.next_buf_row = T
      /\ T = w.height - w.rows_to_go
      /\ \A i \in 0 .. w.next_buf_row - 1 : w.color_buf[i] = x + i
  BY DEF RowsHold
<1>3. w.next_buf_row + n <= 3 * w.V /\ ~First(w)
  BY <1>1, <1>2 DEF First
<1>4. /\ WriterTyped(t) /\ SameWriter(w, t) /\ SameOutput(w, t)
      /\ t.in = w.in + n /\ t.next_buf_row = w.next_buf_row + n /\ t.rows_to_go = w.rows_to_go - n
      /\ t.groups = w.groups
  BY <1>2, <1>3, TakeIs
<1>5. /\ \A i \in 0 .. n - 1 : t.color_buf[w.next_buf_row + i] = T + i
      /\ \A i \in 0 .. 3 * w.V - 1 :
           ~(w.next_buf_row <= i /\ i < w.next_buf_row + n) => t.color_buf[i] = w.color_buf[i]
  BY <1>2, <1>3, TakeIs
<1> HIDE DEF t
<1>6. t.V = w.V /\ t.height = w.height /\ t.next_buf_row \in Int
  BY <1>1, <1>4 DEF SameWriter
<1>7. ASSUME NEW i \in 0 .. w.next_buf_row + n - 1
      PROVE  t.color_buf[i] = x + i /\ Clamp(x + i, w.height) = x + i
  <2>1. x + i \in Int /\ 0 <= x + i /\ x + i < w.height
    BY <1>1, <1>2
  <2>2. Clamp(x + i, w.height) = x + i
    BY <1>1, <2>1, ClampIs
  <2>3. CASE i < w.next_buf_row
    <3>1. i \in 0 .. 3 * w.V - 1 /\ i \in 0 .. w.next_buf_row - 1 /\ ~(w.next_buf_row <= i)
      BY <1>1, <1>2, <2>3
    <3>2. t.color_buf[i] = w.color_buf[i]
      BY <1>5, <3>1
    <3> QED
      BY <1>2, <2>2, <3>1, <3>2
  <2>4. CASE ~(i < w.next_buf_row)
    <3> DEFINE m == i - w.next_buf_row
    <3>1. m \in 0 .. n - 1 /\ w.next_buf_row + m = i /\ T + m = x + i
      BY <1>1, <1>2, <2>4
    <3> QED
      BY <1>5, <2>2, <3>1
  <2> QED
    BY <2>3, <2>4
<1>8. CASE w.rows_to_go = n
  <2>1. t.rows_to_go = 0 /\ u = Padded(t, w.V)
    BY <1>1, <1>4, <1>8
  <2>2. 0 <= t.next_buf_row /\ t.next_buf_row <= w.V /\ w.V <= 3 * t.V /\ w.V \in Int
    BY <1>1, <1>2, <1>4, <1>6
  <2> DEFINE p == Padded(t, w.V)
  <2>3. /\ WriterTyped(p) /\ SameWriter(t, p) /\ SameOutput(t, p)
        /\ p.in = t.in /\ p.next_buf_row = w.V /\ p.rows_to_go = t.rows_to_go
        /\ p.groups = t.groups
    BY <1>4, <2>2, PaddedIs
  <2>4. \A i \in 0 .. 3 * t.V - 1 :
          p.color_buf[i] = IF t.next_buf_row <= i /\ i < w.V
                           THEN t.color_buf[Slot(t, t.next_buf_row - 1)] ELSE t.color_buf[i]
    BY <1>4, <2>2, PaddedIs
  <2> HIDE DEF p
  <2>5. Slot(t, t.next_buf_row - 1) = w.next_buf_row + n - 1
    <3> DEFINE m == t.next_buf_row - 1
    <3>1. m \in Int /\ 0 <= m /\ m < 3 * t.V /\ m = w.next_buf_row + n - 1 /\ t.V \in {1, 2}
      BY <1>1, <1>2, <1>4, <1>6, <2>2
    <3> HIDE DEF m
    <3>2. Slot(t, m) = m
      BY <3>1, SlotIs
    <3> QED
      BY <3>1, <3>2 DEF m
  <2>6. t.color_buf[w.next_buf_row + n - 1] = w.height - 1
    <3>1. w.next_buf_row + n - 1 \in 0 .. w.next_buf_row + n - 1 /\ x + (w.next_buf_row + n - 1) = w.height - 1
      BY <1>1, <1>2, <1>8
    <3> QED
      BY <1>7, <3>1
  <2>7. ASSUME NEW i \in 0 .. w.V - 1 PROVE p.color_buf[i] = Clamp(x + i, w.height)
    <3>1. i \in 0 .. 3 * t.V - 1
      BY <1>1, <1>6
    <3>2. CASE i < w.next_buf_row + n
      BY <1>1, <1>4, <1>7, <2>4, <3>1, <3>2
    <3>3. CASE ~(i < w.next_buf_row + n)
      <4>1. p.color_buf[i] = w.height - 1
        BY <1>1, <1>4, <2>4, <2>5, <2>6, <3>1, <3>3
      <4>2. x + i \in Int /\ 0 <= x + i /\ x + i >= w.height
        BY <1>1, <1>2, <1>8, <3>3
      <4>3. Clamp(x + i, w.height) = w.height - 1
        BY <1>1, <4>2, ClampIs
      <4> QED
        BY <4>1, <4>3
    <3> QED
      BY <3>2, <3>3
  <2>8. u = p
    BY <2>1 DEF p
  <2> HIDE DEF u
  <2>9. SameWriter(w, u) /\ SameOutput(w, u)
    BY <1>4, <2>3, <2>8 DEF SameWriter, SameOutput
  <2>10. u.next_buf_row = w.V
    BY <2>3, <2>8
  <2>11. \A i \in 0 .. u.next_buf_row - 1 : u.color_buf[i] = Clamp(x + i, w.height)
    BY <2>7, <2>8, <2>10
  <2>12. WriterTyped(u) /\ u.rows_to_go = w.rows_to_go - n /\ u.in = w.in + n /\ u.groups = w.groups
    BY <1>4, <2>3, <2>8
  <2> QED
    BY <1>4, <1>8, <2>9, <2>10, <2>11, <2>12 DEF u, t
<1>9. CASE w.rows_to_go # n
  <2>1. t.rows_to_go # 0 /\ u = t
    BY <1>1, <1>4, <1>9
  <2> HIDE DEF u
  <2>2. ASSUME NEW i \in 0 .. u.next_buf_row - 1 PROVE u.color_buf[i] = Clamp(x + i, w.height)
    <3>1. u.next_buf_row = w.next_buf_row + n
      BY <1>4, <2>1
    <3>2. i \in 0 .. w.next_buf_row + n - 1
      BY <1>1, <3>1
    <3> QED
      BY <1>7, <2>1, <3>2
  <2> QED
    BY <1>4, <1>9, <2>1, <2>2 DEF u, t
<1> QED
  BY <1>8, <1>9

\* What the downsampler gets from the buffer.
LEMMA RowsGroup ==
  ASSUME NEW w, WriterTyped(w), ~w.context, NEW x \in Nat,
         \A i \in 0 .. w.V - 1 : w.color_buf[i] = Clamp(x + i, w.height)
  PROVE  Group(w, 0) = GroupFrom(w, x) /\ Group(w, 0) \in RowGroup
<1> DEFINE c(i) == Clamp(x + i, w.height)
           b(j) == w.color_buf[Slot(w, j)]
<1>1. w.V \in {1, 2} /\ w.height \in Nat \ {0}
  BY WriterNumbers
<1>2. ASSUME NEW j \in 1 .. w.V PROVE b(0 + j - 1) = c(j - 1) /\ c(j - 1) \in Int
  <2> DEFINE i == 0 + j - 1
  <2>1. i \in Int /\ 0 <= i /\ i < 3 * w.V /\ i \in 0 .. w.V - 1 /\ x + i \in Int /\ i = j - 1
    BY <1>1
  <2> HIDE DEF i
  <2>2. Slot(w, i) = i
    BY <1>1, <2>1, SlotIs
  <2>3. Clamp(x + i, w.height) \in Int
    BY <1>1, <2>1, ClampIs
  <2>4. w.color_buf[i] = Clamp(x + i, w.height)
    BY <2>1
  <2> QED
    BY <2>1, <2>2, <2>3, <2>4 DEF i
<1>3. Group(w, 0) = [rows |-> [j \in 1 .. w.V |-> b(0 + j - 1)], around |-> <<>>]
  BY DEF Group
<1>4. GroupFrom(w, x) = [rows |-> [j \in 1 .. w.V |-> c(j - 1)], around |-> <<>>]
  BY DEF GroupFrom
<1> HIDE DEF b, c
<1>5. [j \in 1 .. w.V |-> b(0 + j - 1)] = [j \in 1 .. w.V |-> c(j - 1)]
  BY <1>2
<1>6. [j \in 1 .. w.V |-> c(j - 1)] \in Seq(Int) /\ <<>> \in Seq(Int)
  BY <1>1, <1>2
<1>7. Group(w, 0) = GroupFrom(w, x)
  BY <1>3, <1>4, <1>5
<1> DEFINE rows == [j \in 1 .. w.V |-> c(j - 1)]
<1>8. rows \in Seq(Int) /\ GroupFrom(w, x) = [rows |-> rows, around |-> <<>>]
  BY <1>4, <1>6
<1> HIDE DEF rows
<1>9. GroupFrom(w, x) \in RowGroup
  BY <1>6, <1>8 DEF RowGroup
<1> QED
  BY <1>7, <1>9

LEMMA TimesGrows ==
  ASSUME NEW a \in Nat, NEW b \in Nat, a <= b, NEW v \in {1, 2}
  PROVE  a * v \in Nat /\ b * v \in Nat /\ a * v <= b * v
<1>1. CASE v = 1
  BY <1>1
<1>2. CASE v = 2
  BY <1>2
<1> QED
  BY <1>1, <1>2

FilledUp(groups) == [i \in 1 .. DCTSIZE |-> groups[Least(i, Len(groups))]]

\* expand_bottom_edge fills the iMCU row with row groups below the picture.
LEMMA GroupsFill ==
  ASSUME NEW w, w.V \in {1, 2}, w.height \in Nat, NEW groups \in Seq(RowGroup), NEW g \in Nat,
         GroupsHold(w, groups, g), Len(groups) > 0, Len(groups) <= DCTSIZE,
         w.height <= (g + Len(groups)) * w.V
  PROVE  /\ FilledUp(groups) \in Seq(RowGroup) /\ Len(FilledUp(groups)) = DCTSIZE
         /\ GroupsHold(w, FilledUp(groups), g)
<1> DEFINE k == Len(groups)
           all == [i \in 1 .. DCTSIZE |-> groups[Least(i, k)]]
<1>1. k \in Nat /\ DCTSIZE \in Nat /\ \A i \in 1 .. k : groups[i] \in RowGroup
  BY RowsAssumption
<1>2. ASSUME NEW i \in 1 .. DCTSIZE PROVE Least(i, k) = IF i <= k THEN i ELSE k
  BY <1>1, LeastIs
<1>3. \A i \in 1 .. DCTSIZE : Least(i, k) \in 1 .. k
  BY <1>1, <1>2
<1>4. all \in [1 .. DCTSIZE -> RowGroup]
  BY <1>1, <1>3
<1>5. \A i \in 1 .. DCTSIZE : i <= k => all[i] = groups[i]
  BY <1>2
<1> HIDE DEF all
<1>6. all \in Seq(RowGroup) /\ Len(all) = DCTSIZE /\ DOMAIN all = 1 .. DCTSIZE
  BY <1>1, <1>4
<1>7. ASSUME NEW i \in DOMAIN all, (g + i - 1) * w.V < w.height
      PROVE  all[i] = Wanted(w, g + i - 1)
  <2>1. i \in 1 .. DCTSIZE /\ g + i - 1 \in Nat
    BY <1>1, <1>6
  <2>2. i <= k
    <3>1. SUFFICES ASSUME k < i PROVE FALSE
      BY <1>1, <2>1
    <3> DEFINE a == g + k
               b == g + i - 1
    <3>2. a \in Nat /\ b \in Nat /\ a <= b /\ w.height <= a * w.V /\ b * w.V < w.height
      BY <1>1, <1>7, <2>1, <3>1
    <3> HIDE DEF a, b
    <3>3. CASE w.V = 1
      BY <3>2, <3>3
    <3>4. CASE w.V = 2
      BY <3>2, <3>4
    <3> QED
      BY <3>3, <3>4
  <2>3. i \in DOMAIN groups /\ all[i] = groups[i]
    BY <1>1, <1>5, <2>1, <2>2
  <2> QED
    BY <1>7, <2>3 DEF GroupsHold
<1>8. GroupsHold(w, all, g)
  BY <1>7 DEF GroupsHold
<1> QED
  BY <1>6, <1>8 DEF all, FilledUp

Regrouped(w, groups, row) == [w EXCEPT !.groups = groups, !.next_buf_row = row]

\* A writer with other row groups, that begins its buffer anew.
LEMMA GroupsSet ==
  ASSUME NEW w, WriterTyped(w), NEW groups \in Seq(RowGroup), NEW row \in Int
  PROVE  LET t == Regrouped(w, groups, row)
         IN /\ WriterTyped(t) /\ SameWriter(w, t) /\ SameOutput(w, t)
            /\ t.in = w.in /\ t.rows_to_go = w.rows_to_go /\ t.groups = groups /\ t.next_buf_row = row
            /\ t.color_buf = w.color_buf
BY DEF Regrouped, WriterTyped, WriterType, SameWriter, SameOutput

LEMMA RoundOfDataHolds ==
  ASSUME NEW w, NEW g \in Nat, NEW avail \in Int,
         CallHolds(w, g, avail), DataHolds(w, g), ~NoMoreData(w, avail)
  PROVE  LET t == RoundOfData(w, avail)
         IN /\ SameWriter(w, t) /\ SameOutput(w, t) /\ Progress(w, t, avail)
            /\ CallHolds(t, g, avail) /\ DataHolds(t, g)
<1> DEFINE k == Len(w.groups)
           x == (g + k) * w.V
           n == Least(w.V - w.next_buf_row, avail - w.in)
           fed == Take(w, n)
           filled == IF fed.rows_to_go = 0 THEN Padded(fed, w.V) ELSE fed
           more == Append(filled.groups, Group(filled, 0))
           out == IF filled.next_buf_row < w.V THEN filled
                  ELSE [filled EXCEPT !.groups = more, !.next_buf_row = 0]
           last == [out EXCEPT !.groups = [i \in 1 .. DCTSIZE |-> @[Least(i, Len(@))]]]
<1>1. /\ w.V \in {1, 2} /\ w.height \in Nat \ {0} /\ w.next_buf_row \in Int
      /\ w.rows_to_go \in Int /\ w.next_scanline \in Int /\ w.in \in Int
  <2>1. WriterTyped(w)
    BY DEF CallHolds
  <2> QED
    BY <2>1, WriterNumbers
<1>0. w.groups \in Seq(RowGroup)
  <2>1. WriterTyped(w)
    BY DEF CallHolds
  <2> QED
    BY <2>1, WriterNumbers
<1>2. k \in Nat /\ DCTSIZE \in Nat \ {0}
  BY <1>0, RowsAssumption
<1>3. g + k \in Nat /\ x \in Nat /\ (g + (k + 1)) * w.V = x + w.V
  <2>1. g + k \in Nat /\ g + (k + 1) = (g + k) + 1
    BY <1>2
  <2> QED
    BY <1>1, <2>1, TimesV
<1>4. /\ WriterTyped(w) /\ k <= DCTSIZE /\ GroupsHold(w, w.groups, g)
      /\ w.next_scanline + w.in = w.height - w.rows_to_go /\ 0 <= w.rows_to_go
      /\ w.in <= avail /\ avail - w.in <= w.rows_to_go
      /\ ~w.context /\ RowsHold(w, x)
  BY DEF CallHolds, DataHolds
<1>5. k < DCTSIZE /\ w.in < avail /\ w.rows_to_go > 0
  <2>1. k # DCTSIZE /\ ~(w.in >= avail)
    BY DEF NoMoreData
  <2> HIDE DEF k
  <2> QED
    BY <1>1, <1>2, <1>4, <2>1
<1>6. 0 <= w.next_buf_row /\ w.next_buf_row < w.V
  BY <1>4, <1>5 DEF RowsHold
<1>7. /\ n \in Nat /\ n > 0 /\ n <= w.V - w.next_buf_row /\ n <= avail - w.in /\ n <= w.rows_to_go
      /\ n = w.V - w.next_buf_row \/ n = avail - w.in
  <2> DEFINE a == w.V - w.next_buf_row
             b == avail - w.in
  <2>1. a \in Int /\ b \in Int /\ a > 0 /\ b > 0
    BY <1>1, <1>5, <1>6
  <2> HIDE DEF a, b
  <2>2. n = IF a <= b THEN a ELSE b
    BY <2>1, LeastIs DEF a, b
  <2> HIDE DEF n
  <2>3. n \in Nat /\ n > 0 /\ n <= a /\ n <= b /\ (n = a \/ n = b)
    BY <2>1, <2>2
  <2>4. n <= w.rows_to_go
    BY <1>1, <1>4, <2>3 DEF b
  <2> QED
    BY <2>3, <2>4 DEF a, b
<1>20. RoundOfData(w, avail) = Completed(Emptied(filled))
  <2>1. RoundOfData(w, avail) = Completed(Emptied(PaddedBelow(fed)))
    BY DEF RoundOfData
  <2>2. fed.V = w.V
    BY <1>4, TakeKeepsV DEF CallHolds
  <2> HIDE DEF fed
  <2>3. PaddedBelow(fed) = filled
    BY <2>2 DEF PaddedBelow
  <2> QED
    BY <2>1, <2>3
<1> HIDE DEF n, x
<1>9. /\ WriterTyped(filled) /\ SameWriter(w, filled) /\ SameOutput(w, filled)
      /\ filled.rows_to_go = w.rows_to_go - n
      /\ filled.in = w.in + n /\ filled.groups = w.groups
      /\ filled.next_buf_row = IF w.rows_to_go = n THEN w.V ELSE w.next_buf_row + n
      /\ \A i \in 0 .. filled.next_buf_row - 1 : filled.color_buf[i] = Clamp(x + i, w.height)
  BY <1>3, <1>4, <1>5, <1>7, RowsTaken
<1> HIDE DEF filled
<1>16. /\ filled.rows_to_go = w.rows_to_go - n /\ filled.in = w.in + n
       /\ w.rows_to_go = n => filled.next_buf_row = w.V
       /\ w.rows_to_go # n => filled.next_buf_row = w.next_buf_row + n
  BY <1>9
<1>17. /\ w.next_scanline + w.in = w.height - w.rows_to_go /\ avail - w.in <= w.rows_to_go
  BY <1>4
<1>18. x \in Nat
  BY <1>3
<1>10. /\ filled.V = w.V /\ filled.height = w.height /\ ~filled.context
       /\ filled.next_scanline = w.next_scanline /\ filled.cur_iMCU_row = w.cur_iMCU_row
  BY <1>4, <1>9 DEF SameWriter, SameOutput
<1>8. RoundOfData(w, avail) = IF out.rows_to_go = 0 THEN last ELSE out
  <2>1. Emptied(filled) = out
    BY <1>10 DEF Emptied
  <2> HIDE DEF out
  <2> QED
    BY <1>20, <2>1 DEF Completed
<1>11. /\ filled.in <= avail /\ avail - filled.in <= filled.rows_to_go /\ 0 <= filled.rows_to_go
       /\ w.next_scanline + filled.in = w.height - filled.rows_to_go
       /\ filled.in \in Int /\ filled.rows_to_go \in Int
  BY <1>1, <1>7, <1>16, <1>17
<1>12. GroupsHold(filled, w.groups, g)
  BY <1>4, <1>9, GroupsStay
<1>13. x + w.next_buf_row = w.height - w.rows_to_go
  BY <1>4, <1>5 DEF RowsHold
<1>14. CASE w.next_buf_row + n < w.V /\ w.rows_to_go # n
  <2>1. /\ filled.next_buf_row = w.next_buf_row + n /\ filled.next_buf_row < w.V
        /\ filled.rows_to_go > 0 /\ filled.rows_to_go # 0
    BY <1>1, <1>7, <1>14, <1>16
  <2>2. RoundOfData(w, avail) = filled
    BY <1>8, <2>1
  <2>3. Progress(w, filled, avail)
    <3>1. filled.in = avail
      BY <1>1, <1>7, <1>14, <1>16
    <3>2. w.in <= filled.in
      BY <1>1, <1>5, <3>1
    <3> QED
      BY <1>5, <1>9, <3>1, <3>2 DEF Progress
  <2>4. CallHolds(filled, g, avail)
    BY <1>4, <1>9, <1>10, <1>11, <1>12 DEF CallHolds
  <2>5. RowsHold(filled, x)
    <3>1. ASSUME NEW i \in 0 .. filled.next_buf_row - 1 PROVE filled.color_buf[i] = x + i
      <4>1. x + i \in Int /\ 0 <= x + i /\ x + i < w.height
        BY <1>1, <1>7, <1>13, <1>14, <1>16, <1>18, <2>1
      <4>2. Clamp(x + i, w.height) = x + i
        BY <1>1, <4>1, ClampIs
      <4> QED
        BY <1>9, <4>2
    <3>2. x + filled.next_buf_row = w.height - filled.rows_to_go
      BY <1>1, <1>7, <1>13, <1>14, <1>16, <1>18
    <3>3. 0 <= filled.next_buf_row
      BY <1>1, <1>6, <1>7, <2>1
    <3> QED
      BY <1>10, <2>1, <3>1, <3>2, <3>3 DEF RowsHold
  <2>6. DataHolds(filled, g)
    BY <1>9, <1>10, <2>5 DEF DataHolds, x
  <2> QED
    BY <1>9, <2>2, <2>3, <2>4, <2>6
<1>15. CASE ~(w.next_buf_row + n < w.V /\ w.rows_to_go # n)
  <2>1. filled.next_buf_row = w.V
    BY <1>1, <1>7, <1>15, <1>16
  <2> DEFINE next == Group(filled, 0)
  <2>2. next = GroupFrom(filled, x) /\ next \in RowGroup
    BY <1>3, <1>9, <1>10, <2>1, RowsGroup
  <2>3. next = Wanted(filled, g + k)
    BY <1>10, <2>2, WantedIs DEF x
  <2>4. more \in Seq(RowGroup) /\ Len(more) = k + 1 /\ GroupsHold(filled, more, g)
    <3> HIDE DEF next
    <3>1. LET all == Append(w.groups, next)
          IN all \in Seq(RowGroup) /\ Len(all) = k + 1 /\ GroupsHold(filled, all, g)
      BY <1>0, <1>2, <1>12, <2>2, <2>3, GroupsGrow
    <3>2. more = Append(w.groups, next)
      BY <1>9 DEF next
    <3> QED
      BY <3>1, <3>2
  <2> HIDE DEF more
  <2> DEFINE t == Regrouped(filled, more, 0)
  <2>5. /\ WriterTyped(t) /\ SameWriter(filled, t) /\ SameOutput(filled, t)
        /\ t.in = filled.in /\ t.rows_to_go = filled.rows_to_go /\ t.groups = more /\ t.next_buf_row = 0
    <3>1. 0 \in Int
      OBVIOUS
    <3> QED
      BY <1>9, <2>4, <3>1, GroupsSet
  <2>6. out = t
    BY <1>1, <2>1 DEF Regrouped
  <2> HIDE DEF t, out
  <2>7. SameWriter(w, t) /\ SameOutput(w, t) /\ w.in <= t.in
    <3>1. w.in <= t.in
      BY <1>1, <1>7, <1>16, <2>5
    <3> QED
      BY <1>9, <2>5, <3>1 DEF SameWriter, SameOutput
  <2>8. /\ t.V = w.V /\ t.height = w.height /\ ~t.context
        /\ t.next_scanline = w.next_scanline /\ t.cur_iMCU_row = w.cur_iMCU_row
    BY <1>4, <2>7 DEF SameWriter, SameOutput
  <2>9. CASE w.rows_to_go # n
    <3>1. t.rows_to_go > 0 /\ t.rows_to_go # 0
      BY <1>1, <1>7, <1>9, <2>5, <2>9
    <3>2. RoundOfData(w, avail) = t
      BY <1>8, <2>6, <3>1
    <3>3. Progress(w, t, avail)
      BY <1>2, <2>4, <2>5, <2>7 DEF Progress
    <3>4. GroupsHold(t, t.groups, g)
      BY <2>4, <2>5, GroupsStay
    <3>5. Len(t.groups) <= DCTSIZE
      BY <1>2, <1>5, <2>4, <2>5
    <3>6. CallHolds(t, g, avail)
      BY <1>11, <2>5, <2>8, <3>4, <3>5 DEF CallHolds
    <3>7. RowsHold(t, x + w.V)
      <4>1. x + w.V + 0 = w.height - t.rows_to_go
        <5>1. w.next_buf_row + n = w.V
          BY <1>16, <2>1, <2>9
        <5>2. t.rows_to_go = w.rows_to_go - n
          BY <1>16, <2>5
        <5> QED
          BY <1>1, <1>7, <1>13, <1>18, <5>1, <5>2
      <4> QED
        BY <1>1, <2>5, <2>8, <3>1, <4>1 DEF RowsHold
    <3>8. DataHolds(t, g)
      BY <1>3, <2>4, <2>5, <2>8, <3>7 DEF DataHolds
    <3> QED
      BY <2>7, <3>2, <3>3, <3>6, <3>8
  <2>10. CASE w.rows_to_go = n
    <3> DEFINE all == FilledUp(more)
               u == [t EXCEPT !.groups = all]
    <3>1. t.rows_to_go = 0
      BY <1>1, <1>7, <1>9, <2>5, <2>10
    <3>2. RoundOfData(w, avail) = u
      BY <1>8, <2>5, <2>6, <3>1 DEF FilledUp
    <3>3. w.height <= x + w.V
      BY <1>1, <1>6, <1>7, <1>13, <1>18, <2>10
    <3>4. all \in Seq(RowGroup) /\ Len(all) = DCTSIZE /\ GroupsHold(filled, all, g)
      <4>1. Len(more) > 0 /\ Len(more) <= DCTSIZE
        BY <1>2, <1>5, <2>4
      <4>2. filled.height <= (g + Len(more)) * filled.V
        BY <1>3, <1>10, <2>4, <3>3
      <4>3. filled.V \in {1, 2} /\ filled.height \in Nat
        BY <1>1, <1>10
      <4> QED
        BY <2>4, <4>1, <4>2, <4>3, GroupsFill
    <3> HIDE DEF all
    <3>5. u = Regrouped(t, all, 0)
      BY <2>5 DEF WriterTyped, WriterType, Regrouped
    <3>6. /\ WriterTyped(u) /\ SameWriter(t, u) /\ SameOutput(t, u)
          /\ u.in = t.in /\ u.rows_to_go = t.rows_to_go /\ u.groups = all /\ u.next_buf_row = 0
      <4>1. 0 \in Int
        OBVIOUS
      <4> HIDE DEF u
      <4> QED
        BY <2>5, <3>4, <3>5, <4>1, GroupsSet
    <3> HIDE DEF u
    <3>7. SameWriter(w, u) /\ SameOutput(w, u) /\ SameWriter(filled, u)
      BY <2>5, <2>7, <3>6 DEF SameWriter, SameOutput
    <3>8. u.V = w.V /\ u.height = w.height /\ ~u.context /\ u.next_scanline = w.next_scanline
      BY <1>4, <3>7 DEF SameWriter, SameOutput
    <3>9. Progress(w, u, avail)
      BY <1>2, <1>5, <2>7, <3>4, <3>6 DEF Progress
    <3>10. GroupsHold(u, u.groups, g)
      BY <3>4, <3>6, <3>7, GroupsStay
    <3>11. Len(u.groups) = DCTSIZE /\ DCTSIZE <= DCTSIZE
      BY <1>2, <3>4, <3>6
    <3>12. CallHolds(u, g, avail)
      BY <1>11, <2>5, <3>6, <3>8, <3>10, <3>11 DEF CallHolds
    <3>13. w.height <= (g + DCTSIZE) * w.V
      <4> DEFINE a == (g + (k + 1)) * w.V
                 b == (g + DCTSIZE) * w.V
      <4>1. a \in Nat /\ b \in Nat /\ a <= b
        <5>1. g + (k + 1) \in Nat /\ g + DCTSIZE \in Nat /\ g + (k + 1) <= g + DCTSIZE
          BY <1>2, <1>5
        <5> QED
          BY <1>1, <5>1, TimesGrows
      <4>2. w.height <= a
        BY <1>3, <3>3
      <4> HIDE DEF a, b
      <4> QED
        BY <1>1, <4>1, <4>2 DEF b
    <3>14. u.rows_to_go = 0 /\ ~(u.rows_to_go > 0)
      BY <2>5, <3>1, <3>6
    <3>15. DataHolds(u, g)
      BY <3>8, <3>11, <3>13, <3>14 DEF DataHolds, RowsHold
    <3> QED
      BY <3>2, <3>7, <3>9, <3>12, <3>15
  <2> QED
    BY <2>9, <2>10
<1> QED
  BY <1>14, <1>15

-----------------------------------------------------------------------------
(* Loops.                                                                  *)

\* Every set of numbers that has a member has a least one.
LEMMA LeastMember ==
  ASSUME NEW T \in SUBSET Nat, T # {}
  PROVE  \E n \in T : \A m \in T : n <= m
<1> DEFINE R == OpToRel(<, Nat)
<1>1. IsWellFoundedOn(R, Nat)
  BY NatLessThanWellFounded
<1> HIDE DEF R
<1>2. PICK n \in T : \A m \in T : <<m, n>> \notin R
  BY <1>1, WFMin
<1>3. \A m, k \in Nat : m < k => <<m, k>> \in R
  BY DEF R, OpToRel
<1>4. ASSUME NEW m \in T PROVE n <= m
  <2>1. m \in Nat /\ n \in Nat
    OBVIOUS
  <2>2. ~(m < n)
    BY <1>2, <1>3, <2>1
  <2> QED
    BY <2>1, <2>2
<1> QED
  BY <1>4

\* A set that holds 0 and the successor of each member holds every number.
LEMMA Induction ==
  ASSUME NEW P \in SUBSET Nat, 0 \in P, \A n \in P : n + 1 \in P
  PROVE  P = Nat
<1> SUFFICES ASSUME Nat \ P # {} PROVE FALSE
  OBVIOUS
<1>1. PICK n \in Nat \ P : \A m \in Nat \ P : n <= m
  BY LeastMember
<1>2. n - 1 \in Nat /\ n - 1 \notin Nat \ P
  BY <1>1
<1>3. (n - 1) + 1 \in P
  BY <1>2
<1> QED
  BY <1>1, <1>3

\* A loop of n rounds, whose state stays in S, has a state after each of them.
Repeats(f, n, base, step) == \A i \in 0 .. n : f[i] = IF i = 0 THEN base ELSE step[f[i - 1]]

LEMMA LoopIsDefined ==
  ASSUME NEW n \in Nat, NEW S, NEW base \in S, NEW step \in [S -> S]
  PROVE  \E f \in [0 .. n -> S] : Repeats(f, n, base, step)
<1> DEFINE P == {m \in Nat : \E f \in [0 .. m -> S] : Repeats(f, m, base, step)}
<1>1. 0 \in P
  <2> DEFINE f == [i \in 0 .. 0 |-> base]
  <2>1. f \in [0 .. 0 -> S] /\ Repeats(f, 0, base, step)
    BY DEF Repeats
  <2> HIDE DEF f
  <2> QED
    BY <2>1
<1>2. ASSUME NEW m \in P PROVE m + 1 \in P
  <2>1. m \in Nat
    OBVIOUS
  <2>2. PICK g \in [0 .. m -> S] : Repeats(g, m, base, step)
    OBVIOUS
  <2> DEFINE f == [i \in 0 .. m + 1 |-> IF i = m + 1 THEN step[g[m]] ELSE g[i]]
  <2>3. ASSUME NEW i \in 0 .. m + 1
        PROVE  f[i] \in S /\ f[i] = IF i = 0 THEN base ELSE step[f[i - 1]]
    <3>1. CASE i = m + 1
      <4>1. m \in 0 .. m /\ m \in 0 .. m + 1 /\ m # m + 1 /\ i # 0 /\ i - 1 = m
        BY <2>1, <3>1
      <4>2. f[i] = step[g[m]] /\ f[m] = g[m] /\ g[m] \in S
        BY <2>1, <3>1, <4>1
      <4> QED
        BY <4>1, <4>2
    <3>2. CASE i # m + 1
      <4>1. i \in 0 .. m /\ f[i] = g[i] /\ g[i] \in S
        BY <2>1, <3>2
      <4>2. g[i] = IF i = 0 THEN base ELSE step[g[i - 1]]
        <5> HIDE DEF f, P
        <5> QED
          BY <2>2, <4>1 DEF Repeats
      <4>3. i # 0 => f[i - 1] = g[i - 1]
        BY <2>1, <3>2
      <4> QED
        BY <4>1, <4>2, <4>3
    <3> QED
      BY <3>1, <3>2
  <2>4. f \in [0 .. m + 1 -> S] /\ Repeats(f, m + 1, base, step)
    BY <2>3 DEF Repeats
  <2> HIDE DEF f
  <2> QED
    BY <2>1, <2>4
<1>3. P = Nat
  <2>1. P \in SUBSET Nat
    OBVIOUS
  <2> HIDE DEF P
  <2> QED
    BY <1>1, <1>2, <2>1, Induction
<1> QED
  BY <1>3

-----------------------------------------------------------------------------
(* The loop of pre_process_context and of pre_process_data.                *)

PreHolds(w, g, avail) ==
  CallHolds(w, g, avail) /\ IF w.context THEN ContextHolds(w, g) ELSE DataHolds(w, g)

\* Whether it is left.
NoMore(w, avail) == IF w.context THEN NoMoreContext(w, avail) ELSE NoMoreData(w, avail)

LEMMA PreprocessedHolds ==
  ASSUME NEW w, NEW g \in Nat, NEW avail \in Int, PreHolds(w, g, avail)
  PROVE  LET t == Preprocessed(w, avail)
         IN /\ SameWriter(w, t) /\ SameOutput(w, t) /\ PreHolds(t, g, avail)
            /\ NoMore(w, avail) => t = w
            /\ ~NoMore(w, avail) => Progress(w, t, avail)
<1>1. CASE NoMore(w, avail)
  <2>1. Preprocessed(w, avail) = w
    BY <1>1 DEF Preprocessed, NoMore
  <2> QED
    BY <1>1, <2>1 DEF SameWriter, SameOutput
<1>2. CASE ~NoMore(w, avail) /\ w.context
  <2> DEFINE t == RoundOfContext(w, avail)
  <2>1. Preprocessed(w, avail) = t
    BY <1>2 DEF Preprocessed, NoMore
  <2>2. /\ SameWriter(w, t) /\ SameOutput(w, t) /\ Progress(w, t, avail)
        /\ CallHolds(t, g, avail) /\ ContextHolds(t, g)
    BY <1>2, RoundOfContextHolds DEF PreHolds, NoMore
  <2> HIDE DEF t
  <2>3. t.context
    BY <1>2, <2>2 DEF SameWriter
  <2> QED
    BY <1>2, <2>1, <2>2, <2>3 DEF PreHolds
<1>3. CASE ~NoMore(w, avail) /\ ~w.context
  <2> DEFINE t == RoundOfData(w, avail)
  <2>1. Preprocessed(w, avail) = t
    BY <1>3 DEF Preprocessed, NoMore
  <2>2. /\ SameWriter(w, t) /\ SameOutput(w, t) /\ Progress(w, t, avail)
        /\ CallHolds(t, g, avail) /\ DataHolds(t, g)
    BY <1>3, RoundOfDataHolds DEF PreHolds, NoMore
  <2> HIDE DEF t
  <2>3. ~t.context
    BY <1>3, <2>2 DEF SameWriter
  <2> QED
    BY <1>3, <2>1, <2>2, <2>3 DEF PreHolds
<1> QED
  BY <1>1, <1>2, <1>3

LEMMA PreProcessHolds ==
  ASSUME NEW w, NEW g \in Nat, NEW avail \in Int, PreHolds(w, g, avail)
  PROVE  LET t == pre_process(w, avail)
         IN SameWriter(w, t) /\ SameOutput(w, t) /\ PreHolds(t, g, avail) /\ NoMore(t, avail)
<1> DEFINE N == DCTSIZE + 1
           S == {s \in WriterType : SameWriter(w, s) /\ SameOutput(w, s) /\ PreHolds(s, g, avail)}
           step == [s \in S |-> Preprocessed(s, avail)]
           F(f) == f = [n \in 0 .. N |-> IF n = 0 THEN w ELSE Preprocessed(f[n - 1], avail)]
<1>1. DCTSIZE \in Nat \ {0} /\ N \in Nat
  BY RowsAssumption
<1>2. w \in S
  <2>1. w \in WriterType
    BY DEF PreHolds, CallHolds, WriterTyped
  <2> QED
    BY <2>1 DEF SameWriter, SameOutput
<1>3. ASSUME NEW s \in S PROVE Preprocessed(s, avail) \in S
  <2> DEFINE t == Preprocessed(s, avail)
  <2>1. SameWriter(s, t) /\ SameOutput(s, t) /\ PreHolds(t, g, avail)
    BY PreprocessedHolds
  <2> HIDE DEF t
  <2>2. SameWriter(w, s) /\ SameOutput(w, s)
    OBVIOUS
  <2>3. t \in WriterType
    BY <2>1 DEF PreHolds, CallHolds, WriterTyped
  <2>4. SameWriter(w, t) /\ SameOutput(w, t)
    BY <2>1, <2>2 DEF SameWriter, SameOutput
  <2>5. t \in S
    BY <2>1, <2>3, <2>4
  <2> QED
    BY <2>5 DEF t
<1>4. \A s \in S : SameWriter(w, s) /\ SameOutput(w, s) /\ PreHolds(s, g, avail)
  OBVIOUS
<1> HIDE DEF S
<1>5. step \in [S -> S]
  BY <1>3
<1>6. PICK after \in [0 .. N -> S] : Repeats(after, N, w, step)
  <2> HIDE DEF step, N
  <2> QED
    BY <1>1, <1>2, <1>5, LoopIsDefined
<1>7. F(after)
  <2>1. ASSUME NEW i \in 0 .. N PROVE after[i] = IF i = 0 THEN w ELSE Preprocessed(after[i - 1], avail)
    <3>1. after[i] = IF i = 0 THEN w ELSE step[after[i - 1]]
      <4> HIDE DEF step, N
      <4> QED
        BY <1>6 DEF Repeats
    <3>2. i # 0 => i - 1 \in 0 .. N
      BY <1>1
    <3>3. i # 0 => after[i - 1] \in S
      BY <1>6, <3>2
    <3> QED
      BY <3>1, <3>3
  <2> HIDE DEF step, N
  <2> QED
    BY <1>6, <2>1
<1> DEFINE all == CHOOSE f : F(f)
<1>8. F(all)
  BY <1>7
<1>9. pre_process(w, avail) = all[N]
  BY DEF pre_process
<1> HIDE DEF all, N, step
<1>10. \A i \in 0 .. N : all[i] = IF i = 0 THEN w ELSE Preprocessed(all[i - 1], avail)
  <2>1. all = [i \in 0 .. N |-> IF i = 0 THEN w ELSE Preprocessed(all[i - 1], avail)]
    BY <1>8
  <2> QED
    BY <2>1
<1> DEFINE last(s) == IF s.in = avail THEN 1 ELSE 0
           P == {n \in Nat : n <= N => /\ all[n] \in S
                                       /\ NoMore(all[n], avail) \/ n <= Len(all[n].groups) + last(all[n])}
<1>11. 0 \in P
  <2>1. 0 \in 0 .. N
    BY <1>1
  <2>2. all[0] = w
    BY <1>10, <2>1
  <2>3. Len(w.groups) \in Nat
    <3>1. w.groups \in Seq(RowGroup)
      BY WriterNumbers DEF PreHolds, CallHolds
    <3> QED
      BY <3>1
  <2>4. last(w) \in {0, 1}
    OBVIOUS
  <2> HIDE DEF last
  <2>5. 0 <= Len(w.groups) + last(w)
    BY <2>3, <2>4
  <2> QED
    BY <1>2, <2>2, <2>5
<1>12. ASSUME NEW n \in P PROVE n + 1 \in P
  <2> HIDE DEF last
  <2>0. n \in Nat /\ n + 1 \in Nat
    OBVIOUS
  <2> SUFFICES ASSUME n + 1 <= N
               PROVE  /\ all[n + 1] \in S
                      /\ NoMore(all[n + 1], avail) \/ n + 1 <= Len(all[n + 1].groups) + last(all[n + 1])
    BY <2>0
  <2>1. n \in Nat /\ n <= N /\ n + 1 \in 0 .. N /\ n + 1 # 0 /\ (n + 1) - 1 = n
    BY <1>1
  <2> DEFINE s == all[n]
             t == all[n + 1]
  <2>2. s \in S /\ (NoMore(s, avail) \/ n <= Len(s.groups) + last(s))
    BY <2>1
  <2>3. t = Preprocessed(s, avail)
    BY <1>10, <2>1
  <2> HIDE DEF s, t
  <2>4. t \in S /\ PreHolds(s, g, avail) /\ PreHolds(t, g, avail)
    BY <1>3, <1>4, <2>2, <2>3
  <2>5. NoMore(s, avail) => t = s
    BY <2>3, <2>4, PreprocessedHolds
  <2>6. ~NoMore(s, avail) => Progress(s, t, avail)
    BY <2>3, <2>4, PreprocessedHolds
  <2>7. CASE NoMore(s, avail)
    BY <2>4, <2>5, <2>7 DEF t
  <2>8. CASE ~NoMore(s, avail)
    <3>1. WriterTyped(s) /\ WriterTyped(t) /\ t.in <= avail /\ s.in <= avail
      BY <2>4 DEF PreHolds, CallHolds
    <3>2. s.groups \in Seq(RowGroup) /\ t.groups \in Seq(RowGroup) /\ s.in \in Int /\ t.in \in Int
      BY <3>1, WriterNumbers
    <3>3. Len(s.groups) \in Nat /\ Len(t.groups) \in Nat
      BY <3>2
    <3>4. s.in <= t.in /\ (Len(t.groups) > Len(s.groups) \/ (Len(t.groups) = Len(s.groups) /\ s.in < avail /\ t.in = avail))
      BY <2>6, <2>8 DEF Progress
    <3>5. n <= Len(s.groups) + last(s)
      BY <2>2, <2>8
    <3>6. n + 1 <= Len(t.groups) + last(t)
      <4> DEFINE a == Len(s.groups)
                 b == Len(t.groups)
      <4>1. a \in Nat /\ b \in Nat /\ s.in \in Int /\ t.in \in Int /\ t.in <= avail /\ s.in <= avail
        BY <3>1, <3>2, <3>3
      <4>2. s.in <= t.in /\ (b > a \/ (b = a /\ s.in < avail /\ t.in = avail)) /\ n <= a + last(s)
        BY <3>4, <3>5
      <4> HIDE DEF a, b
      <4>3. n + 1 <= b + last(t)
        BY <2>1, <4>1, <4>2 DEF last
      <4> QED
        BY <4>3 DEF b
    <3> QED
      BY <2>4, <3>6 DEF t
  <2> QED
    BY <2>7, <2>8
<1>13. P = Nat
  <2>1. P \in SUBSET Nat
    OBVIOUS
  <2> HIDE DEF P
  <2> QED
    BY <1>11, <1>12, <2>1, Induction
<1> DEFINE u == all[N]
<1>14. u \in S /\ (NoMore(u, avail) \/ N <= Len(u.groups) + last(u))
  <2>1. N \in P /\ N <= N
    BY <1>1, <1>13
  <2> QED
    BY <2>1
<1> HIDE DEF u
<1>15. SameWriter(w, u) /\ SameOutput(w, u) /\ PreHolds(u, g, avail)
  BY <1>4, <1>14
<1>16. NoMore(u, avail)
  <2> SUFFICES ASSUME ~NoMore(u, avail) PROVE FALSE
    OBVIOUS
  <2>1. N <= Len(u.groups) + last(u) /\ last(u) \in {0, 1}
    BY <1>14
  <2>2. WriterTyped(u) /\ Len(u.groups) <= DCTSIZE
    BY <1>15 DEF PreHolds, CallHolds
  <2>3. u.groups \in Seq(RowGroup)
    BY <2>2, WriterNumbers
  <2>4. Len(u.groups) \in Nat
    BY <2>3
  <2>5. Len(u.groups) = DCTSIZE
    <3> DEFINE a == Len(u.groups)
               b == last(u)
    <3>1. a \in Nat /\ a <= DCTSIZE /\ DCTSIZE + 1 <= a + b /\ b \in {0, 1}
      BY <2>1, <2>2, <2>4 DEF N
    <3> HIDE DEF a, b
    <3>2. a = DCTSIZE
      BY <1>1, <3>1
    <3> QED
      BY <3>2 DEF a
  <2> QED
    BY <2>5 DEF NoMore, NoMoreContext, NoMoreData
<1> QED
  BY <1>9, <1>15, <1>16 DEF u

-----------------------------------------------------------------------------
(* A call of jpeg_write_scanlines, and what holds between two of them.     *)

\* The row that a suspended call has taken and does not count.
Owed(w) == IF w.suspended THEN 1 ELSE 0

WriterHolds(w) ==
  LET g == w.cur_iMCU_row * DCTSIZE
  IN /\ WriterTyped(w) /\ Len(w.groups) <= DCTSIZE
     /\ w.suspended => Len(w.groups) = DCTSIZE
     /\ w.cur_iMCU_row <= total_iMCU_rows(w)
     /\ 0 <= w.rows_to_go /\ w.next_scanline + w.in + Owed(w) = w.height - w.rows_to_go
     /\ IF w.context THEN ContextHolds(w, g) ELSE DataHolds(w, g)
     /\ GroupsHold(w, w.groups, g)
     /\ GroupsHold(w, w.sent, w.first) /\ w.first + Len(w.sent) = g

\* In a call, the application has avail rows.
Offered(w, avail) == w.in + Owed(w) <= avail /\ avail - w.in - Owed(w) <= w.rows_to_go

LEMMA FilledHolds ==
  ASSUME NEW w, NEW avail \in Int, WriterHolds(w), Offered(w, avail)
  PROVE  LET t == Filled(w, avail)
         IN /\ SameWriter(w, t) /\ SameOutput(w, t) /\ WriterHolds(t) /\ Offered(t, avail)
            /\ Len(t.groups) # DCTSIZE => ~t.suspended /\ NoMore(t, avail)
<1> DEFINE g == w.cur_iMCU_row * DCTSIZE
           t == Filled(w, avail)
<1>1. CASE Len(w.groups) = DCTSIZE
  <2>1. t = w
    BY <1>1 DEF Filled
  <2> HIDE DEF t
  <2> QED
    BY <1>1, <2>1 DEF SameWriter, SameOutput, t
<1>2. CASE Len(w.groups) # DCTSIZE
  <2>1. t = pre_process(w, avail) /\ ~w.suspended /\ Owed(w) = 0
    BY <1>2 DEF Filled, WriterHolds, Owed
  <2> HIDE DEF t
  <2>2. WriterTyped(w)
    BY DEF WriterHolds
  <2>3. w.cur_iMCU_row \in Nat /\ w.in \in Int /\ w.next_scanline \in Int /\ w.rows_to_go \in Int /\ DCTSIZE \in Nat
    BY <2>2, WriterNumbers, RowsAssumption
  <2>4. g \in Nat
    BY <2>3
  <2>5. w.next_scanline + w.in = w.height - w.rows_to_go /\ w.in <= avail /\ avail - w.in <= w.rows_to_go
    <3>1. w.next_scanline + w.in + Owed(w) = w.height - w.rows_to_go
          /\ w.in + Owed(w) <= avail /\ avail - w.in - Owed(w) <= w.rows_to_go
      BY DEF WriterHolds, Offered
    <3>2. w.next_scanline + w.in + 0 = w.next_scanline + w.in /\ w.in + 0 = w.in /\ avail - w.in - 0 = avail - w.in
      BY <2>3
    <3> QED
      BY <2>1, <3>1, <3>2
  <2>6. PreHolds(w, g, avail)
    BY <2>5 DEF WriterHolds, PreHolds, CallHolds
  <2> HIDE DEF g
  <2>7. SameWriter(w, t) /\ SameOutput(w, t) /\ PreHolds(t, g, avail) /\ NoMore(t, avail)
    BY <2>1, <2>4, <2>6, PreProcessHolds
  <2>8. ~t.suspended /\ Owed(t) = 0 /\ t.cur_iMCU_row * DCTSIZE = g
    BY <2>1, <2>7 DEF SameOutput, Owed, g
  <2>9. /\ WriterTyped(t) /\ t.in <= avail /\ avail - t.in <= t.rows_to_go
        /\ t.next_scanline + t.in = t.height - t.rows_to_go
    BY <2>7 DEF PreHolds, CallHolds
  <2>10. t.in \in Int /\ t.next_scanline \in Int
    BY <2>9, WriterNumbers
  <2>11. t.next_scanline + t.in + Owed(t) = t.height - t.rows_to_go /\ Offered(t, avail)
    <3>1. t.next_scanline + t.in + Owed(t) = t.next_scanline + t.in
          /\ t.in + Owed(t) = t.in /\ avail - t.in - Owed(t) = avail - t.in
      BY <2>8, <2>10
    <3> QED
      BY <2>9, <3>1 DEF Offered
  <2>12. total_iMCU_rows(t) = total_iMCU_rows(w) /\ t.cur_iMCU_row = w.cur_iMCU_row
    BY <2>7 DEF SameWriter, SameOutput, total_iMCU_rows
  <2>13. GroupsHold(t, t.sent, t.first) /\ t.first + Len(t.sent) = g
    <3>1. t.sent = w.sent /\ t.first = w.first
      BY <2>7 DEF SameOutput
    <3>2. GroupsHold(w, w.sent, w.first) /\ w.first + Len(w.sent) = g
      BY DEF WriterHolds, g
    <3> QED
      BY <2>7, <3>1, <3>2, GroupsStay
  <2>14. w.cur_iMCU_row <= total_iMCU_rows(w)
    BY DEF WriterHolds
  <2>15. WriterHolds(t)
    BY <2>7, <2>8, <2>11, <2>12, <2>13, <2>14 DEF WriterHolds, PreHolds, CallHolds
  <2> QED
    BY <2>7, <2>8, <2>11, <2>15 DEF t
<1> QED
  BY <1>1, <1>2

\* A picture is through when as many iMCU rows as it has are.
LEMMA TotalIs ==
  ASSUME NEW w, w.V \in {1, 2}, w.height \in Nat \ {0}, NEW c \in Nat, w.height <= (c * DCTSIZE) * w.V
  PROVE  total_iMCU_rows(w) \in Int /\ total_iMCU_rows(w) <= c
<1> DEFINE m == w.V * DCTSIZE
           h == w.height
           a == h + m - 1
<1>1. DCTSIZE \in Nat \ {0}
  BY RowsAssumption
<1>2. m \in Nat \ {0} /\ (c * DCTSIZE) * w.V = c * m
  <2>1. CASE w.V = 1
    BY <1>1, <2>1
  <2>2. CASE w.V = 2
    BY <1>1, <2>2
  <2> QED
    BY <2>1, <2>2
<1>3. total_iMCU_rows(w) = a \div m
  BY DEF total_iMCU_rows, CeilDiv
<1>4. h \in Nat \ {0} /\ h <= c * m
  BY <1>2
<1> HIDE DEF m, h
<1>5. a \in Int /\ c + 1 \in Int
  BY <1>2, <1>4
<1>6. (c + 1) * m = c * m + m /\ c * m \in Int
  BY <1>2
<1>7. ~((c + 1) * m <= a)
  BY <1>2, <1>4, <1>6
<1> HIDE DEF a
<1>8. c + 1 <= a \div m <=> (c + 1) * m <= a
  BY <1>2, <1>5, QuotientIsLeast
<1>9. a \div m \in Int
  BY <1>2, <1>5, Quotient
<1> QED
  BY <1>3, <1>7, <1>8, <1>9

\* Row groups that follow others.
LEMMA GroupsFollow ==
  ASSUME NEW w, NEW sent \in Seq(RowGroup), NEW groups \in Seq(RowGroup), NEW f \in Int, NEW g \in Int,
         GroupsHold(w, sent, f), GroupsHold(w, groups, g), f + Len(sent) = g
  PROVE  sent \o groups \in Seq(RowGroup) /\ Len(sent \o groups) = Len(sent) + Len(groups)
         /\ GroupsHold(w, sent \o groups, f)
<1> DEFINE all == sent \o groups
<1>1. all \in Seq(RowGroup) /\ Len(all) = Len(sent) + Len(groups) /\ Len(sent) \in Nat /\ Len(groups) \in Nat
  OBVIOUS
<1>2. ASSUME NEW i \in DOMAIN all, (f + i - 1) * w.V < w.height
      PROVE  all[i] = Wanted(w, f + i - 1)
  <2>1. i \in 1 .. Len(sent) + Len(groups)
    BY <1>1
  <2>2. CASE i <= Len(sent)
    <3>1. i \in DOMAIN sent /\ all[i] = sent[i]
      BY <1>1, <2>1, <2>2
    <3> QED
      BY <1>2, <3>1 DEF GroupsHold
  <2>3. CASE ~(i <= Len(sent))
    <3> DEFINE j == i - Len(sent)
    <3>1. j \in DOMAIN groups /\ all[i] = groups[j]
      BY <1>1, <2>1, <2>3
    <3>2. g + j - 1 = f + i - 1
      BY <1>1, <2>1
    <3> HIDE DEF j, all
    <3>3. groups[j] = Wanted(w, g + j - 1)
      BY <1>2, <3>1, <3>2 DEF GroupsHold
    <3> QED
      BY <3>1, <3>2, <3>3
  <2> QED
    BY <2>2, <2>3
<1> HIDE DEF all
<1>3. GroupsHold(w, all, f)
  BY <1>2 DEF GroupsHold
<1> QED
  BY <1>1, <1>3 DEF all

LEMMA TotalIsInt ==
  ASSUME NEW w, w.V \in {1, 2}, w.height \in Nat \ {0}
  PROVE  total_iMCU_rows(w) \in Int
<1> DEFINE m == w.V * DCTSIZE
           a == w.height + m - 1
<1>1. m \in Nat \ {0}
  <2>1. CASE w.V = 1
    BY <2>1, RowsAssumption
  <2>2. CASE w.V = 2
    BY <2>2, RowsAssumption
  <2> QED
    BY <2>1, <2>2
<1>2. total_iMCU_rows(w) = a \div m
  BY DEF total_iMCU_rows, CeilDiv
<1> HIDE DEF m
<1>3. a \in Int
  BY <1>1
<1> HIDE DEF a
<1> QED
  BY <1>1, <1>2, <1>3, Quotient

LEMMA CompressedHolds ==
  ASSUME NEW w, NEW avail \in Int, WriterHolds(w), Offered(w, avail)
  PROVE  LET t == Compressed(w, avail)
         IN /\ SameWriter(w, t) /\ t.next_scanline = w.next_scanline
            /\ WriterHolds(t) /\ Offered(t, avail)
<1> DEFINE full == Filled(w, avail)
           g == w.cur_iMCU_row * DCTSIZE
           in == IF w.suspended THEN full.in + 1 ELSE full.in
           sent == full.sent \o full.groups
           t == [full EXCEPT !.in = in, !.suspended = FALSE,
                             !.sent = sent, !.groups = <<>>, !.cur_iMCU_row = w.cur_iMCU_row + 1]
<1>1. /\ SameWriter(w, full) /\ SameOutput(w, full) /\ WriterHolds(full) /\ Offered(full, avail)
  BY FilledHolds
<1>2. CASE w.cur_iMCU_row = total_iMCU_rows(w) \/ Len(full.groups) # DCTSIZE
  <2>1. Compressed(w, avail) = w
    BY <1>2 DEF Compressed, PassedOn
  <2> HIDE DEF full
  <2> QED
    BY <1>1, <2>1 DEF SameWriter
<1>3. CASE w.cur_iMCU_row # total_iMCU_rows(w) /\ Len(full.groups) = DCTSIZE
  <2>1. Compressed(w, avail) = t
    <3>1. full.cur_iMCU_row = w.cur_iMCU_row
      BY <1>1 DEF SameOutput
    <3> QED
      BY <1>3, <3>1 DEF Compressed, PassedOn
  <2> HIDE DEF full
  <2>2. WriterTyped(full)
    BY <1>1 DEF WriterHolds
  <2>3. /\ full.V \in {1, 2} /\ full.height \in Nat \ {0} /\ full.rows_to_go \in Int /\ full.next_scanline \in Int
        /\ full.in \in Int /\ full.cur_iMCU_row \in Nat /\ full.first \in Int /\ DCTSIZE \in Nat
    BY <2>2, WriterNumbers, RowsAssumption
  <2>4. full.groups \in Seq(RowGroup) /\ full.sent \in Seq(RowGroup)
    BY <2>2, WriterNumbers
  <2>5. /\ full.cur_iMCU_row = w.cur_iMCU_row /\ full.suspended = w.suspended
        /\ full.V = w.V /\ full.height = w.height /\ full.context = w.context /\ full.next_scanline = w.next_scanline
    BY <1>1 DEF SameOutput, SameWriter
  <2>6. in \in Int /\ in = full.in + Owed(full)
    BY <2>3, <2>5 DEF Owed
  <2>7. g \in Nat /\ (w.cur_iMCU_row + 1) * DCTSIZE = g + DCTSIZE
    BY <2>3, <2>5
  <2>8. /\ GroupsHold(full, full.groups, g) /\ GroupsHold(full, full.sent, full.first)
        /\ full.first + Len(full.sent) = g
        /\ IF full.context THEN ContextHolds(full, g) ELSE DataHolds(full, g)
    BY <1>1, <2>5 DEF WriterHolds
  <2>9. /\ full.next_scanline + in = full.height - full.rows_to_go /\ 0 <= full.rows_to_go
        /\ in <= avail /\ avail - in <= full.rows_to_go
    <3>1. /\ full.next_scanline + full.in + Owed(full) = full.height - full.rows_to_go /\ 0 <= full.rows_to_go
          /\ full.in + Owed(full) <= avail /\ avail - full.in - Owed(full) <= full.rows_to_go
      BY <1>1 DEF WriterHolds, Offered
    <3>2. Owed(full) \in Int
      BY DEF Owed
    <3> HIDE DEF in
    <3> QED
      BY <2>3, <2>6, <3>1, <3>2
  <2> HIDE DEF in, g
  <2>10. /\ sent \in Seq(RowGroup) /\ Len(sent) = Len(full.sent) + Len(full.groups)
         /\ GroupsHold(full, sent, full.first)
    BY <2>3, <2>4, <2>7, <2>8, GroupsFollow
  <2>11. full.first + Len(sent) = g + DCTSIZE
    <3> DEFINE a == Len(full.sent)
    <3>1. a \in Nat
      BY <2>4
    <3>2. Len(sent) = a + DCTSIZE /\ full.first + a = g
      BY <1>3, <2>8, <2>10
    <3> HIDE DEF a, sent
    <3> QED
      BY <2>3, <2>7, <3>1, <3>2
  <2> HIDE DEF sent
  <2>12. w.cur_iMCU_row + 1 \in Nat
    BY <2>3, <2>5
  <2>13. /\ t \in WriterType
         /\ t.context = full.context /\ t.V = full.V /\ t.height = full.height /\ t.color_buf = full.color_buf
         /\ t.next_buf_row = full.next_buf_row /\ t.next_buf_stop = full.next_buf_stop
         /\ t.this_row_group = full.this_row_group /\ t.rows_to_go = full.rows_to_go
         /\ t.next_scanline = full.next_scanline /\ t.first = full.first
         /\ t.in = in /\ t.suspended = FALSE /\ t.sent = sent /\ t.groups = <<>>
         /\ t.cur_iMCU_row = w.cur_iMCU_row + 1
    <3>1. full \in WriterType
      BY <2>2 DEF WriterTyped
    <3>2. <<>> \in Seq(RowGroup)
      OBVIOUS
    <3> DEFINE c == w.cur_iMCU_row + 1
    <3>3. c \in Nat
      BY <2>12
    <3> HIDE DEF c
    <3> DEFINE u == [full EXCEPT !.in = in, !.suspended = FALSE, !.sent = sent, !.groups = <<>>, !.cur_iMCU_row = c]
    <3>4. /\ u \in WriterType
          /\ u.context = full.context /\ u.V = full.V /\ u.height = full.height /\ u.color_buf = full.color_buf
          /\ u.next_buf_row = full.next_buf_row /\ u.next_buf_stop = full.next_buf_stop
          /\ u.this_row_group = full.this_row_group /\ u.rows_to_go = full.rows_to_go
          /\ u.next_scanline = full.next_scanline /\ u.first = full.first
          /\ u.in = in /\ u.suspended = FALSE /\ u.sent = sent /\ u.groups = <<>> /\ u.cur_iMCU_row = c
      BY <2>6, <2>10, <3>1, <3>2, <3>3 DEF WriterType
    <3> QED
      BY <3>4 DEF c
  <2> HIDE DEF t
  <2>14. WriterTyped(t)
    BY <2>2, <2>13 DEF WriterTyped
  <2>15. SameWriter(w, t) /\ SameWriter(full, t)
    BY <2>5, <2>13 DEF SameWriter
  <2>16. Len(t.groups) = 0 /\ DOMAIN t.groups = {} /\ Owed(t) = 0
    BY <2>13 DEF Owed
  <2>17. t.cur_iMCU_row * DCTSIZE = g + DCTSIZE
    BY <2>7, <2>13
  <2>18. /\ total_iMCU_rows(t) = total_iMCU_rows(w) /\ total_iMCU_rows(t) \in Int
         /\ t.cur_iMCU_row <= total_iMCU_rows(t)
    <3>1. total_iMCU_rows(t) = total_iMCU_rows(w)
      BY <2>15 DEF SameWriter, total_iMCU_rows
    <3>2. total_iMCU_rows(t) \in Int
      BY <2>3, <2>13, TotalIsInt
    <3>3. w.cur_iMCU_row <= total_iMCU_rows(w) /\ w.cur_iMCU_row \in Nat
      BY <2>3, <2>5 DEF WriterHolds
    <3> QED
      BY <1>3, <2>13, <3>1, <3>2, <3>3
  <2> DEFINE x == (g + DCTSIZE) * full.V
  <2>19. x \in Nat /\ ((g + DCTSIZE) + 0) * t.V = x
    <3>1. g + DCTSIZE \in Nat /\ (g + DCTSIZE) + 0 = g + DCTSIZE
      BY <2>3, <2>7
    <3> QED
      BY <2>3, <2>13, <3>1, TimesV
  <2> HIDE DEF x
  <2>20. IF t.context THEN ContextHolds(t, g + DCTSIZE) ELSE DataHolds(t, g + DCTSIZE)
    <3>1. CASE full.context
      <4>1. RingHolds(full, x) /\ Ahead(full) < 2 * full.V
        BY <1>3, <2>8, <3>1 DEF ContextHolds, x
      <4>2. Base(t) = Base(full)
        BY <2>13 DEF Base
      <4>3. Ahead(t) = Ahead(full)
        BY <2>13, <4>2 DEF Ahead
      <4>4. RingStands(t, x)
        BY <2>13, <4>1, <4>2, <4>3 DEF RingHolds, RingStands
      <4>5. \A j : Slot(t, j) = Slot(full, j)
        BY <2>13 DEF Slot
      <4>6. RingHolds(t, x)
        BY <2>13, <4>1, <4>3, <4>4, <4>5 DEF RingHolds
      <4> QED
        BY <2>13, <2>16, <2>19, <3>1, <4>1, <4>3, <4>6 DEF ContextHolds
    <3>2. CASE ~full.context
      <4>1. RowsHold(full, x)
        BY <1>3, <2>8, <3>2 DEF DataHolds, x
      <4>2. CASE full.rows_to_go > 0
        <5>1. RowsHold(t, x)
          BY <2>13, <4>1, <4>2 DEF RowsHold
        <5> QED
          BY <2>13, <2>16, <2>19, <3>2, <5>1 DEF DataHolds
      <4>3. CASE ~(full.rows_to_go > 0)
        <5>1. full.height <= x
          BY <4>1, <4>3 DEF RowsHold
        <5>2. t.height <= (t.cur_iMCU_row * DCTSIZE) * t.V
          BY <2>13, <2>17, <5>1 DEF x
        <5>3. total_iMCU_rows(t) <= t.cur_iMCU_row
          BY <2>3, <2>12, <2>13, <5>2, TotalIs
        <5>4. t.cur_iMCU_row = total_iMCU_rows(t)
          BY <2>12, <2>13, <2>18, <5>3
        <5>5. RowsHold(t, x)
          BY <2>13, <4>3, <5>1, <5>4 DEF RowsHold
        <5> QED
          BY <2>13, <2>16, <2>19, <3>2, <5>5 DEF DataHolds
      <4> QED
        BY <4>2, <4>3
    <3> QED
      BY <2>13, <3>1, <3>2
  <2>21. GroupsHold(t, t.sent, t.first) /\ t.first + Len(t.sent) = g + DCTSIZE
    <3>1. GroupsHold(t, sent, full.first)
      BY <2>10, <2>15, GroupsStay
    <3> QED
      BY <2>11, <2>13, <3>1
  <2>22. GroupsHold(t, t.groups, g + DCTSIZE)
    BY <2>16 DEF GroupsHold
  <2>23. t.next_scanline + t.in + Owed(t) = t.height - t.rows_to_go /\ Offered(t, avail)
    <3>1. /\ t.next_scanline + in + Owed(t) = t.next_scanline + in /\ in + Owed(t) = in
          /\ avail - in - Owed(t) = avail - in
      BY <2>3, <2>6, <2>13, <2>16
    <3> QED
      BY <2>9, <2>13, <3>1 DEF Offered
  <2>24. WriterHolds(t)
    <3>1. Len(t.groups) <= DCTSIZE /\ ~t.suspended /\ 0 <= t.rows_to_go
      BY <2>3, <2>9, <2>13, <2>16
    <3> QED
      BY <2>14, <2>17, <2>18, <2>20, <2>21, <2>22, <2>23, <3>1 DEF WriterHolds
  <2> QED
    BY <2>1, <2>5, <2>13, <2>15, <2>23, <2>24
<1> QED
  BY <1>2, <1>3

\* What a call does not change once its rounds are over.
SameBuffers(w, u) ==
  /\ u.context = w.context /\ u.V = w.V /\ u.height = w.height /\ u.color_buf = w.color_buf
  /\ u.next_buf_row = w.next_buf_row /\ u.next_buf_stop = w.next_buf_stop
  /\ u.this_row_group = w.this_row_group /\ u.rows_to_go = w.rows_to_go
  /\ u.groups = w.groups /\ u.cur_iMCU_row = w.cur_iMCU_row

LEMMA BuffersHold ==
  ASSUME NEW w, NEW t, SameBuffers(w, t), NEW g, IF w.context THEN ContextHolds(w, g) ELSE DataHolds(w, g)
  PROVE  IF t.context THEN ContextHolds(t, g) ELSE DataHolds(t, g)
<1> DEFINE x == (g + Len(w.groups)) * w.V
<1>1. Base(t) = Base(w)
  BY DEF Base, SameBuffers
<1>2. Ahead(t) = Ahead(w)
  BY <1>1 DEF Ahead, SameBuffers
<1>3. \A j : Slot(t, j) = Slot(w, j)
  BY DEF Slot, SameBuffers
<1>4. (g + Len(t.groups)) * t.V = x
  BY DEF SameBuffers
<1>5. CASE w.context
  <2>1. RingHolds(w, x) /\ Ahead(w) < 2 * w.V
    BY <1>5 DEF ContextHolds
  <2> HIDE DEF x
  <2>2. RingHolds(t, x)
    BY <1>1, <1>2, <1>3, <2>1 DEF RingHolds, RingStands, SameBuffers
  <2> QED
    BY <1>2, <1>4, <1>5, <2>1, <2>2 DEF ContextHolds, SameBuffers
<1>6. CASE ~w.context
  <2>1. RowsHold(w, x)
    BY <1>6 DEF DataHolds
  <2> HIDE DEF x
  <2>2. total_iMCU_rows(t) = total_iMCU_rows(w)
    BY DEF total_iMCU_rows, SameBuffers
  <2>3. RowsHold(t, x)
    BY <2>1, <2>2 DEF RowsHold, SameBuffers
  <2> QED
    BY <1>4, <1>6, <2>3 DEF DataHolds, SameBuffers
<1> QED
  BY <1>5, <1>6 DEF SameBuffers

\* A row is taken back when the compressed data cannot go out.
LEMMA HeldHolds ==
  ASSUME NEW w, WriterHolds(w), Len(w.groups) = DCTSIZE
  PROVE  LET t == Held(w)
         IN SameWriter(w, t) /\ t.next_scanline = w.next_scanline /\ WriterHolds(t) /\ t.suspended
<1> DEFINE in == w.in - 1
           t == [w EXCEPT !.in = in, !.suspended = TRUE]
<1>1. CASE w.suspended
  BY <1>1 DEF Held, SameWriter
<1>2. CASE ~w.suspended
  <2>1. Held(w) = t
    BY <1>2 DEF Held
  <2>2. WriterTyped(w)
    BY DEF WriterHolds
  <2>3. w \in WriterType /\ in \in Int /\ w.in \in Int /\ w.next_scanline \in Int
    BY <2>2, WriterNumbers DEF WriterTyped
  <2>4. in + 1 = w.in
    BY <2>3
  <2> HIDE DEF in
  <2>5. /\ t \in WriterType
        /\ t.context = w.context /\ t.V = w.V /\ t.height = w.height /\ t.color_buf = w.color_buf
        /\ t.next_buf_row = w.next_buf_row /\ t.next_buf_stop = w.next_buf_stop
        /\ t.this_row_group = w.this_row_group /\ t.rows_to_go = w.rows_to_go
        /\ t.next_scanline = w.next_scanline /\ t.first = w.first /\ t.sent = w.sent /\ t.groups = w.groups
        /\ t.cur_iMCU_row = w.cur_iMCU_row /\ t.in = in /\ t.suspended = TRUE
    BY <2>3 DEF WriterType
  <2> HIDE DEF t
  <2>6. WriterTyped(t) /\ SameWriter(w, t)
    BY <2>2, <2>5 DEF WriterTyped, SameWriter
  <2>7. t.next_scanline + t.in + Owed(t) = w.next_scanline + w.in + Owed(w)
    <3>1. Owed(t) = 1 /\ Owed(w) = 0
      BY <1>2, <2>5 DEF Owed
    <3> QED
      BY <2>3, <2>4, <2>5, <3>1
  <2>8. total_iMCU_rows(t) = total_iMCU_rows(w)
    BY <2>5 DEF total_iMCU_rows
  <2> DEFINE g == w.cur_iMCU_row * DCTSIZE
  <2>9. /\ GroupsHold(w, w.groups, g) /\ GroupsHold(w, w.sent, w.first) /\ w.first + Len(w.sent) = g
        /\ IF w.context THEN ContextHolds(w, g) ELSE DataHolds(w, g)
        /\ w.cur_iMCU_row <= total_iMCU_rows(w) /\ 0 <= w.rows_to_go /\ Len(w.groups) <= DCTSIZE
        /\ w.next_scanline + w.in + Owed(w) = w.height - w.rows_to_go
    BY DEF WriterHolds
  <2> HIDE DEF g
  <2>10. GroupsHold(t, t.groups, g) /\ GroupsHold(t, t.sent, t.first)
    BY <2>5, <2>6, <2>9, GroupsStay
  <2>11. IF t.context THEN ContextHolds(t, g) ELSE DataHolds(t, g)
    <3>1. SameBuffers(w, t)
      BY <2>5 DEF SameBuffers
    <3> QED
      BY <2>9, <3>1, BuffersHold
  <2>12. WriterHolds(t)
    BY <2>5, <2>6, <2>7, <2>8, <2>9, <2>10, <2>11 DEF WriterHolds, g
  <2> QED
    BY <2>1, <2>5, <2>6, <2>12
<1> QED
  BY <1>1, <1>2

\* A call that takes the last row has compressed all.
AllSent(w) == w.next_scanline + w.in = w.height => w.cur_iMCU_row = total_iMCU_rows(w)

LEMMA MainHolds ==
  ASSUME NEW w, NEW avail \in Int, NEW could \in Nat, WriterHolds(w), Offered(w, avail)
  PROVE  LET t == process_data_simple_main(w, avail, could)
         IN SameWriter(w, t) /\ t.next_scanline = w.next_scanline /\ WriterHolds(t) /\ AllSent(t)
<1> DEFINE S == {s \in WriterType : /\ SameWriter(w, s) /\ s.next_scanline = w.next_scanline
                                    /\ WriterHolds(s) /\ Offered(s, avail)}
           step == [s \in S |-> Compressed(s, avail)]
           F(f) == f = [n \in 0 .. could |-> IF n = 0 THEN w ELSE Compressed(f[n - 1], avail)]
<1>1. w \in S
  BY DEF WriterHolds, WriterTyped, SameWriter
<1>2. ASSUME NEW s \in S PROVE Compressed(s, avail) \in S
  <2> DEFINE t == Compressed(s, avail)
  <2>1. SameWriter(w, s) /\ s.next_scanline = w.next_scanline /\ WriterHolds(s) /\ Offered(s, avail)
    OBVIOUS
  <2>2. SameWriter(s, t) /\ t.next_scanline = s.next_scanline /\ WriterHolds(t) /\ Offered(t, avail)
    BY <2>1, CompressedHolds
  <2> HIDE DEF t
  <2>3. t \in WriterType /\ SameWriter(w, t)
    BY <2>1, <2>2 DEF SameWriter, WriterHolds, WriterTyped
  <2>4. t \in S
    BY <2>1, <2>2, <2>3
  <2> QED
    BY <2>4 DEF t
<1>3. \A s \in S : SameWriter(w, s) /\ s.next_scanline = w.next_scanline /\ WriterHolds(s) /\ Offered(s, avail)
  OBVIOUS
<1> HIDE DEF S
<1>4. step \in [S -> S]
  BY <1>2
<1>5. PICK after \in [0 .. could -> S] : Repeats(after, could, w, step)
  <2> HIDE DEF step
  <2> QED
    BY <1>1, <1>4, LoopIsDefined
<1>6. F(after)
  <2>1. ASSUME NEW i \in 0 .. could PROVE after[i] = IF i = 0 THEN w ELSE Compressed(after[i - 1], avail)
    <3>1. after[i] = IF i = 0 THEN w ELSE step[after[i - 1]]
      <4> HIDE DEF step
      <4> QED
        BY <1>5 DEF Repeats
    <3>2. i # 0 => i - 1 \in 0 .. could
      OBVIOUS
    <3>3. i # 0 => after[i - 1] \in S
      BY <1>5, <3>2
    <3> QED
      BY <3>1, <3>3
  <2> HIDE DEF step
  <2> QED
    BY <1>5, <2>1
<1> DEFINE all == CHOOSE f : F(f)
           done == all[could]
           full == Filled(done, avail)
<1>7. F(all)
  BY <1>6
<1>8. process_data_simple_main(w, avail, could) =
        IF done.cur_iMCU_row = total_iMCU_rows(done) THEN done
        ELSE IF Len(full.groups) # DCTSIZE THEN full ELSE Held(full)
  <2>1. process_data_simple_main(w, avail, could) = Remaining(done, avail)
    BY DEF process_data_simple_main
  <2> HIDE DEF done
  <2> QED
    BY <2>1 DEF Remaining, Stopped
<1> HIDE DEF all, step
<1>9. \A i \in 0 .. could : all[i] = IF i = 0 THEN w ELSE Compressed(all[i - 1], avail)
  <2>1. all = [i \in 0 .. could |-> IF i = 0 THEN w ELSE Compressed(all[i - 1], avail)]
    BY <1>7
  <2> QED
    BY <2>1
<1> DEFINE P == {n \in Nat : n <= could => all[n] \in S}
<1>10. 0 \in P
  <2>1. 0 \in 0 .. could
    OBVIOUS
  <2>2. all[0] = w
    BY <1>9, <2>1
  <2> QED
    BY <1>1, <2>2
<1>11. ASSUME NEW n \in P PROVE n + 1 \in P
  <2>1. n \in Nat /\ n + 1 \in Nat
    OBVIOUS
  <2>2. ASSUME n + 1 <= could PROVE all[n + 1] \in S
    <3>1. n + 1 \in 0 .. could /\ n + 1 # 0 /\ (n + 1) - 1 = n /\ n <= could
      BY <2>1, <2>2
    <3>2. all[n + 1] = Compressed(all[n], avail)
      BY <1>9, <3>1
    <3> QED
      BY <1>2, <3>1, <3>2
  <2> QED
    BY <2>1, <2>2
<1>12. P = Nat
  <2>1. P \in SUBSET Nat
    OBVIOUS
  <2> HIDE DEF P
  <2> QED
    BY <1>10, <1>11, <2>1, Induction
<1>13. done \in S
  <2>1. could \in P /\ could <= could
    BY <1>12
  <2> QED
    BY <2>1
<1> HIDE DEF done
<1>14. SameWriter(w, done) /\ done.next_scanline = w.next_scanline /\ WriterHolds(done) /\ Offered(done, avail)
  BY <1>3, <1>13
<1>15. CASE done.cur_iMCU_row = total_iMCU_rows(done)
  BY <1>8, <1>14, <1>15 DEF AllSent
<1>16. CASE done.cur_iMCU_row # total_iMCU_rows(done)
  <2>1. /\ SameWriter(done, full) /\ SameOutput(done, full) /\ WriterHolds(full) /\ Offered(full, avail)
        /\ Len(full.groups) # DCTSIZE => ~full.suspended /\ NoMore(full, avail)
    BY <1>14, FilledHolds
  <2> HIDE DEF full
  <2>2. SameWriter(w, full) /\ full.next_scanline = w.next_scanline
    BY <1>14, <2>1 DEF SameWriter, SameOutput
  <2>3. /\ full.next_scanline + full.in + Owed(full) = full.height - full.rows_to_go /\ 0 <= full.rows_to_go
        /\ IF full.context THEN ContextHolds(full, full.cur_iMCU_row * DCTSIZE)
           ELSE DataHolds(full, full.cur_iMCU_row * DCTSIZE)
    BY <2>1 DEF WriterHolds
  <2>4. full.next_scanline \in Int /\ full.in \in Int /\ full.rows_to_go \in Int /\ full.height \in Int
    <3>1. WriterTyped(full)
      BY <2>1 DEF WriterHolds
    <3> QED
      BY <3>1, WriterNumbers
  <2>5. CASE Len(full.groups) # DCTSIZE
    <3>1. process_data_simple_main(w, avail, could) = full
      BY <1>8, <1>16, <2>5
    <3>2. full.cur_iMCU_row # total_iMCU_rows(full)
      BY <1>16, <2>1 DEF SameOutput, SameWriter, total_iMCU_rows
    <3>3. full.rows_to_go # 0
      <4>1. CASE full.context
        BY <2>1, <2>5, <4>1 DEF NoMore, NoMoreContext
      <4>2. CASE ~full.context
        <5>1. RowsHold(full, (full.cur_iMCU_row * DCTSIZE + Len(full.groups)) * full.V)
          BY <2>3, <4>2 DEF DataHolds
        <5>2. ~(0 > 0)
          OBVIOUS
        <5> QED
          BY <2>5, <3>2, <5>1, <5>2 DEF RowsHold
      <4> QED
        BY <4>1, <4>2
    <3>4. Owed(full) = 0
      BY <2>1, <2>5 DEF Owed
    <3>5. full.next_scanline + full.in # full.height
      BY <2>3, <2>4, <3>3, <3>4
    <3> QED
      BY <2>1, <2>2, <3>1, <3>5 DEF AllSent
  <2>6. CASE Len(full.groups) = DCTSIZE
    <3> DEFINE t == Held(full)
    <3>1. process_data_simple_main(w, avail, could) = t
      BY <1>8, <1>16, <2>6
    <3>2. SameWriter(full, t) /\ t.next_scanline = full.next_scanline /\ WriterHolds(t) /\ t.suspended
      BY <2>1, <2>6, HeldHolds
    <3> HIDE DEF t
    <3>3. WriterTyped(t) /\ t.next_scanline + t.in + Owed(t) = t.height - t.rows_to_go /\ 0 <= t.rows_to_go
      BY <3>2 DEF WriterHolds
    <3>4. t.next_scanline \in Int /\ t.in \in Int /\ t.rows_to_go \in Int /\ t.height \in Nat
      BY <3>3, WriterNumbers
    <3>5. Owed(t) = 1
      BY <3>2 DEF Owed
    <3>6. t.next_scanline + t.in # t.height
      BY <3>3, <3>4, <3>5
    <3>7. SameWriter(w, t) /\ t.next_scanline = w.next_scanline
      BY <2>2, <3>2 DEF SameWriter
    <3> QED
      BY <3>1, <3>2, <3>6, <3>7 DEF AllSent
  <2> QED
    BY <2>5, <2>6
<1> QED
  BY <1>15, <1>16

WriterInv(w) == WriterHolds(w) /\ w.in = 0 /\ AllSent(w)

LEMMA WritersHold ==
  ASSUME NEW w \in Writers
  PROVE  WriterInv(w)
<1>1. PICK c \in BOOLEAN, v \in {1, 2}, h \in Heights :
        w = [context |-> c, V |-> v, height |-> h, color_buf |-> [i \in 0 .. 3 * v - 1 |-> -1],
             next_buf_row |-> 0, next_buf_stop |-> IF c THEN 2 * v ELSE v, this_row_group |-> 0,
             rows_to_go |-> h, next_scanline |-> 0, in |-> 0, groups |-> <<>>,
             cur_iMCU_row |-> 0, suspended |-> FALSE, first |-> 0, sent |-> <<>>]
  BY DEF Writers
<1>2. /\ w.context = c /\ w.V = v /\ w.height = h /\ w.color_buf = [i \in 0 .. 3 * v - 1 |-> -1]
      /\ w.next_buf_row = 0 /\ w.next_buf_stop = (IF c THEN 2 * v ELSE v) /\ w.this_row_group = 0
      /\ w.rows_to_go = h /\ w.next_scanline = 0 /\ w.in = 0 /\ w.groups = <<>> /\ w.cur_iMCU_row = 0
      /\ w.suspended = FALSE /\ w.first = 0 /\ w.sent = <<>>
  BY <1>1
<1>3. h \in Nat \ {0} /\ DCTSIZE \in Nat \ {0}
  BY RowsAssumption
<1>4. WriterTyped(w)
  <2> DEFINE buf == [i \in 0 .. 3 * v - 1 |-> -1]
             stop == IF c THEN 2 * v ELSE v
  <2>1. buf \in Buffers /\ DOMAIN buf = 0 .. 3 * v - 1
    <3>1. v = 1 => buf \in [0 .. 2 -> Int]
      OBVIOUS
    <3>2. v = 2 => buf \in [0 .. 5 -> Int]
      OBVIOUS
    <3> QED
      BY <3>1, <3>2 DEF Buffers
  <2>2. stop \in Int /\ <<>> \in Seq(RowGroup) /\ 0 \in Int /\ 0 \in Nat /\ h \in Int /\ FALSE \in BOOLEAN
    BY <1>3
  <2>3. w = [context |-> c, V |-> v, height |-> h, color_buf |-> buf,
             next_buf_row |-> 0, next_buf_stop |-> stop, this_row_group |-> 0,
             rows_to_go |-> h, next_scanline |-> 0, in |-> 0, groups |-> <<>>,
             cur_iMCU_row |-> 0, suspended |-> FALSE, first |-> 0, sent |-> <<>>]
    BY <1>1
  <2> HIDE DEF buf, stop
  <2>4. w \in WriterType /\ w.color_buf = buf
    BY <2>1, <2>2, <2>3 DEF WriterType
  <2> QED
    BY <1>2, <2>1, <2>4 DEF WriterTyped
<1>5. w.cur_iMCU_row * DCTSIZE = 0 /\ Len(w.groups) = 0 /\ DOMAIN w.groups = {} /\ Owed(w) = 0
  BY <1>2, <1>3 DEF Owed
<1>6. total_iMCU_rows(w) \in Int /\ 0 < total_iMCU_rows(w)
  <2>1. total_iMCU_rows(w) \in Int
    BY <1>2, <1>3, TotalIsInt
  <2>2. ~(total_iMCU_rows(w) <= 0)
    <3> DEFINE m == w.V * DCTSIZE
               a == w.height + m - 1
    <3>1. m \in Nat \ {0}
      <4>1. CASE v = 1
        BY <1>2, <1>3, <4>1
      <4>2. CASE v = 2
        BY <1>2, <1>3, <4>2
      <4> QED
        BY <4>1, <4>2
    <3>2. total_iMCU_rows(w) = a \div m
      BY DEF total_iMCU_rows, CeilDiv
    <3>3. w.height \in Nat \ {0}
      BY <1>2, <1>3
    <3> HIDE DEF m
    <3>4. a \in Int /\ 1 * m <= a
      BY <3>1, <3>3
    <3> HIDE DEF a
    <3>5. 1 <= a \div m <=> 1 * m <= a
      BY <3>1, <3>4, QuotientIsLeast
    <3> QED
      BY <2>1, <3>2, <3>4, <3>5
  <2> QED
    BY <2>1, <2>2
<1>7. CASE w.context
  <2>1. Base(w) = v /\ Ahead(w) = 0
    <3>1. Base(w) = v
      BY <1>2 DEF Base
    <3> QED
      BY <1>2, <3>1 DEF Ahead
  <2>2. RingHolds(w, 0)
    <3>1. RingStands(w, 0)
      BY <1>2, <1>7, <2>1 DEF RingStands
    <3>2. 0 + Ahead(w) = 0 /\ w.height - w.rows_to_go = 0 /\ w.rows_to_go # 0
      BY <1>2, <1>3, <2>1
    <3> QED
      BY <3>1, <3>2 DEF RingHolds
  <2>3. ContextHolds(w, 0)
    <3>1. (0 + Len(w.groups)) * w.V = 0 /\ Ahead(w) < 2 * w.V
      BY <1>2, <1>5, <2>1
    <3> QED
      BY <1>7, <2>2, <3>1 DEF ContextHolds
  <2> QED
    BY <1>2, <1>3, <1>4, <1>5, <1>6, <1>7, <2>3 DEF WriterInv, WriterHolds, AllSent, GroupsHold
<1>8. CASE ~w.context
  <2>1. (0 + Len(w.groups)) * w.V = 0
    BY <1>2, <1>5
  <2>2. RowsHold(w, 0)
    BY <1>2, <1>3 DEF RowsHold
  <2>3. DataHolds(w, 0)
    BY <1>8, <2>1, <2>2 DEF DataHolds
  <2> QED
    BY <1>2, <1>3, <1>4, <1>5, <1>6, <1>8, <2>3 DEF WriterInv, WriterHolds, AllSent, GroupsHold
<1> QED
  BY <1>7, <1>8

LEMMA WriterGoesOn ==
  ASSUME writer # Idle => WriterInv(writer), jpeg_write_scanlines
  PROVE  WriterInv(writer') /\ writer # Idle /\ reader' = reader
<1>1. writer # Idle /\ WriterInv(writer) /\ reader' = reader
  BY DEF Idle, jpeg_write_scanlines
<1>2. PICK lines \in Room, could \in 0 .. 2 :
        LET w == process_data_simple_main([writer EXCEPT !.in = 0, !.sent = <<>>, !.first = @ + Len(writer.sent)],
                                          Least(lines, writer.height - writer.next_scanline), could)
        IN writer' = [w EXCEPT !.next_scanline = @ + w.in, !.in = 0]
  BY DEF jpeg_write_scanlines
<1> DEFINE first == writer.first + Len(writer.sent)
           v == [writer EXCEPT !.in = 0, !.sent = <<>>, !.first = first]
           avail == Least(lines, writer.height - writer.next_scanline)
           w == process_data_simple_main(v, avail, could)
<1>3. writer' = [w EXCEPT !.next_scanline = @ + w.in, !.in = 0]
  BY <1>2
<1>4. WriterHolds(writer) /\ writer.in = 0 /\ WriterTyped(writer)
  BY <1>1 DEF WriterInv, WriterHolds
<1>5. /\ writer \in WriterType /\ writer.first \in Int /\ writer.next_scanline \in Int /\ writer.height \in Nat \ {0}
      /\ writer.rows_to_go \in Int /\ writer.in \in Int
  BY <1>4, WriterNumbers DEF WriterTyped
<1>6. Len(writer.sent) \in Nat
  <2>1. writer.sent \in Seq(RowGroup)
    BY <1>4, WriterNumbers
  <2> QED
    BY <2>1
<1>7. first \in Int
  BY <1>5, <1>6
<1> DEFINE g == writer.cur_iMCU_row * DCTSIZE
<1>8. /\ first = g /\ GroupsHold(writer, writer.groups, g)
      /\ IF writer.context THEN ContextHolds(writer, g) ELSE DataHolds(writer, g)
      /\ writer.cur_iMCU_row <= total_iMCU_rows(writer) /\ 0 <= writer.rows_to_go /\ Len(writer.groups) <= DCTSIZE
      /\ writer.suspended => Len(writer.groups) = DCTSIZE
      /\ writer.next_scanline + writer.in + Owed(writer) = writer.height - writer.rows_to_go
  BY <1>4 DEF WriterHolds
<1> HIDE DEF first, g
<1>9. /\ v \in WriterType /\ SameBuffers(writer, v) /\ SameWriter(writer, v)
      /\ v.next_scanline = writer.next_scanline /\ v.suspended = writer.suspended
      /\ v.in = 0 /\ v.sent = <<>> /\ v.first = first
  <2>1. <<>> \in Seq(RowGroup) /\ 0 \in Int
    OBVIOUS
  <2> QED
    BY <1>5, <1>7, <2>1 DEF WriterType, SameBuffers, SameWriter
<1> HIDE DEF v
<1>10. WriterHolds(v)
  <2>1. WriterTyped(v)
    BY <1>4, <1>9 DEF WriterTyped, SameBuffers
  <2>2. v.groups = writer.groups /\ v.cur_iMCU_row = writer.cur_iMCU_row /\ v.rows_to_go = writer.rows_to_go
        /\ v.height = writer.height /\ Owed(v) = Owed(writer)
    BY <1>9 DEF SameBuffers, Owed
  <2>3. IF v.context THEN ContextHolds(v, g) ELSE DataHolds(v, g)
    BY <1>8, <1>9, BuffersHold
  <2>4. GroupsHold(v, v.groups, g)
    BY <1>8, <1>9, <2>2, GroupsStay
  <2>5. GroupsHold(v, v.sent, v.first) /\ v.first + Len(v.sent) = g
    <3>1. DOMAIN v.sent = {} /\ Len(v.sent) = 0
      BY <1>9
    <3>2. g + 0 = g
      BY <1>7, <1>8
    <3> QED
      BY <1>8, <1>9, <3>1, <3>2 DEF GroupsHold
  <2>6. total_iMCU_rows(v) = total_iMCU_rows(writer)
    BY <1>9 DEF SameBuffers, total_iMCU_rows
  <2> QED
    BY <1>4, <1>8, <1>9, <2>1, <2>2, <2>3, <2>4, <2>5, <2>6 DEF WriterHolds, g
<1>11. avail \in Int /\ avail >= 1 /\ avail <= writer.height - writer.next_scanline
  <2>1. lines \in Nat \ {0}
    BY RowsAssumption
  <2> DEFINE b == writer.height - writer.next_scanline
  <2>2. b \in Int /\ b >= 1
    BY <1>5 DEF jpeg_write_scanlines
  <2> HIDE DEF b
  <2>3. Least(lines, b) = IF lines <= b THEN lines ELSE b
    BY <2>1, <2>2, LeastIs
  <2> QED
    BY <2>1, <2>2, <2>3 DEF b
<1> HIDE DEF avail
<1>12. Offered(v, avail)
  <2>1. Owed(v) = Owed(writer) /\ Owed(v) \in {0, 1} /\ v.rows_to_go = writer.rows_to_go
    BY <1>9 DEF Owed, SameBuffers
  <2>2. writer.next_scanline + 0 + Owed(writer) = writer.height - writer.rows_to_go
    BY <1>4, <1>8
  <2>3. 0 + Owed(v) <= avail /\ avail - 0 - Owed(v) <= writer.rows_to_go
    BY <1>5, <1>11, <2>1, <2>2
  <2> QED
    BY <1>9, <2>1, <2>3 DEF Offered
<1>13. SameWriter(v, w) /\ w.next_scanline = v.next_scanline /\ WriterHolds(w) /\ AllSent(w)
  <2>1. could \in Nat
    OBVIOUS
  <2> QED
    BY <1>10, <1>11, <1>12, <2>1, MainHolds
<1> HIDE DEF w
<1> DEFINE next == w.next_scanline + w.in
           t == [w EXCEPT !.next_scanline = next, !.in = 0]
<1>14. writer' = t
  BY <1>3
<1>15. WriterTyped(w) /\ w \in WriterType /\ w.next_scanline \in Int /\ w.in \in Int
  BY <1>13, WriterNumbers DEF WriterHolds, WriterTyped
<1>16. next \in Int /\ next + 0 = next /\ w.next_scanline + w.in = next
  BY <1>15
<1> HIDE DEF next
<1>17. /\ t \in WriterType /\ SameBuffers(w, t) /\ SameWriter(w, t)
       /\ t.next_scanline = next /\ t.in = 0 /\ t.suspended = w.suspended /\ t.sent = w.sent /\ t.first = w.first
  <2>1. 0 \in Int
    OBVIOUS
  <2> QED
    BY <1>15, <1>16, <2>1 DEF WriterType, SameBuffers, SameWriter
<1> HIDE DEF t
<1> DEFINE k == w.cur_iMCU_row * DCTSIZE
<1>18. /\ GroupsHold(w, w.groups, k) /\ GroupsHold(w, w.sent, w.first) /\ w.first + Len(w.sent) = k
       /\ IF w.context THEN ContextHolds(w, k) ELSE DataHolds(w, k)
       /\ w.cur_iMCU_row <= total_iMCU_rows(w) /\ 0 <= w.rows_to_go /\ Len(w.groups) <= DCTSIZE
       /\ w.suspended => Len(w.groups) = DCTSIZE
       /\ next + Owed(w) = w.height - w.rows_to_go
  BY <1>13, <1>16 DEF WriterHolds
<1> HIDE DEF k
<1>19. /\ WriterTyped(t) /\ t.groups = w.groups /\ t.cur_iMCU_row = w.cur_iMCU_row /\ t.rows_to_go = w.rows_to_go
       /\ t.height = w.height /\ Owed(t) = Owed(w) /\ total_iMCU_rows(t) = total_iMCU_rows(w)
  BY <1>15, <1>17 DEF WriterTyped, SameBuffers, Owed, total_iMCU_rows
<1>20. IF t.context THEN ContextHolds(t, k) ELSE DataHolds(t, k)
  BY <1>17, <1>18, BuffersHold
<1>21. GroupsHold(t, t.groups, k) /\ GroupsHold(t, t.sent, t.first)
  BY <1>17, <1>18, <1>19, GroupsStay
<1>22. t.next_scanline + t.in + Owed(t) = t.height - t.rows_to_go
  BY <1>16, <1>17, <1>18, <1>19
<1>23. WriterHolds(t)
  BY <1>17, <1>18, <1>19, <1>20, <1>21, <1>22 DEF WriterHolds, k
<1>24. AllSent(t)
  BY <1>13, <1>16, <1>17, <1>19 DEF AllSent
<1> QED
  BY <1>1, <1>14, <1>17, <1>23, <1>24 DEF WriterInv

\* What the writer's half of the property says.
WriterInPlace(w) ==
  /\ \A i \in DOMAIN w.sent : LET g == w.first + i - 1 IN g * w.V < w.height => w.sent[i] = Wanted(w, g)
  /\ w.next_scanline = w.height => w.cur_iMCU_row = total_iMCU_rows(w)
  /\ w.next_scanline <= w.height

LEMMA WriterIsInPlace ==
  ASSUME NEW w, WriterInv(w)
  PROVE  WriterInPlace(w)
<1>1. /\ WriterTyped(w) /\ GroupsHold(w, w.sent, w.first) /\ w.in = 0 /\ AllSent(w)
      /\ 0 <= w.rows_to_go /\ w.next_scanline + w.in + Owed(w) = w.height - w.rows_to_go
  BY DEF WriterInv, WriterHolds
<1>2. w.next_scanline \in Int /\ w.height \in Nat /\ w.rows_to_go \in Int /\ Owed(w) \in {0, 1}
  BY <1>1, WriterNumbers DEF Owed
<1>3. w.next_scanline + w.in = w.next_scanline /\ w.next_scanline <= w.height
  BY <1>1, <1>2
<1> QED
  BY <1>1, <1>3 DEF WriterInPlace, GroupsHold, AllSent

-----------------------------------------------------------------------------
(* The reader.                                                             *)

LEMMA LeastOfThree ==
  ASSUME NEW a \in Int, NEW b \in Int, NEW c \in Int
  PROVE  LET m == Min({a, b, c}) IN m \in {a, b, c} /\ m <= a /\ m <= b /\ m <= c
<1> DEFINE m == IF a <= b /\ a <= c THEN a ELSE IF b <= c THEN b ELSE c
<1>1. m \in {a, b, c} /\ \A y \in {a, b, c} : m <= y
  OBVIOUS
<1>2. \A x \in {a, b, c} : (\A y \in {a, b, c} : x <= y) => x = m
  OBVIOUS
<1> HIDE DEF m
<1>3. Min({a, b, c}) = m
  BY <1>1, <1>2 DEF Min
<1> QED
  BY <1>1, <1>3

\* A record with the fields of a reader.
IsReader(r) ==
  r \in [context : {r.context}, R : {r.R}, M : {r.M}, height : {r.height},
         downsampled_height : {r.downsampled_height}, buffer : {r.buffer}, xbuffer : {r.xbuffer},
         whichptr : {r.whichptr}, state : {r.state}, buffer_full : {r.buffer_full},
         iMCU_row_ctr : {r.iMCU_row_ctr}, rowgroup_ctr : {r.rowgroup_ctr},
         rowgroups_avail : {r.rowgroups_avail}, color : {r.color}, next_row_out : {r.next_row_out},
         rows_to_go : {r.rows_to_go}, output_scanline : {r.output_scanline}, first : {r.first}, out : {r.out}]

\* What stays as it is while rows are put out.
SameSource(r, t) ==
  /\ t.context = r.context /\ t.R = r.R /\ t.M = r.M /\ t.height = r.height
  /\ t.downsampled_height = r.downsampled_height /\ t.buffer = r.buffer /\ t.xbuffer = r.xbuffer
  /\ t.whichptr = r.whichptr /\ t.state = r.state /\ t.buffer_full = r.buffer_full
  /\ t.iMCU_row_ctr = r.iMCU_row_ctr /\ t.rowgroups_avail = r.rowgroups_avail
  /\ t.output_scanline = r.output_scanline /\ t.first = r.first

\* The numbers of a reader that has put out some of its rows.
Counted(r, room) ==
  /\ r.next_row_out \in 0 .. 2 /\ r.rows_to_go \in Nat /\ r.rowgroup_ctr \in Int
  /\ r.out \in Seq(Seq(Int)) /\ Len(r.out) <= room

\* The row of the row group that is put out next.
NextRow(r) == IF r.next_row_out < 2 THEN r.next_row_out ELSE 0

\* What sep_upsample does, with the row group in the conversion buffer.
Converted(r) == IF r.next_row_out < 2 THEN r ELSE [r EXCEPT !.color = Upsampled(r), !.next_row_out = 0]

LEMMA ConvertedIs ==
  ASSUME NEW r, IsReader(r), r.next_row_out \in 0 .. 2
  PROVE  LET f == Converted(r)
         IN /\ IsReader(f) /\ SameSource(r, f) /\ f.next_row_out = NextRow(r)
            /\ f.color = IF r.next_row_out < 2 THEN r.color ELSE Upsampled(r)
            /\ f.rows_to_go = r.rows_to_go /\ f.rowgroup_ctr = r.rowgroup_ctr /\ f.out = r.out
BY DEF Converted, IsReader, SameSource, NextRow

LEMMA SepIs ==
  ASSUME NEW r, IsReader(r), NEW room \in Int, Counted(r, room)
  PROVE  LET t == sep_upsample(r, room)
             f == Converted(r)
         IN \E n \in 0 .. 2 - NextRow(r) :
              /\ n <= r.rows_to_go /\ Len(r.out) + n <= room
              /\ IsReader(t) /\ SameSource(r, t)
              /\ t.color = f.color
              /\ t.rows_to_go = r.rows_to_go - n /\ t.next_row_out = NextRow(r) + n
              /\ t.rowgroup_ctr = IF NextRow(r) + n = 2 THEN r.rowgroup_ctr + 1 ELSE r.rowgroup_ctr
              /\ t.out = r.out \o [j \in 1 .. n |-> OutputRow(f, NextRow(r) + j - 1)]
<1> DEFINE t == sep_upsample(r, room)
           f == Converted(r)
           k == NextRow(r)
           n == Min({V - f.next_row_out, r.rows_to_go, room - Len(r.out)})
           next == k + n
           rows == [j \in 1 .. n |-> OutputRow(f, k + j - 1)]
           out == r.out \o rows
           left == r.rows_to_go - n
           q == IF next >= V THEN r.rowgroup_ctr + 1 ELSE r.rowgroup_ctr
<1>1. r.next_row_out \in 0 .. 2 /\ r.rows_to_go \in Nat /\ r.rowgroup_ctr \in Int /\ Len(r.out) \in Nat /\ Len(r.out) <= room
  BY DEF Counted
<1>2. /\ IsReader(f) /\ SameSource(r, f) /\ f.next_row_out = k
      /\ f.rows_to_go = r.rows_to_go /\ f.rowgroup_ctr = r.rowgroup_ctr /\ f.out = r.out
  BY <1>1, ConvertedIs
<1>3. k \in {0, 1}
  BY <1>1 DEF NextRow
<1>4. n \in 0 .. 2 - k /\ n <= r.rows_to_go /\ Len(r.out) + n <= room
  <2> DEFINE a == V - f.next_row_out
             b == r.rows_to_go
             c == room - Len(r.out)
  <2>1. a = 2 - k /\ b \in Nat /\ c \in Nat
    BY <1>1, <1>2, <1>3 DEF V
  <2>6. n = Min({a, b, c})
    OBVIOUS
  <2> HIDE DEF a, b, c, k, n
  <2>2. a \in Int /\ b \in Int /\ c \in Int
    BY <1>3, <2>1
  <2>3. n \in {a, b, c} /\ n <= a /\ n <= b /\ n <= c
    BY <2>2, <2>6, LeastOfThree
  <2>4. n \in 0 .. a
    BY <1>3, <2>1, <2>3
  <2>5. n <= b /\ Len(r.out) + n <= room
    BY <1>1, <2>1, <2>3, <2>4 DEF c
  <2> QED
    BY <2>1, <2>4, <2>5 DEF b
<1>5. t = [f EXCEPT !.out = out, !.rows_to_go = left, !.next_row_out = next, !.rowgroup_ctr = q]
  <2>1. (r.next_row_out < V) = (r.next_row_out < 2)
    BY DEF V
  <2>2. f = IF r.next_row_out < V THEN r ELSE [r EXCEPT !.color = Upsampled(r), !.next_row_out = 0]
    BY <2>1 DEF Converted
  <2> DEFINE g == IF r.next_row_out < V THEN r ELSE [r EXCEPT !.color = Upsampled(r), !.next_row_out = 0]
             m == Min({V - g.next_row_out, r.rows_to_go, room - Len(r.out)})
             after == g.next_row_out + m
  <2>3. t = [g EXCEPT !.out = @ \o [j \in 1 .. m |-> OutputRow(g, g.next_row_out + j - 1)],
                      !.rows_to_go = @ - m, !.next_row_out = after,
                      !.rowgroup_ctr = IF after >= V THEN @ + 1 ELSE @]
    BY DEF sep_upsample
  <2>4. g = f
    BY <2>2
  <2> HIDE DEF g, f, t
  <2> QED
    BY <1>2, <2>3, <2>4
<1> HIDE DEF f, t, n, next
<1>6. q = IF next = 2 THEN r.rowgroup_ctr + 1 ELSE r.rowgroup_ctr
  BY <1>3, <1>4 DEF V, next
<1> HIDE DEF out, left, q
<1>7. /\ IsReader(t) /\ SameSource(f, t) /\ t.color = f.color
      /\ t.out = out /\ t.rows_to_go = left /\ t.next_row_out = next /\ t.rowgroup_ctr = q
  BY <1>2, <1>5 DEF IsReader, SameSource
<1>8. SameSource(r, t)
  BY <1>2, <1>7 DEF SameSource
<1> QED
  BY <1>4, <1>6, <1>7, <1>8 DEF out, left, next, f, t

\* The sizes of its picture.
Sized(r) ==
  /\ r.context \in BOOLEAN /\ r.R \in {1, 2} /\ r.M \in Nat \ {0} /\ r.height \in Nat \ {0}
  /\ r.downsampled_height = CeilDiv(r.height * r.R, V)

LEMMA DownsampledIs ==
  ASSUME NEW r, Sized(r)
  PROVE  LET d == r.downsampled_height
         IN /\ d \in Nat \ {0}
            /\ r.R = 1 => r.height = 2 * d \/ r.height = 2 * d - 1
            /\ r.R = 2 => d = r.height
<1> DEFINE h == r.height
<1>1. h \in Nat \ {0} /\ r.R \in {1, 2} /\ r.downsampled_height = (h * r.R + 2 - 1) \div 2
  BY DEF Sized, CeilDiv, V
<1> HIDE DEF h
<1>2. CASE r.R = 1
  <2>1. r.downsampled_height = (h + 1) \div 2
    BY <1>1, <1>2
  <2>2. r.downsampled_height \in Nat \ {0} /\ (h = 2 * r.downsampled_height \/ h = 2 * r.downsampled_height - 1)
    BY <1>1, <2>1
  <2> QED
    BY <1>2, <2>2 DEF h
<1>3. CASE r.R = 2
  <2>1. r.downsampled_height = (h * 2 + 1) \div 2
    BY <1>1, <1>3
  <2> DEFINE a == h * 2 + 1
             d == a \div 2
  <2>3. a \in Int /\ 2 \in Nat \ {0} /\ a = 2 * h + 1
    BY <1>1
  <2> HIDE DEF a
  <2>4. d \in Int /\ 2 * d <= a /\ a < 2 * d + 2
    BY <2>3, Quotient
  <2> HIDE DEF d
  <2>5. d = h
    BY <1>1, <2>3, <2>4
  <2>2. r.downsampled_height = h
    BY <2>1, <2>5 DEF d, a
  <2> QED
    BY <1>1, <1>3, <2>2 DEF h
<1> QED
  BY <1>1, <1>2, <1>3

\* Row group G is next, or some of its rows are out.
At(r, G) == r.height - r.rows_to_go = 2 * G + NextRow(r)

\* The conversion buffer makes a row of two, of copies.
Copies(r) == r.context /\ r.R = 1

\* The list in use has row group G where rowgroup_ctr points to.
Shown(r, G) ==
  LET q == r.rowgroup_ctr
  IN IF Copies(r)
     THEN /\ Pointed(r, q) = G
          /\ Pointed(r, q - 1) = Clamp(G - 1, r.downsampled_height)
          /\ Pointed(r, q + 1) = Clamp(G + 1, r.downsampled_height)
     ELSE \A j \in 0 .. r.R - 1 : r.R * G + j < r.downsampled_height => Pointed(r, q * r.R + j) = r.R * G + j

\* What the conversion buffer holds of it.
ColorOf(r, G) ==
  IF Copies(r)
  THEN <<<<G, Clamp(G - 1, r.downsampled_height)>>, <<G, Clamp(G + 1, r.downsampled_height)>>>>
  ELSE <<r.rowgroup_ctr * r.R>>

Turned(r, G) == r.next_row_out < 2 => r.color = ColorOf(r, G)

\* The rows that are put out are those of the picture.
OutHolds(r) ==
  /\ r.first \in Nat /\ r.first + Len(r.out) = r.height - r.rows_to_go
  /\ r.out \in Seq(Seq(Int)) /\ \A j \in DOMAIN r.out : r.out[j] = OutputWanted(r, r.first + j - 1)

LEMMA RowPutOut ==
  ASSUME NEW r, IsReader(r), Sized(r), r.next_row_out \in 0 .. 2, r.rowgroup_ctr \in Int,
         NEW G \in Nat, Shown(r, G), Turned(r, G), NEW i \in {0, 1}, 2 * G + i < r.height
  PROVE  LET row == OutputRow(Converted(r), i)
         IN row = OutputWanted(r, 2 * G + i) /\ row \in Seq(Int)
<1> DEFINE f == Converted(r)
           y == 2 * G + i
           d == r.downsampled_height
           q == r.rowgroup_ctr
<1>1. /\ SameSource(r, f) /\ f.color = (IF r.next_row_out < 2 THEN r.color ELSE Upsampled(r))
      /\ f.rowgroup_ctr = q
  BY ConvertedIs
<1> HIDE DEF f
<1>2. /\ f.context = r.context /\ f.R = r.R /\ \A j : Pointed(f, j) = Pointed(r, j)
  BY <1>1 DEF SameSource, Pointed
<1>3. r.R \in {1, 2} /\ r.height \in Nat \ {0}
  BY DEF Sized
<1>4. d \in Nat \ {0} /\ (r.R = 1 => r.height = 2 * d \/ r.height = 2 * d - 1) /\ (r.R = 2 => d = r.height)
  BY DownsampledIs
<1> HIDE DEF d
<1>5. y \div 2 = G /\ y % 2 = i /\ y \in Nat
  BY <1>3
<1>6. f.color = ColorOf(r, G)
  <2>1. CASE r.next_row_out < 2
    BY <1>1, <2>1 DEF Turned
  <2>2. CASE ~(r.next_row_out < 2)
    <3>1. f.color = Upsampled(r)
      BY <1>1, <2>2
    <3>2. CASE Copies(r)
      <4>1. q * r.R = q
        BY <3>2 DEF Copies
      <4>2. Upsampled(r) = <<<<Pointed(r, q), Pointed(r, q - 1)>>, <<Pointed(r, q), Pointed(r, q + 1)>>>>
        BY <3>2, <4>1 DEF Copies, Upsampled
      <4> QED
        BY <3>1, <3>2, <4>2 DEF Shown, ColorOf
    <3>3. CASE ~Copies(r)
      BY <3>1, <3>3 DEF Upsampled, Copies, ColorOf
    <3> QED
      BY <3>2, <3>3
  <2> QED
    BY <2>1, <2>2
<1>7. CASE Copies(r)
  <2>1. OutputRow(f, i) = f.color[i + 1]
    BY <1>2, <1>7 DEF OutputRow, Copies
  <2>2. f.color = <<<<G, Clamp(G - 1, d)>>, <<G, Clamp(G + 1, d)>>>>
    BY <1>6, <1>7 DEF ColorOf, d
  <2>3. f.color[i + 1] = <<G, Clamp(IF i = 0 THEN G - 1 ELSE G + 1, d)>>
    <3>1. i = 0 \/ i = 1
      OBVIOUS
    <3>2. CASE i = 0
      BY <2>2, <3>2
    <3>3. CASE i = 1
      BY <2>2, <3>3
    <3> QED
      BY <3>1, <3>2, <3>3
  <2>4. OutputWanted(r, y) = <<G, Clamp(IF i = 0 THEN G - 1 ELSE G + 1, d)>>
    <3>1. r.R # 2 /\ r.context
      BY <1>7 DEF Copies
    <3> HIDE DEF y
    <3>2. OutputWanted(r, y) = <<G, Clamp(IF y % 2 = 0 THEN G - 1 ELSE G + 1, d)>>
      BY <1>5, <3>1 DEF OutputWanted, V, d
    <3> QED
      BY <1>5, <3>2
  <2>5. Clamp(IF i = 0 THEN G - 1 ELSE G + 1, d) \in Int
    <3> DEFINE e == IF i = 0 THEN G - 1 ELSE G + 1
    <3>1. e \in Int
      OBVIOUS
    <3> HIDE DEF e
    <3>2. Clamp(e, d) \in Int
      BY <1>4, <3>1, ClampIs
    <3> QED
      BY <3>2 DEF e
  <2> QED
    BY <2>1, <2>3, <2>4, <2>5 DEF f
<1>8. CASE ~Copies(r)
  <2> DEFINE j == IF r.R = 1 THEN 0 ELSE i
  <2>1. f.color[1] = q * r.R
    <3>1. f.color = <<q * r.R>>
      BY <1>6, <1>8 DEF ColorOf
    <3> QED
      BY <3>1
  <2>2. OutputRow(f, i) = <<Pointed(r, q * r.R + j)>>
    BY <1>2, <1>8, <2>1 DEF OutputRow, Copies
  <2>3. j \in 0 .. r.R - 1 /\ r.R * G + j < d
    <3>1. CASE r.R = 1
      BY <1>3, <1>4, <3>1
    <3>2. CASE r.R = 2
      BY <1>3, <1>4, <3>2
    <3> QED
      BY <1>3, <3>1, <3>2
  <2>4. Pointed(r, q * r.R + j) = r.R * G + j
    <3> HIDE DEF j
    <3> QED
      BY <1>8, <2>3 DEF Shown, d
  <2>5. OutputWanted(r, y) = <<r.R * G + j>>
    <3>1. CASE r.R = 1
      <4>1. ~r.context /\ r.R # 2
        BY <1>8, <3>1 DEF Copies
      <4>2. OutputWanted(r, y) = <<y \div 2>>
        BY <4>1 DEF OutputWanted, V
      <4>3. r.R * G + j = G
        BY <3>1
      <4> HIDE DEF y, j
      <4> QED
        BY <1>5, <4>2, <4>3
    <3>2. CASE r.R = 2
      <4>1. OutputWanted(r, y) = <<y>>
        BY <3>2 DEF OutputWanted, V
      <4>2. r.R * G + j = y
        BY <3>2
      <4> HIDE DEF y, j
      <4> QED
        BY <4>1, <4>2
    <3> QED
      BY <1>3, <3>1, <3>2
  <2>6. r.R * G + j \in Int
    BY <1>3
  <2> QED
    BY <2>2, <2>4, <2>5, <2>6 DEF f
<1> QED
  BY <1>7, <1>8

LEMMA GroupPutOut ==
  ASSUME NEW r, IsReader(r), Sized(r), NEW room \in Int, Counted(r, room), OutHolds(r),
         NEW G \in Nat, At(r, G), Shown(r, G), Turned(r, G)
  PROVE  LET t == sep_upsample(r, room)
         IN /\ IsReader(t) /\ SameSource(r, t) /\ Counted(t, room) /\ OutHolds(t)
            /\ t.rowgroup_ctr = IF t.next_row_out < 2 THEN r.rowgroup_ctr ELSE r.rowgroup_ctr + 1
            /\ At(t, IF t.next_row_out < 2 THEN G ELSE G + 1) /\ Turned(t, G)
<1> DEFINE t == sep_upsample(r, room)
           f == Converted(r)
           k == NextRow(r)
           h == r.height
<1>1. r.next_row_out \in 0 .. 2 /\ r.rowgroup_ctr \in Int
  BY DEF Counted
<1> DEFINE b == r.rows_to_go
           o == Len(r.out)
<1>a. r.out \in Seq(Seq(Int))
  BY DEF Counted
<1>b. b \in Nat /\ o \in Nat /\ o <= room
  BY <1>a DEF Counted
<1>2. PICK n \in 0 .. 2 - k :
        /\ n <= b /\ o + n <= room
        /\ IsReader(t) /\ SameSource(r, t)
        /\ t.color = f.color
        /\ t.rows_to_go = b - n /\ t.next_row_out = k + n
        /\ t.rowgroup_ctr = IF k + n = 2 THEN r.rowgroup_ctr + 1 ELSE r.rowgroup_ctr
        /\ t.out = r.out \o [j \in 1 .. n |-> OutputRow(f, k + j - 1)]
  BY SepIs
<1> HIDE DEF t
<1>3. k \in {0, 1} /\ h \in Nat /\ h - b = 2 * G + k
  BY <1>1 DEF NextRow, Sized, At
<1>c. n \in Nat /\ n <= 2 - k /\ n <= b /\ o + n <= room
  <2>1. n \in 0 .. 2 - k /\ n <= b /\ o + n <= room
    BY <1>2
  <2> HIDE DEF k, b, o
  <2> QED
    BY <1>3, <2>1
<1>4. ASSUME NEW j \in 1 .. n
      PROVE  /\ OutputRow(f, k + j - 1) = OutputWanted(r, 2 * G + (k + j - 1))
             /\ OutputRow(f, k + j - 1) \in Seq(Int)
  <2> DEFINE i == k + j - 1
  <2>1. i \in {0, 1} /\ 2 * G + i < h
    <3> HIDE DEF k, b, h
    <3>1. j \in Nat /\ 1 <= j /\ j <= n
      BY <1>c
    <3> QED
      BY <1>b, <1>c, <1>3, <3>1
  <2> HIDE DEF i
  <2>2. OutputRow(f, i) = OutputWanted(r, 2 * G + i) /\ OutputRow(f, i) \in Seq(Int)
    BY <1>1, <2>1, RowPutOut
  <2> QED
    BY <2>2 DEF i
<1> DEFINE rows == [j \in 1 .. n |-> OutputRow(f, k + j - 1)]
<1>5. rows \in Seq(Seq(Int)) /\ Len(rows) = n /\ DOMAIN rows = 1 .. n /\ n \in Nat
  <2> HIDE DEF f, k
  <2>1. n \in Nat
    BY <1>c
  <2>2. rows \in [1 .. n -> Seq(Int)]
    BY <1>4
  <2> HIDE DEF rows
  <2> QED
    BY <2>1, <2>2
<1>6. \A j \in 1 .. n : rows[j] = OutputWanted(r, 2 * G + (k + j - 1))
  <2> HIDE DEF f, k
  <2> QED
    BY <1>4
<1> HIDE DEF rows, f, k
<1>7. t.out = r.out \o rows
  BY <1>2 DEF rows
<1>8. t.out \in Seq(Seq(Int)) /\ Len(t.out) = o + n
  <2>1. Len(t.out) = Len(r.out) + Len(rows) /\ t.out \in Seq(Seq(Int))
    BY <1>a, <1>5, <1>7, ConcatProperties
  <2> QED
    BY <1>5, <2>1
<1>d. \A j \in 1 .. Len(r.out) + Len(rows) :
        t.out[j] = IF j <= Len(r.out) THEN r.out[j] ELSE rows[j - Len(r.out)]
  BY <1>a, <1>5, <1>7, ConcatProperties
<1>9. t.rows_to_go = b - n /\ t.next_row_out = k + n
  BY <1>2
<1> HIDE DEF b, o, h
<1>10. t.rows_to_go \in Nat /\ t.next_row_out \in 0 .. 2
  BY <1>b, <1>c, <1>3, <1>9
<1>11. t.rowgroup_ctr = IF t.next_row_out < 2 THEN r.rowgroup_ctr ELSE r.rowgroup_ctr + 1
  <2>1. t.rowgroup_ctr = IF t.next_row_out = 2 THEN r.rowgroup_ctr + 1 ELSE r.rowgroup_ctr
    BY <1>2
  <2> QED
    BY <1>10, <2>1
<1>12. Counted(t, room)
  <2>1. t.rowgroup_ctr \in Int
    BY <1>1, <1>11
  <2>2. Len(t.out) <= room
    BY <1>8, <1>c
  <2> QED
    BY <1>8, <1>10, <2>1, <2>2 DEF Counted
<1>13. At(t, IF t.next_row_out < 2 THEN G ELSE G + 1)
  <2>1. t.height = h
    BY <1>2 DEF SameSource, h
  <2>2. h - t.rows_to_go = 2 * G + t.next_row_out
    BY <1>b, <1>c, <1>3, <1>9
  <2>3. CASE t.next_row_out < 2
    BY <2>1, <2>2, <2>3 DEF At, NextRow
  <2>4. CASE ~(t.next_row_out < 2)
    <3>1. h - t.rows_to_go = 2 * (G + 1) + 0
      BY <1>10, <2>2, <2>4
    <3> QED
      BY <2>1, <2>4, <3>1 DEF At, NextRow
  <2> QED
    BY <2>3, <2>4
<1>14. Turned(t, G)
  <2> SUFFICES ASSUME t.next_row_out < 2 PROVE t.color = ColorOf(t, G)
    BY DEF Turned
  <2>1. t.rowgroup_ctr = r.rowgroup_ctr
    BY <1>11
  <2>2. ColorOf(t, G) = ColorOf(r, G)
    BY <1>2, <2>1 DEF ColorOf, SameSource, Copies
  <2>3. t.color = f.color
    BY <1>2
  <2>4. f.color = IF r.next_row_out < 2 THEN r.color ELSE Upsampled(r)
    BY <1>1, ConvertedIs DEF f
  <2>5. Upsampled(r) = ColorOf(r, G)
    <3>1. CASE Copies(r)
      <4>1. r.rowgroup_ctr * r.R = r.rowgroup_ctr
        BY <1>1, <3>1 DEF Copies
      <4> QED
        BY <3>1, <4>1 DEF Upsampled, ColorOf, Copies, Shown
    <3>2. CASE ~Copies(r)
      BY <3>2 DEF Upsampled, ColorOf, Copies
    <3> QED
      BY <3>1, <3>2
  <2> QED
    BY <2>2, <2>3, <2>4, <2>5 DEF Turned
<1>15. OutHolds(t)
  <2>1. r.first \in Nat /\ r.first + o = h - b
    BY DEF OutHolds, o, h, b
  <2>5. \A j \in DOMAIN r.out : r.out[j] = OutputWanted(r, r.first + j - 1)
    BY DEF OutHolds
  <2>6. t.first = r.first /\ t.height = h
    BY <1>2 DEF SameSource, h
  <2>2. t.first + Len(t.out) = t.height - t.rows_to_go
    <3>1. r.first + (o + n) = h - (b - n)
      BY <1>b, <1>c, <1>3, <2>1
    <3> QED
      BY <1>8, <1>9, <2>6, <3>1
  <2>3. ASSUME NEW j \in DOMAIN t.out PROVE t.out[j] = OutputWanted(r, r.first + j - 1)
    <3>1. DOMAIN t.out = 1 .. Len(t.out)
      BY <1>8
    <3>4. j \in Nat /\ 1 <= j /\ j <= o + n
      BY <1>8, <1>b, <1>c, <3>1
    <3>5. t.out[j] = IF j <= o THEN r.out[j] ELSE rows[j - o]
      <4>1. j \in 1 .. o + n
        BY <1>b, <1>c, <3>4
      <4> QED
        BY <1>d, <1>5, <4>1 DEF o
    <3>2. CASE j <= o
      <4>1. j \in 1 .. o
        BY <1>b, <3>4, <3>2
      <4>2. j \in DOMAIN r.out
        BY <1>a, <4>1 DEF o
      <4> QED
        BY <2>5, <3>2, <3>5, <4>2
    <3>3. CASE ~(j <= o)
      <4> DEFINE i == j - o
      <4>1. i \in 1 .. n
        BY <1>b, <1>c, <3>4, <3>3
      <4>2. 2 * G + (k + i - 1) = r.first + j - 1
        BY <1>b, <1>c, <1>3, <2>1, <3>4
      <4>3. t.out[j] = rows[i]
        BY <3>3, <3>5
      <4> HIDE DEF i
      <4> QED
        BY <1>6, <4>1, <4>2, <4>3
    <3> QED
      BY <3>2, <3>3
  <2>4. \A y : OutputWanted(t, y) = OutputWanted(r, y)
    BY <1>2 DEF OutputWanted, SameSource
  <2> QED
    BY <1>8, <2>2, <2>3, <2>4, <2>1, <2>6 DEF OutHolds
<1> QED
  BY <1>2, <1>11, <1>12, <1>13, <1>14, <1>15 DEF t

\* The rows of an iMCU row, with the two row groups that the buffer has besides, and
\* those before iMCU row c.
Rows(r) == r.R * r.M
Span(r) == Rows(r) + 2 * r.R
RowsBefore(r, c) == c * r.R * r.M

LEMMA RowsIs ==
  ASSUME NEW r, Sized(r)
  PROVE  /\ Rows(r) \in Nat /\ r.R <= Rows(r) /\ (r.R = 1 => Rows(r) = r.M)
         /\ r.R * (r.M + 1) = Rows(r) + r.R /\ r.R * (r.M + 2) = Span(r)
         /\ r.R * (r.M + 3) = Span(r) + r.R /\ Span(r) = Rows(r) + 2 * r.R
         /\ r.R * (r.M - 2) = Rows(r) - 2 * r.R /\ r.R * (r.M - 1) = Rows(r) - r.R
         /\ r.M >= 2 => 2 * r.R <= Rows(r)
<1> DEFINE R == r.R
           M == r.M
<1>1. R \in {1, 2} /\ M \in Nat \ {0}
  BY DEF Sized
<1> HIDE DEF R, M
<1>2. /\ R * M \in Nat /\ R <= R * M /\ (R = 1 => R * M = M)
      /\ R * (M + 1) = R * M + R /\ R * (M + 2) = R * M + 2 * R /\ R * (M + 3) = R * M + 3 * R
      /\ R * (M - 2) = R * M - 2 * R /\ R * (M - 1) = R * M - R
      /\ (M >= 2 => 2 * R <= R * M)
  <2>1. CASE R = 1
    BY <1>1, <2>1
  <2>2. CASE R = 2
    BY <1>1, <2>2
  <2> QED
    BY <1>1, <2>1, <2>2
<1>3. Span(r) = R * M + 2 * R
  BY DEF Span, Rows, R, M
<1> QED
  BY <1>1, <1>2, <1>3 DEF Rows, R, M

\* Products of a number of iMCU rows.
LEMMA TimesM ==
  ASSUME NEW c \in Nat, NEW M \in Nat \ {0}
  PROVE  c * M \in Nat /\ (c + 1) * M = c * M + M /\ (c > 0 => M <= c * M) /\ (c * 2) * M = 2 * (c * M)
         /\ c * (2 * M) = 2 * (c * M) /\ (c = 0 => c * M = 0)
<1>1. c * M \in Nat /\ (c + 1) * M = c * M + M /\ (c * 2) * M = 2 * (c * M) /\ c * (2 * M) = 2 * (c * M)
      /\ (c = 0 => c * M = 0)
  OBVIOUS
<1>2. ASSUME c > 0 PROVE M <= c * M
  <2>1. 1 \in Int /\ 1 <= c /\ c \in Int /\ M \in Nat
    BY <1>2
  <2>2. 1 * M <= c * M
    BY <2>1, Times
  <2> QED
    BY <2>2
<1> QED
  BY <1>1, <1>2

LEMMA RowsBeforeIs ==
  ASSUME NEW r, Sized(r), NEW c \in Nat
  PROVE  /\ RowsBefore(r, c) \in Nat /\ c * r.M \in Nat /\ RowsBefore(r, c) = r.R * (c * r.M) /\ RowsBefore(r, c) = c * Rows(r)
         /\ RowsBefore(r, c + 1) = RowsBefore(r, c) + Rows(r) /\ (c + 1) * r.M = c * r.M + r.M
         /\ c > 0 => Rows(r) <= RowsBefore(r, c) /\ r.M <= c * r.M
         /\ c = 0 => RowsBefore(r, c) = 0 /\ c * r.M = 0
<1> DEFINE R == r.R
           M == r.M
           b == c * M
           e == (c + 1) * M
<1>1. R \in {1, 2} /\ M \in Nat \ {0} /\ c + 1 \in Nat
  BY DEF Sized
<1> HIDE DEF R, M
<1>2. /\ b \in Nat /\ e = b + M /\ (c > 0 => M <= b) /\ (c = 0 => b = 0)
      /\ (c * 2) * M = 2 * b /\ ((c + 1) * 2) * M = 2 * e /\ c * (2 * M) = 2 * b
  BY <1>1, TimesM
<1>3. CASE R = 1
  <2>1. (c * R) * M = b /\ ((c + 1) * R) * M = e /\ R * M = M
    BY <1>1, <1>3
  <2> HIDE DEF b, e
  <2>2. /\ (c * R) * M = R * b /\ (c * R) * M = c * (R * M)
        /\ ((c + 1) * R) * M = (c * R) * M + R * M
    BY <1>1, <1>2, <1>3, <2>1 DEF b
  <2>3. b \in Nat /\ (c * R) * M \in Nat /\ (c > 0 => R * M <= (c * R) * M /\ M <= b) /\ (c = 0 => b = 0 /\ (c * R) * M = 0)
    BY <1>2, <2>1
  <2> QED
    BY <1>2, <2>2, <2>3 DEF RowsBefore, Rows, R, M, b, e
<1>4. CASE R = 2
  <2>1. (c * R) * M = 2 * b /\ ((c + 1) * R) * M = 2 * e /\ R * M = 2 * M
    BY <1>1, <1>2, <1>4
  <2> HIDE DEF b, e
  <2>2. /\ (c * R) * M = R * b /\ (c * R) * M = c * (R * M)
        /\ ((c + 1) * R) * M = (c * R) * M + R * M
    BY <1>1, <1>2, <1>4, <2>1
  <2>3. b \in Nat /\ (c * R) * M \in Nat /\ (c > 0 => R * M <= (c * R) * M /\ M <= b) /\ (c = 0 => b = 0 /\ (c * R) * M = 0)
    BY <1>1, <1>2, <2>1
  <2> QED
    BY <1>2, <2>2, <2>3 DEF RowsBefore, Rows, R, M, b, e
<1> QED
  BY <1>1, <1>3, <1>4

\* Which rows the last iMCU row has, and which those before.
LEMMA LastRows ==
  ASSUME NEW r, Sized(r), NEW c \in Nat
  PROVE  LET d == r.downsampled_height
         IN /\ total_rows(r) \in Nat \ {0} /\ rows_left(r) \in 1 .. Rows(r)
            /\ c < total_rows(r) => RowsBefore(r, c) < d
            /\ c + 1 < total_rows(r) => RowsBefore(r, c) + Rows(r) < d
            /\ c + 1 = total_rows(r) => d = RowsBefore(r, c) + rows_left(r)
<1> DEFINE d == r.downsampled_height
           B == Rows(r)
           t == total_rows(r)
           e == rows_left(r)
           a == d + B - 1
           b == RowsBefore(r, c)
           rest == d % B
<1>1. d \in Nat \ {0} /\ B \in Nat \ {0} /\ b \in Nat /\ b = c * B /\ RowsBefore(r, c + 1) = b + B
  <2>1. d \in Nat \ {0} /\ B \in Nat /\ r.R <= B /\ r.R \in {1, 2}
    BY DownsampledIs, RowsIs DEF Sized
  <2> HIDE DEF d, B
  <2>2. B \in Nat \ {0}
    BY <2>1
  <2> QED
    BY <2>1, <2>2, RowsBeforeIs DEF B
<1>2. RowsBefore(r, c + 1) = (c + 1) * B
  <2>1. c + 1 \in Nat
    OBVIOUS
  <2> QED
    BY <2>1, RowsBeforeIs
<1>3. t = a \div B
  BY DEF total_rows, CeilDiv, Rows
<1>4. e = IF rest = 0 THEN B ELSE rest
  BY DEF rows_left, Rows
<1> HIDE DEF d, B, b, t, e
<1>5. a \in Nat /\ c \in Int /\ c + 1 \in Int /\ c + 2 \in Int /\ 1 \in Int
  BY <1>1
<1> HIDE DEF a
<1>a. t \in Int /\ (c + 1 <= t <=> (c + 1) * B <= a)
  BY <1>1, <1>3, <1>5, Quotient, QuotientIsLeast
<1>b. c + 2 <= t <=> (c + 2) * B <= a
  BY <1>1, <1>3, <1>5, QuotientIsLeast
<1>c. 1 <= t <=> 1 * B <= a
  BY <1>1, <1>3, <1>5, QuotientIsLeast
<1>7. (c + 1) * B = b + B /\ (c + 2) * B = b + 2 * B /\ 1 * B = B
  <2>1. (c + 2) * B = c * B + 2 * B
    BY <1>1
  <2> QED
    BY <1>1, <1>2, <2>1
<1>8. /\ t \in Nat \ {0} /\ (c < t => b < d) /\ (c + 1 < t => b + B < d)
      /\ (c + 1 = t => b < d /\ d <= b + B)
  <2>1. a = d + B - 1
    BY DEF a
  <2> QED
    BY <1>1, <1>a, <1>b, <1>c, <1>7, <2>1
<1>9. d = B * (d \div B) + rest /\ rest \in 0 .. B - 1 /\ d \div B \in Int
  <2> HIDE DEF rest
  <2> QED
    BY <1>1 DEF rest
<1>10. e \in 1 .. B
  BY <1>1, <1>4, <1>9
<1>11. ASSUME c + 1 = t PROVE d = b + e
  <2> DEFINE k == d \div B
  <2>1. b < d /\ d <= b + B
    BY <1>8, <1>11
  <2>2. k \in Int /\ (c <= k <=> c * B <= d)
    BY <1>1, <1>5, <1>9, QuotientIsLeast
  <2>7. c + 1 <= k <=> (c + 1) * B <= d
    BY <1>1, <1>5, QuotientIsLeast
  <2>8. c + 2 <= k <=> (c + 2) * B <= d
    BY <1>1, <1>5, QuotientIsLeast
  <2> HIDE DEF k, rest
  <2>3. k = c \/ k = c + 1
    BY <1>1, <1>7, <2>1, <2>2, <2>7, <2>8
  <2>4. d = B * k + rest
    BY <1>9 DEF k
  <2>5. CASE k = c
    <3>1. B * k = b
      BY <1>1, <2>5
    <3>2. d = b + rest
      BY <2>4, <3>1
    <3> QED
      BY <1>1, <1>4, <1>9, <2>1, <3>2
  <2>6. CASE k = c + 1
    <3>1. B * k = b + B
      BY <1>1, <1>7, <2>6
    <3>2. d = b + B + rest
      BY <2>4, <3>1
    <3>3. rest = 0
      BY <1>1, <1>9, <2>1, <3>2
    <3> QED
      BY <1>1, <1>4, <3>2, <3>3
  <2> QED
    BY <2>3, <2>5, <2>6
<1> QED
  BY <1>8, <1>10, <1>11 DEF d, B, t, e, b

\* Where make_funny_pointers has list l point to: the last two row groups of an iMCU
\* row of B rows, and the two that follow it, are exchanged in the second one.
Place(B, R, l, i) ==
  IF l = 0 THEN i
  ELSE IF B - 2 * R <= i /\ i < B THEN i + 2 * R
  ELSE IF B <= i /\ i < B + 2 * R THEN i - 2 * R ELSE i

LEMMA PlaceIs ==
  ASSUME NEW B \in Nat, NEW R \in Nat, 2 * R <= B, NEW l \in {0, 1}
  PROVE  /\ \A i \in 0 .. (B + 2 * R) - 1 : Place(B, R, l, i) \in 0 .. B + 2 * R - 1
         /\ \A i, j \in 0 .. (B + 2 * R) - 1 : Place(B, R, l, i) = Place(B, R, l, j) => i = j
<1>1. \A i \in 0 .. (B + 2 * R) - 1 : Place(B, R, l, i) \in 0 .. B + 2 * R - 1
  BY DEF Place
<1>2. \A i, j \in 0 .. (B + 2 * R) - 1 : Place(B, R, l, i) = Place(B, R, l, j) => i = j
  BY DEF Place
<1> QED
  BY <1>1, <1>2

\* What ends one list is the end of an iMCU row in the other.
LEMMA PlaceFlips ==
  ASSUME NEW B \in Nat, NEW R \in Nat, 2 * R <= B, NEW l \in {0, 1}
  PROVE  \A i \in B .. (B + 2 * R) - 1 : Place(B, R, 1 - l, i) = Place(B, R, l, i - 2 * R)
BY DEF Place

\* Its buffer and its lists; without rows around it has only one list in use.
Buffered(r) ==
  /\ r.buffer \in [0 .. Span(r) - 1 -> Int]
  /\ r.xbuffer \in [{0, 1} -> [-r.R .. Span(r) + r.R - 1 -> Int]]
  /\ IF r.context THEN r.M >= 2 /\ r.whichptr \in {0, 1} ELSE r.whichptr = 0

ReaderTyped(r) == IsReader(r) /\ Sized(r) /\ Buffered(r)

\* The list in use points to the rows of an iMCU row, and both point to all rows.
Listed(r) == \A i \in 0 .. Rows(r) - 1 : r.xbuffer[r.whichptr][i] = Place(Rows(r), r.R, r.whichptr, i)

InPlace(r) ==
  \A l \in {0, 1}, i \in 0 .. Span(r) - 1 : r.xbuffer[l][i] = Place(Rows(r), r.R, l, i)

\* The rows above and below wrap around.
Wraps(r) ==
  \A l \in {0, 1} :
    /\ \A i \in -r.R .. -1 : r.xbuffer[l][i] = Place(Rows(r), r.R, l, i + Span(r))
    /\ \A i \in Span(r) .. Span(r) + r.R - 1 :
         r.xbuffer[l][i] = Place(Rows(r), r.R, l, i - Span(r))

\* At the top of the picture the first row is above itself.
Fresh(r) == r.whichptr = 0 /\ \A i \in -r.R .. -1 : r.xbuffer[0][i] = 0

\* iMCU row c is in the buffer, and so is the end of the one before it.
Front(r, c) ==
  \A i \in 0 .. Rows(r) - 1 : r.buffer[Place(Rows(r), r.R, r.whichptr, i)] = RowsBefore(r, c) + i

Back(r, c) ==
  \A i \in Rows(r) .. Span(r) - 1 :
    r.buffer[Place(Rows(r), r.R, r.whichptr, i)] = RowsBefore(r, c) + (i - Span(r))

\* The rows of iMCU row c and around it.
Around(r, c) ==
  \A i \in -1 .. r.R * r.rowgroups_avail : Pointed(r, i) = Clamp(RowsBefore(r, c) + i, r.downsampled_height)

\* What only the list and the row group in use are about.
SameReader(r, t) ==
  /\ t.context = r.context /\ t.R = r.R /\ t.M = r.M /\ t.height = r.height
  /\ t.downsampled_height = r.downsampled_height

SameProgress(r, t) ==
  /\ t.color = r.color /\ t.next_row_out = r.next_row_out /\ t.rows_to_go = r.rows_to_go
  /\ t.output_scanline = r.output_scanline /\ t.first = r.first /\ t.out = r.out

LEMMA SameSizes ==
  ASSUME NEW r, NEW t, SameReader(r, t)
  PROVE  /\ Sized(r) => Sized(t)
         /\ Rows(t) = Rows(r) /\ Span(t) = Span(r) /\ total_rows(t) = total_rows(r) /\ rows_left(t) = rows_left(r)
         /\ \A c : RowsBefore(t, c) = RowsBefore(r, c)
BY DEF SameReader, Sized, Rows, Span, total_rows, rows_left, RowsBefore

LEMMA BufferIs ==
  ASSUME NEW r, ReaderTyped(r)
  PROVE  /\ r.buffer \in [0 .. Span(r) - 1 -> Int]
         /\ r.xbuffer \in [{0, 1} -> [-r.R .. Span(r) + r.R - 1 -> Int]]
         /\ r.whichptr \in {0, 1} /\ (r.context => r.M >= 2) /\ (~r.context => r.whichptr = 0)
BY DEF ReaderTyped, Buffered

LEMMA DecompressedIs ==
  ASSUME NEW r, ReaderTyped(r), r.iMCU_row_ctr \in Nat, Listed(r)
  PROVE  LET t == Decompressed(r)
             c == r.iMCU_row_ctr
         IN /\ ReaderTyped(t) /\ SameReader(r, t) /\ SameProgress(r, t)
            /\ t.xbuffer = r.xbuffer /\ t.whichptr = r.whichptr /\ t.state = r.state
            /\ t.rowgroup_ctr = r.rowgroup_ctr /\ t.rowgroups_avail = r.rowgroups_avail
            /\ t.buffer_full = TRUE /\ t.iMCU_row_ctr = c + 1
            /\ Front(t, c) /\ (Back(r, c) => Back(t, c))
<1> DEFINE t == Decompressed(r)
           c == r.iMCU_row_ctr
           B == Rows(r)
           R == r.R
           w == r.whichptr
           N == Span(r)
           list == r.xbuffer[w]
           row(i) == c * r.R * r.M + i
           b == RowsBefore(r, c)
           P(i) == Place(B, R, w, i)
           buffer == [k \in DOMAIN r.buffer |->
                        IF \E i \in 0 .. r.R * r.M - 1 : list[i] = k
                        THEN row(CHOOSE i \in 0 .. r.R * r.M - 1 : list[i] = k) ELSE r.buffer[k]]
<1>1. /\ IsReader(r) /\ Sized(r) /\ R \in Nat /\ B \in Nat /\ b \in Int /\ N = B + 2 * R
      /\ r.buffer \in [0 .. N - 1 -> Int]
  <2>1. IsReader(r) /\ Sized(r) /\ R \in {1, 2}
    BY DEF ReaderTyped, Sized
  <2>2. B \in Nat /\ b \in Int
    <3>1. b \in Nat
      BY <2>1, RowsBeforeIs
    <3> QED
      BY <2>1, <3>1, RowsIs
  <2>3. r.buffer \in [0 .. N - 1 -> Int]
    BY BufferIs
  <2> QED
    BY <2>1, <2>2, <2>3 DEF Span
<1>2. \A i \in 0 .. N - 1 : P(i) \in 0 .. N - 1
  <2>1. CASE r.context
    <3>1. 2 * R <= B /\ w \in {0, 1}
      BY <1>1, <2>1, RowsIs DEF ReaderTyped, Buffered
    <3> HIDE DEF B, R, w, N
    <3> QED
      BY <1>1, <3>1, PlaceIs
  <2>2. CASE ~r.context
    <3>1. w = 0
      BY <2>2 DEF ReaderTyped, Buffered
    <3> HIDE DEF B, R, w, N
    <3> QED
      BY <1>1, <3>1 DEF Place
  <2> QED
    BY <2>1, <2>2
<1>3. \A i, j \in 0 .. N - 1 : P(i) = P(j) => i = j
  <2>1. CASE r.context
    <3>1. 2 * R <= B /\ w \in {0, 1}
      BY <1>1, <2>1, RowsIs DEF ReaderTyped, Buffered
    <3> HIDE DEF B, R, w, N
    <3>2. B \in Nat /\ R \in Nat /\ N = B + 2 * R
      BY <1>1
    <3>3. \A i, j \in 0 .. (B + 2 * R) - 1 : P(i) = P(j) => i = j
      BY <3>1, <3>2, PlaceIs
    <3> QED
      BY <3>2, <3>3, Zenon
  <2>2. CASE ~r.context
    <3>1. w = 0
      BY <2>2 DEF ReaderTyped, Buffered
    <3>2. \A i : P(i) = i
      BY <3>1 DEF Place
    <3> SUFFICES ASSUME NEW i \in 0 .. N - 1, NEW j \in 0 .. N - 1, P(i) = P(j) PROVE i = j
      OBVIOUS
    <3>3. P(i) = i /\ P(j) = j
      BY <3>2
    <3> QED
      BY <3>3
  <2> QED
    BY <2>1, <2>2
<1>4. \A i \in 0 .. B - 1 : list[i] = P(i)
  BY DEF Listed
<1>5. t = [r EXCEPT !.buffer_full = TRUE, !.iMCU_row_ctr = c + 1, !.buffer = buffer]
  BY DEF Decompressed
<1>6. \A i : row(i) = b + i
  BY DEF RowsBefore
<1>7. r.R * r.M = B
  BY DEF Rows
<1> HIDE DEF B, R, w, N, list, b, P, row, c
<1>8. buffer \in [0 .. N - 1 -> Int]
  <2>1. DOMAIN r.buffer = 0 .. N - 1
    BY <1>1
  <2>2. ASSUME NEW k \in 0 .. N - 1
        PROVE  (IF \E i \in 0 .. r.R * r.M - 1 : list[i] = k
                THEN row(CHOOSE i \in 0 .. r.R * r.M - 1 : list[i] = k) ELSE r.buffer[k]) \in Int
    <3>1. r.buffer[k] \in Int
      BY <1>1
    <3>2. CASE \E i \in 0 .. r.R * r.M - 1 : list[i] = k
      <4> DEFINE i == CHOOSE i \in 0 .. r.R * r.M - 1 : list[i] = k
      <4>1. i \in 0 .. r.R * r.M - 1
        BY <3>2
      <4> HIDE DEF i
      <4>2. i \in Int
        BY <1>1, <1>7, <4>1
      <4>3. row(i) \in Int
        BY <1>1, <1>6, <4>2
      <4> QED
        BY <3>2, <4>3 DEF i
    <3> QED
      BY <3>1, <3>2
  <2> QED
    BY <2>1, <2>2
<1>9. ASSUME NEW i \in 0 .. B - 1 PROVE buffer[P(i)] = b + i
  <2>1. i \in 0 .. N - 1 /\ P(i) \in DOMAIN r.buffer /\ list[i] = P(i)
    <3>1. i \in 0 .. N - 1
      BY <1>1
    <3> QED
      BY <1>1, <1>2, <1>4, <3>1
  <2> DEFINE j == CHOOSE j \in 0 .. r.R * r.M - 1 : list[j] = P(i)
  <2>2. i \in 0 .. r.R * r.M - 1
    BY <1>7
  <2>3. \E e \in 0 .. r.R * r.M - 1 : list[e] = P(i)
    BY <2>1, <2>2
  <2>4. buffer[P(i)] = row(j)
    BY <2>1, <2>3
  <2>5. j \in 0 .. B - 1 /\ list[j] = P(i)
    BY <2>3, <1>7
  <2> HIDE DEF j
  <2>6. j \in 0 .. N - 1 /\ P(j) = P(i)
    BY <1>1, <1>4, <2>5
  <2>7. j = i
    BY <1>3, <2>1, <2>6
  <2> QED
    BY <1>6, <2>4, <2>7
<1>10. ASSUME NEW i \in B .. N - 1 PROVE buffer[P(i)] = r.buffer[P(i)]
  <2>1. i \in 0 .. N - 1 /\ P(i) \in DOMAIN r.buffer
    <3>1. i \in 0 .. N - 1
      BY <1>1
    <3> QED
      BY <1>1, <1>2, <3>1
  <2>2. ASSUME NEW e \in 0 .. r.R * r.M - 1, list[e] = P(i) PROVE FALSE
    <3>1. e \in 0 .. B - 1 /\ e \in 0 .. N - 1
      BY <1>1, <1>7
    <3>2. P(e) = P(i)
      BY <1>4, <2>2, <3>1
    <3>3. e = i
      BY <1>3, <2>1, <3>1, <3>2
    <3> QED
      BY <1>1, <3>1, <3>3
  <2> QED
    BY <2>1, <2>2
<1> HIDE DEF buffer, t
<1>11. /\ IsReader(t) /\ t.buffer = buffer /\ t.buffer_full = TRUE /\ t.iMCU_row_ctr = c + 1
       /\ SameReader(r, t) /\ SameProgress(r, t)
       /\ t.xbuffer = r.xbuffer /\ t.whichptr = r.whichptr /\ t.state = r.state
       /\ t.rowgroup_ctr = r.rowgroup_ctr /\ t.rowgroups_avail = r.rowgroups_avail
  BY <1>1, <1>5 DEF IsReader, SameReader, SameProgress
<1>12. Sized(t) /\ Rows(t) = B /\ Span(t) = N /\ t.R = R /\ t.whichptr = w /\ (\A e : RowsBefore(t, e) = RowsBefore(r, e)) /\ t.M = r.M
       /\ t.context = r.context
  BY <1>1, <1>11, SameSizes DEF B, R, w, N, SameReader
<1>13. ReaderTyped(t)
  <2>1. Buffered(t)
    <3>1. /\ r.xbuffer \in [{0, 1} -> [-R .. N + R - 1 -> Int]]
          /\ IF r.context THEN r.M >= 2 /\ w \in {0, 1} ELSE w = 0
      BY DEF ReaderTyped, Buffered, B, R, w, N
    <3>2. t.buffer \in [0 .. N - 1 -> Int]
      BY <1>8, <1>11
    <3> QED
      BY <1>11, <1>12, <3>1, <3>2 DEF Buffered
  <2> QED
    BY <1>11, <1>12, <2>1 DEF ReaderTyped
<1>14. Front(t, c)
  BY <1>9, <1>11, <1>12 DEF Front, P, b
<1>15. ASSUME Back(r, c) PROVE Back(t, c)
  <2>1. \A i \in B .. N - 1 : r.buffer[Place(B, R, w, i)] = b + (i - N)
    BY <1>15, Zenon DEF Back, B, R, w, b, N
  <2>2. \A i \in B .. N - 1 : buffer[Place(B, R, w, i)] = r.buffer[Place(B, R, w, i)]
    BY <1>10 DEF P
  <2>3. \A i \in B .. N - 1 : t.buffer[Place(B, R, w, i)] = b + (i - N)
    BY <1>11, <2>1, <2>2
  <2>4. RowsBefore(t, c) = b
    BY <1>12 DEF b
  <2> QED
    BY <1>12, <2>3, <2>4, Zenon DEF Back
<1> QED
  BY <1>11, <1>13, <1>14, <1>15 DEF t, c

\* What only the pointers are about.
SameRows(r, t) ==
  /\ SameReader(r, t) /\ SameProgress(r, t)
  /\ t.buffer = r.buffer /\ t.whichptr = r.whichptr /\ t.state = r.state /\ t.buffer_full = r.buffer_full
  /\ t.iMCU_row_ctr = r.iMCU_row_ctr /\ t.rowgroup_ctr = r.rowgroup_ctr

LEMMA FunnyPointersAre ==
  ASSUME NEW r, Sized(r), r.xbuffer = FunnyPointers(r.R, r.M)
  PROVE  /\ r.xbuffer \in [{0, 1} -> [-r.R .. Span(r) + r.R - 1 -> Int]]
         /\ InPlace(r) /\ \A i \in -r.R .. -1 : r.xbuffer[0][i] = 0
<1> DEFINE R == r.R
           B == Rows(r)
           N == Span(r)
           Swapped(i) == IF i \in B - 2 * R .. B - 1 THEN i + 2 * R
                         ELSE IF i \in B .. N - 1 THEN i - 2 * R ELSE i
           Entry(l, i) == IF i \in 0 .. N - 1 THEN (IF l = 0 THEN i ELSE Swapped(i))
                        ELSE IF l = 0 /\ i < 0 THEN 0 ELSE Unset
<1>1. R \in Nat /\ B \in Nat /\ N = B + 2 * R /\ R >= 1
  <2>1. R \in {1, 2}
    BY DEF Sized
  <2> QED
    BY <2>1, RowsIs DEF Span
<1>2. R * r.M = B /\ R * (r.M - 2) = B - 2 * R /\ R * (r.M + 2) = N /\ R * (r.M + 3) = N + R
  BY RowsIs DEF Rows
<1> HIDE DEF B, R, N
<1>3. r.xbuffer = [l \in {0, 1} |-> [i \in -R .. (N + R) - 1 |-> Entry(l, i)]]
  BY <1>2 DEF FunnyPointers, R
<1>4. -R .. (N + R) - 1 = -R .. N + R - 1
  BY <1>1
<1>5. ASSUME NEW l \in {0, 1}, NEW i \in -R .. N + R - 1
      PROVE  r.xbuffer[l][i] = Entry(l, i) /\ Entry(l, i) \in Int
  <2>1. r.xbuffer[l] = [e \in -R .. N + R - 1 |-> Entry(l, e)]
    BY <1>3, <1>4
  <2>2. Entry(l, i) \in Int
    BY <1>1 DEF Unset
  <2> HIDE DEF Entry
  <2> QED
    BY <2>1, <2>2
<1>6. r.xbuffer \in [{0, 1} -> [-R .. N + R - 1 -> Int]]
  <2>1. \A l \in {0, 1} : r.xbuffer[l] = [i \in -R .. N + R - 1 |-> Entry(l, i)]
    BY <1>3, <1>4
  <2>2. \A l \in {0, 1}, i \in -R .. N + R - 1 : Entry(l, i) \in Int
    BY <1>5
  <2>3. DOMAIN r.xbuffer = {0, 1} /\ r.xbuffer = [l \in {0, 1} |-> r.xbuffer[l]]
    BY <1>3
  <2> HIDE DEF Entry
  <2>4. \A l \in {0, 1} : r.xbuffer[l] \in [-R .. N + R - 1 -> Int]
    BY <2>1, <2>2
  <2> QED
    BY <2>3, <2>4
<1>7. ASSUME NEW l \in {0, 1}, NEW i \in 0 .. N - 1
      PROVE  r.xbuffer[l][i] = Place(B, R, l, i)
  <2>1. i \in -R .. N + R - 1
    BY <1>1
  <2>2. r.xbuffer[l][i] = Entry(l, i)
    BY <1>5, <2>1
  <2>3. Entry(l, i) = Place(B, R, l, i)
    BY <1>1 DEF Place
  <2> QED
    BY <2>2, <2>3
<1>8. ASSUME NEW i \in -R .. -1 PROVE r.xbuffer[0][i] = 0
  <2>1. i \in -R .. N + R - 1 /\ i < 0 /\ ~(i \in 0 .. N - 1) /\ 0 \in {0, 1}
    BY <1>1
  <2>2. r.xbuffer[0][i] = Entry(0, i)
    BY <1>5, <2>1
  <2> QED
    BY <2>1, <2>2
<1> QED
  BY <1>6, <1>7, <1>8 DEF InPlace, B, R, N

LEMMA WrapsAround ==
  ASSUME NEW r, ReaderTyped(r)
  PROVE  LET t == set_wraparound_pointers(r)
         IN /\ ReaderTyped(t) /\ SameRows(r, t) /\ t.rowgroups_avail = r.rowgroups_avail
            /\ InPlace(r) => InPlace(t) /\ Wraps(t)
<1> DEFINE t == set_wraparound_pointers(r)
           R == r.R
           B == Rows(r)
           N == Span(r)
           D == -R .. N + R - 1
           x == r.xbuffer
           Entry(l, i) == IF i < 0 THEN x[l][(B + R) + i + R] ELSE IF i >= N THEN x[l][i - N] ELSE x[l][i]
           y == [l \in {0, 1} |-> [i \in D |-> Entry(l, i)]]
<1>1. R \in Nat /\ B \in Nat /\ N = B + 2 * R /\ R >= 1 /\ R <= B
  <2>1. Sized(r) /\ R \in {1, 2}
    BY DEF Sized, ReaderTyped
  <2> QED
    BY <2>1, RowsIs DEF Span
<1>2. R * (r.M + 1) = B + R /\ R * (r.M + 2) = N
  BY RowsIs DEF ReaderTyped
<1>3. x \in [{0, 1} -> [D -> Int]]
  BY BufferIs
<1>4. DOMAIN x = {0, 1} /\ \A l \in {0, 1} : DOMAIN x[l] = D
  BY <1>3
<1>5. t = [r EXCEPT !.xbuffer = y]
  <2>1. t = [r EXCEPT !.xbuffer = [l \in {0, 1} |-> [i \in DOMAIN x[l] |->
               IF i < 0 THEN x[l][R * (r.M + 1) + i + R]
               ELSE IF i >= R * (r.M + 2) THEN x[l][i - R * (r.M + 2)] ELSE x[l][i]]]]
    BY DEF set_wraparound_pointers
  <2> HIDE DEF t, x, B, R, N, D
  <2>2. [l \in {0, 1} |-> [i \in DOMAIN x[l] |->
               IF i < 0 THEN x[l][R * (r.M + 1) + i + R]
               ELSE IF i >= R * (r.M + 2) THEN x[l][i - R * (r.M + 2)] ELSE x[l][i]]] = y
    BY <1>2, <1>4
  <2> QED
    BY <2>1, <2>2
<1> HIDE DEF t, x, B, R, N, D
<1>6. ASSUME NEW l \in {0, 1}, NEW i \in D PROVE Entry(l, i) \in Int
  <2>1. \A e \in D : x[l][e] \in Int
    BY <1>3
  <2>2. CASE i < 0
    <3>1. (B + R) + i + R \in D
      BY <1>1, <2>2 DEF D
    <3> QED
      BY <2>1, <2>2, <3>1
  <2>3. CASE ~(i < 0) /\ i >= N
    <3>1. i - N \in D
      BY <1>1, <2>3 DEF D
    <3> QED
      BY <2>1, <2>3, <3>1
  <2> QED
    BY <2>1, <2>2, <2>3
<1>7. y \in [{0, 1} -> [D -> Int]]
  <2> HIDE DEF Entry
  <2> QED
    BY <1>6
<1>8. ASSUME NEW l \in {0, 1}, NEW i \in D PROVE y[l][i] = Entry(l, i)
  <2> HIDE DEF Entry
  <2> QED
    OBVIOUS
<1>9. InPlace(r) => \A l \in {0, 1}, i \in 0 .. N - 1 : x[l][i] = Place(B, R, l, i)
  BY DEF InPlace, B, R, N, x
<1>10. ASSUME InPlace(r), NEW l \in {0, 1}, NEW i \in 0 .. N - 1 PROVE y[l][i] = Place(B, R, l, i)
  <2>1. i \in D /\ ~(i < 0) /\ ~(i >= N)
    BY <1>1 DEF D
  <2> QED
    BY <1>8, <1>9, <1>10, <2>1
<1>11. ASSUME InPlace(r), NEW l \in {0, 1}, NEW i \in -R .. -1 PROVE y[l][i] = Place(B, R, l, i + N)
  <2>1. i \in D /\ i < 0 /\ i + N \in 0 .. N - 1 /\ (B + R) + i + R = i + N
    BY <1>1 DEF D
  <2>2. y[l][i] = x[l][i + N]
    BY <1>8, <2>1
  <2> QED
    BY <1>9, <1>11, <2>1, <2>2
<1>12. ASSUME InPlace(r), NEW l \in {0, 1}, NEW i \in N .. N + R - 1 PROVE y[l][i] = Place(B, R, l, i - N)
  <2>1. i \in D /\ ~(i < 0) /\ i >= N /\ i - N \in 0 .. N - 1
    BY <1>1 DEF D
  <2>2. y[l][i] = x[l][i - N]
    BY <1>8, <2>1
  <2> QED
    BY <1>9, <1>12, <2>1, <2>2
<1> HIDE DEF y
<1>13. /\ IsReader(t) /\ t.xbuffer = y /\ SameRows(r, t) /\ t.rowgroups_avail = r.rowgroups_avail
  <2>1. IsReader(r)
    BY DEF ReaderTyped
  <2> QED
    BY <1>5, <2>1 DEF IsReader, SameRows, SameReader, SameProgress
<1>14. Sized(t) /\ Rows(t) = B /\ Span(t) = N /\ t.R = R
  <2>1. SameReader(r, t) /\ Sized(r)
    BY <1>13 DEF SameRows, ReaderTyped
  <2> QED
    BY <2>1, SameSizes DEF B, R, N, SameReader
<1>15. Buffered(t)
  <2>1. t.xbuffer \in [{0, 1} -> [-t.R .. Span(t) + t.R - 1 -> Int]]
    BY <1>7, <1>13, <1>14 DEF D
  <2>2. t.buffer \in [0 .. Span(t) - 1 -> Int]
    <3>1. t.buffer = r.buffer
      BY <1>13 DEF SameRows
    <3> QED
      BY <1>14, <3>1, BufferIs DEF N
  <2>3. t.context = r.context /\ t.M = r.M /\ t.whichptr = r.whichptr
    BY <1>13 DEF SameRows, SameReader
  <2> QED
    BY <2>1, <2>2, <2>3, BufferIs DEF Buffered
<1>16. InPlace(r) => InPlace(t)
  BY <1>10, <1>13, <1>14 DEF InPlace
<1>17. InPlace(r) => Wraps(t)
  BY <1>11, <1>12, <1>13, <1>14 DEF Wraps
<1> QED
  BY <1>13, <1>14, <1>15, <1>16, <1>17 DEF ReaderTyped, t

LEMMA BottomIs ==
  ASSUME NEW r, ReaderTyped(r)
  PROVE  LET t == set_bottom_pointers(r)
             left == rows_left(r)
             list == r.xbuffer[r.whichptr]
         IN /\ ReaderTyped(t) /\ SameRows(r, t) /\ t.rowgroups_avail = ((left - 1) \div r.R) + 1
            /\ \A i \in -r.R .. Span(r) + r.R - 1 :
                 t.xbuffer[r.whichptr][i] = IF left <= i /\ i < left + 2 * r.R THEN list[left - 1] ELSE list[i]
<1> DEFINE t == set_bottom_pointers(r)
           R == r.R
           N == Span(r)
           D == -R .. N + R - 1
           x == r.xbuffer
           w == r.whichptr
           left == rows_left(r)
           Entry(i) == IF left <= i /\ i < left + 2 * R THEN x[w][left - 1] ELSE x[w][i]
           new == [i \in D |-> Entry(i)]
           y == [x EXCEPT ![w] = new]
           avail == ((left - 1) \div R) + 1
<1>1. Sized(r) /\ R \in {1, 2} /\ N \in Nat /\ left \in 1 .. Rows(r) /\ N = Rows(r) + 2 * R /\ Rows(r) \in Nat
  <2>1. Sized(r) /\ R \in {1, 2}
    BY DEF Sized, ReaderTyped
  <2>2. Rows(r) \in Nat /\ N = Rows(r) + 2 * R
    BY <2>1, RowsIs
  <2>3. 0 \in Nat
    OBVIOUS
  <2>4. left \in 1 .. Rows(r)
    BY <2>1, <2>3, LastRows
  <2> QED
    BY <2>1, <2>2, <2>4
<1>2. x \in [{0, 1} -> [D -> Int]] /\ w \in {0, 1}
  BY BufferIs
<1>3. DOMAIN x[w] = D /\ \A i \in D : x[w][i] \in Int
  BY <1>2
<1>4. t = [r EXCEPT !.rowgroups_avail = avail, !.xbuffer = y]
  <2>1. t = [r EXCEPT !.rowgroups_avail = avail,
               !.xbuffer[w] = [i \in DOMAIN x[w] |-> IF left <= i /\ i < left + 2 * R THEN x[w][left - 1] ELSE x[w][i]]]
    BY DEF set_bottom_pointers
  <2> HIDE DEF t, R, N, D, w, left, avail
  <2> QED
    BY <1>3, <2>1
<1> HIDE DEF t, R, N, D, x, w, left, avail
<1>5. left - 1 \in D
  BY <1>1 DEF D
<1>6. new \in [D -> Int]
  BY <1>3, <1>5
<1>7. y \in [{0, 1} -> [D -> Int]] /\ y[w] = new
  <2> HIDE DEF new
  <2> QED
    BY <1>2, <1>6
<1>8. \A i \in D : y[w][i] = Entry(i)
  BY <1>7
<1> HIDE DEF y
<1>9. IsReader(t) /\ t.xbuffer = y /\ SameRows(r, t) /\ t.rowgroups_avail = avail
  <2>1. IsReader(r)
    BY DEF ReaderTyped
  <2> QED
    BY <1>4, <2>1 DEF IsReader, SameRows, SameReader, SameProgress
<1>10. Sized(t) /\ Span(t) = N /\ t.R = R
  <2>1. SameReader(r, t) /\ Sized(r)
    BY <1>9 DEF SameRows, ReaderTyped
  <2> QED
    BY <2>1, SameSizes DEF R, N, SameReader
<1>11. Buffered(t)
  <2>1. t.xbuffer \in [{0, 1} -> [-t.R .. Span(t) + t.R - 1 -> Int]]
    BY <1>7, <1>9, <1>10 DEF D
  <2>2. t.buffer \in [0 .. Span(t) - 1 -> Int]
    <3>1. t.buffer = r.buffer
      BY <1>9 DEF SameRows
    <3> QED
      BY <1>10, <3>1, BufferIs DEF N
  <2>3. t.context = r.context /\ t.M = r.M /\ t.whichptr = r.whichptr
    BY <1>9 DEF SameRows, SameReader
  <2> QED
    BY <2>1, <2>2, <2>3, BufferIs DEF Buffered
<1> QED
  BY <1>8, <1>9, <1>10, <1>11 DEF ReaderTyped, t, D, R, N, w, x, left, avail

\* What putting rows out leaves alone.
SameLists(r, t) ==
  SameReader(r, t) /\ t.buffer = r.buffer /\ t.xbuffer = r.xbuffer /\ t.whichptr = r.whichptr

LEMMA ListsHold ==
  ASSUME NEW r, NEW t, SameLists(r, t)
  PROVE  /\ InPlace(r) => InPlace(t)
         /\ Wraps(r) => Wraps(t)
         /\ Fresh(r) => Fresh(t)
         /\ Listed(r) => Listed(t)
         /\ \A c : (Front(r, c) => Front(t, c)) /\ (Back(r, c) => Back(t, c))
         /\ \A i : Pointed(t, i) = Pointed(r, i)
         /\ ReaderTyped(r) /\ IsReader(t) => ReaderTyped(t)
<1>1. /\ Sized(r) => Sized(t)
      /\ Rows(t) = Rows(r) /\ Span(t) = Span(r) /\ \A c : RowsBefore(t, c) = RowsBefore(r, c)
  BY SameSizes DEF SameLists
<1>2. t.R = r.R /\ t.buffer = r.buffer /\ t.xbuffer = r.xbuffer /\ t.whichptr = r.whichptr
      /\ t.context = r.context /\ t.M = r.M
  BY DEF SameLists, SameReader
<1>3. InPlace(r) => InPlace(t)
  BY <1>1, <1>2 DEF InPlace
<1>4. Wraps(r) => Wraps(t)
  BY <1>1, <1>2 DEF Wraps
<1>5. Fresh(r) => Fresh(t)
  BY <1>2 DEF Fresh
<1>6. Listed(r) => Listed(t)
  BY <1>1, <1>2 DEF Listed
<1>7. \A c : (Front(r, c) => Front(t, c)) /\ (Back(r, c) => Back(t, c))
  BY <1>1, <1>2 DEF Front, Back
<1>8. \A i : Pointed(t, i) = Pointed(r, i)
  BY <1>2 DEF Pointed
<1>9. ReaderTyped(r) /\ IsReader(t) => ReaderTyped(t)
  BY <1>1, <1>2 DEF ReaderTyped, Buffered
<1> QED
  BY <1>3, <1>4, <1>5, <1>6, <1>7, <1>8, <1>9

LEMMA SourceIsSame ==
  ASSUME NEW r, NEW t, SameSource(r, t)
  PROVE  SameLists(r, t) /\ (\A c : Around(r, c) => Around(t, c))
<1>1. SameLists(r, t)
  BY DEF SameSource, SameLists, SameReader
<1>2. \A i : Pointed(t, i) = Pointed(r, i)
  BY <1>1, ListsHold
<1>3. \A c : RowsBefore(t, c) = RowsBefore(r, c)
  BY <1>1, SameSizes DEF SameLists
<1>4. t.R = r.R /\ t.rowgroups_avail = r.rowgroups_avail /\ t.downsampled_height = r.downsampled_height
  BY DEF SameSource
<1> QED
  BY <1>1, <1>2, <1>3, <1>4 DEF Around

\* The row groups of the last iMCU row.
LEMMA AvailIs ==
  ASSUME NEW R \in {1, 2}, NEW left \in Nat \ {0}
  PROVE  LET a == ((left - 1) \div R) + 1
         IN a \in Nat \ {0} /\ left <= R * a /\ R * a <= (left + R) - 1
<1> DEFINE k == (left - 1) \div R
           e == left - 1
<1>1. e \in Nat /\ R \in Nat \ {0} /\ e \in Int
  OBVIOUS
<1>2. k = e \div R
  OBVIOUS
<1>5. e = left - 1
  OBVIOUS
<1> HIDE DEF e, k
<1>3. k \in Int /\ R * k <= e /\ e < R * k + R
  BY <1>1, <1>2, Quotient
<1>4. k + 1 \in Nat \ {0} /\ left <= R * (k + 1) /\ R * (k + 1) <= (left + R) - 1
  <2>1. CASE R = 1
    BY <1>1, <1>3, <1>5, <2>1
  <2>2. CASE R = 2
    BY <1>1, <1>3, <1>5, <2>2
  <2> QED
    BY <2>1, <2>2
<1> QED
  BY <1>4 DEF k

\* How many row groups there are to put out of iMCU row c, before the next one is there.
Avail(r, c) == IF c + 1 < total_rows(r) THEN r.M - 1 ELSE ((rows_left(r) - 1) \div r.R) + 1

LEMMA ShownInProcess ==
  ASSUME NEW r, ReaderTyped(r), r.context, NEW c \in Nat, c < total_rows(r),
         r.rowgroups_avail = Avail(r, c), r.rowgroup_ctr \in Nat, r.rowgroup_ctr < r.rowgroups_avail, Around(r, c)
  PROVE  Shown(r, c * r.M + r.rowgroup_ctr)
<1> DEFINE R == r.R
           M == r.M
           B == Rows(r)
           b == RowsBefore(r, c)
           m == c * M
           d == r.downsampled_height
           q == r.rowgroup_ctr
           a == r.rowgroups_avail
           left == rows_left(r)
<1>1. Sized(r) /\ R \in {1, 2} /\ M \in Nat \ {0}
  BY DEF ReaderTyped, Sized
<1>2. b \in Nat /\ m \in Nat /\ b = R * m /\ B \in Nat /\ (R = 1 => B = M) /\ B - R = R * (M - 1)
  BY <1>1, RowsBeforeIs, RowsIs
<1>3. d \in Nat \ {0}
  BY <1>1, DownsampledIs
<1>4. /\ c + 1 < total_rows(r) => b + B < d
      /\ c + 1 = total_rows(r) => d = b + left
      /\ left \in 1 .. B /\ total_rows(r) \in Nat
  BY <1>1, LastRows
<1>5. q \in Nat /\ q < a /\ a \in Int
  <2>1. left \in Nat \ {0}
    BY <1>2, <1>4
  <2>2. ((left - 1) \div R) + 1 \in Nat
    <3> HIDE DEF left, R
    <3> QED
      BY <1>1, <2>1, AvailIs
  <2> QED
    BY <1>1, <2>2 DEF Avail
<1>6. R * q < d - b
  <2>1. CASE c + 1 < total_rows(r)
    <3>1. a = M - 1 /\ b + B < d
      BY <1>4, <2>1 DEF Avail
    <3> HIDE DEF R, M, B, b, m, d, q, a
    <3>2. CASE R = 1
      BY <1>1, <1>2, <1>3, <1>5, <3>1, <3>2
    <3>3. CASE R = 2
      BY <1>1, <1>2, <1>3, <1>5, <3>1, <3>3
    <3> QED
      BY <1>1, <3>2, <3>3
  <2>2. CASE ~(c + 1 < total_rows(r))
    <3>1. a = ((left - 1) \div R) + 1 /\ d = b + left
      BY <1>4, <2>2 DEF Avail
    <3>2. left \in Nat \ {0}
      BY <1>2, <1>4
    <3> HIDE DEF R, M, B, b, m, d, q, a, left
    <3>3. R * a <= (left + R) - 1
      BY <1>1, <3>1, <3>2, AvailIs
    <3>4. CASE R = 1
      BY <1>1, <1>2, <1>3, <1>5, <3>1, <3>2, <3>3, <3>4
    <3>5. CASE R = 2
      BY <1>1, <1>2, <1>3, <1>5, <3>1, <3>2, <3>3, <3>5
    <3> QED
      BY <1>1, <3>4, <3>5
  <2> QED
    BY <2>1, <2>2
<1>7. \A i \in -1 .. R * a : Pointed(r, i) = Clamp(b + i, d)
  BY DEF Around
<1>8. CASE Copies(r)
  <2>1. R = 1
    BY <1>8 DEF Copies
  <2> HIDE DEF R, M, B, b, m, d, q, a
  <2>2. b = m /\ q \in -1 .. R * a /\ q - 1 \in -1 .. R * a /\ q + 1 \in -1 .. R * a
    BY <1>2, <1>5, <2>1
  <2>3. Pointed(r, q) = Clamp(m + q, d)
    BY <1>7, <2>2
  <2>4. Pointed(r, q - 1) = Clamp((m + q) - 1, d)
    <3>1. b + (q - 1) = (m + q) - 1
      BY <1>2, <1>5, <2>2
    <3>2. Pointed(r, q - 1) = Clamp(b + (q - 1), d)
      BY <1>7, <2>2
    <3> QED
      BY <3>1, <3>2
  <2>5. Pointed(r, q + 1) = Clamp((m + q) + 1, d)
    <3>1. b + (q + 1) = (m + q) + 1
      BY <1>2, <1>5, <2>2
    <3>2. Pointed(r, q + 1) = Clamp(b + (q + 1), d)
      BY <1>7, <2>2
    <3> QED
      BY <3>1, <3>2
  <2>6. Clamp(m + q, d) = m + q
    <3>1. m + q \in Int /\ ~(m + q < 0) /\ m + q < d
      BY <1>2, <1>3, <1>5, <1>6, <2>1, <2>2
    <3> QED
      BY <1>3, <3>1, ClampIs
  <2>7. Pointed(r, q) = m + q
    BY <2>3, <2>6
  <2> QED
    BY <1>8, <2>4, <2>5, <2>7 DEF Shown, m, q, d, M
<1>9. CASE ~Copies(r)
  <2>1. R = 2
    BY <1>1, <1>9 DEF Copies
  <2> SUFFICES ASSUME NEW j \in 0 .. R - 1, R * (m + q) + j < d PROVE Pointed(r, q * R + j) = R * (m + q) + j
    BY <1>9 DEF Shown
  <2> HIDE DEF R, M, B, b, m, d, q, a
  <2>2. q * R + j \in -1 .. R * a /\ R * (m + q) + j = b + (q * R + j)
    BY <1>2, <1>5, <2>1
  <2>3. Pointed(r, q * R + j) = Clamp(R * (m + q) + j, d)
    BY <1>7, <2>2
  <2>4. R * (m + q) + j \in Int /\ ~(R * (m + q) + j < 0)
    BY <1>2, <1>5, <2>1
  <2> QED
    BY <1>3, <2>3, <2>4, ClampIs
<1> QED
  BY <1>8, <1>9

LEMMA ShownAtLast ==
  ASSUME NEW r, ReaderTyped(r), r.context, NEW c \in Nat \ {0}, c < total_rows(r),
         r.rowgroup_ctr = r.M + 1, InPlace(r), Wraps(r), Front(r, c), Back(r, c)
  PROVE  Shown(r, c * r.M - 1)
<1> DEFINE R == r.R
           M == r.M
           B == Rows(r)
           N == Span(r)
           b == RowsBefore(r, c)
           m == c * M
           d == r.downsampled_height
           w == r.whichptr
           x == r.xbuffer
           P(i) == Place(B, R, w, i)
<1>1. Sized(r) /\ R \in {1, 2} /\ M \in Nat /\ M >= 2 /\ w \in {0, 1}
  <2>1. Sized(r) /\ R \in {1, 2} /\ M \in Nat
    BY DEF ReaderTyped, Sized
  <2> QED
    BY <2>1, BufferIs
<1>2. /\ b \in Nat /\ m \in Nat /\ b = R * m /\ B \in Nat /\ (R = 1 => B = M) /\ N = B + 2 * R
      /\ M <= m /\ 2 * R <= B /\ R * (M + 1) = B + R
  <2>1. c \in Nat /\ c > 0
    OBVIOUS
  <2>2. b \in Nat /\ m \in Nat /\ b = R * m /\ M <= m
    BY <1>1, <2>1, RowsBeforeIs
  <2> QED
    BY <1>1, <2>2, RowsIs
<1>3. d \in Nat \ {0} /\ b < d
  BY <1>1, DownsampledIs, LastRows
<1>4. \A i \in 0 .. N - 1 : x[w][i] = P(i)
  BY <1>1 DEF InPlace
<1>5. x[w][N] = P(N - N)
  <2>1. \A i \in N .. N + R - 1 : x[w][i] = P(i - N)
    BY <1>1 DEF Wraps
  <2>2. N \in N .. N + R - 1
    BY <1>1, <1>2
  <2> HIDE DEF N, P
  <2> QED
    BY <2>1, <2>2
<1>6. \A i \in 0 .. B - 1 : r.buffer[P(i)] = b + i
  BY DEF Front
<1>7. \A i \in B .. N - 1 : r.buffer[P(i)] = b + (i - N)
  BY DEF Back
<1>8. \A i : Pointed(r, i) = r.buffer[x[w][i]]
  BY DEF Pointed
<1> HIDE DEF P, x, N, B, w, b, d, R
<1>9. ASSUME NEW i \in B .. N - 1 PROVE Pointed(r, i) = b + (i - N)
  <2>1. i \in 0 .. N - 1
    BY <1>2
  <2> QED
    BY <1>4, <1>7, <1>8, <2>1
<1>10. Pointed(r, N) = b
  <2>1. N - N = 0 /\ 0 \in 0 .. B - 1 /\ b + 0 = b
    BY <1>1, <1>2
  <2>2. r.buffer[P(0)] = b
    BY <1>6, <2>1
  <2> QED
    BY <1>5, <1>8, <2>1, <2>2
<1> HIDE DEF M, m
<1>11. CASE Copies(r)
  <2>1. R = 1 /\ B = M /\ b = m /\ N = M + 2
    BY <1>2, <1>11 DEF Copies, R
  <2>2. M + 1 \in B .. N - 1 /\ M \in B .. N - 1 /\ b + ((M + 1) - N) = m - 1 /\ b + (M - N) = (m - 1) - 1
        /\ (M + 1) - 1 = M /\ (M + 1) + 1 = N /\ (m - 1) + 1 = b
    BY <1>1, <1>2, <2>1
  <2>3. Pointed(r, M + 1) = m - 1
    <3>1. Pointed(r, M + 1) = b + ((M + 1) - N)
      BY <1>9, <2>2
    <3> QED
      BY <2>2, <3>1
  <2>4. Pointed(r, (M + 1) - 1) = (m - 1) - 1
    <3>1. Pointed(r, M) = b + (M - N)
      BY <1>9, <2>2
    <3> QED
      BY <2>2, <3>1
  <2>5. Pointed(r, (M + 1) + 1) = (m - 1) + 1
    BY <1>10, <2>2
  <2>6. Clamp((m - 1) - 1, d) = (m - 1) - 1 /\ Clamp((m - 1) + 1, d) = (m - 1) + 1
    <3>1. (m - 1) - 1 \in Int /\ ~((m - 1) - 1 < 0) /\ (m - 1) - 1 < d
      BY <1>1, <1>2, <1>3, <2>1
    <3>2. (m - 1) + 1 \in Int /\ ~((m - 1) + 1 < 0) /\ (m - 1) + 1 < d
      BY <1>1, <1>2, <1>3, <2>1
    <3> QED
      BY <1>3, <3>1, <3>2, ClampIs
  <2>7. r.rowgroup_ctr = M + 1
    BY DEF M
  <2> QED
    BY <1>11, <2>3, <2>4, <2>5, <2>6, <2>7 DEF Shown, m, M, d
<1>12. CASE ~Copies(r)
  <2>1. R = 2
    BY <1>1, <1>12 DEF Copies, R
  <2> SUFFICES ASSUME NEW j \in 0 .. R - 1 PROVE Pointed(r, (M + 1) * R + j) = R * (m - 1) + j
    BY <1>12 DEF Shown, R, M, m
  <2> DEFINE i == (M + 1) * R + j
  <2>2. i = (B + R) + j
    BY <1>1, <1>2, <2>1
  <2>3. i \in B .. N - 1 /\ b + (i - N) = R * (m - 1) + j
    BY <1>1, <1>2, <2>1, <2>2
  <2> HIDE DEF i
  <2>4. Pointed(r, i) = b + (i - N)
    BY <1>9, <2>3
  <2> QED
    BY <2>3, <2>4 DEF i
<1> QED
  BY <1>11, <1>12

\* What is above and below an iMCU row.
Edges(r, c) == IF c = 0 THEN Fresh(r) ELSE Wraps(r) /\ Back(r, c)

LEMMA AroundTheFirst ==
  ASSUME NEW r, ReaderTyped(r), r.context, NEW c \in Nat, c < total_rows(r),
         InPlace(r), Edges(r, c), Front(r, c)
  PROVE  \A i \in -1 .. Rows(r) - 1 : RowsBefore(r, c) + i < r.downsampled_height =>
           Pointed(r, i) = Clamp(RowsBefore(r, c) + i, r.downsampled_height)
<1> DEFINE R == r.R
           B == Rows(r)
           N == Span(r)
           b == RowsBefore(r, c)
           d == r.downsampled_height
           w == r.whichptr
           x == r.xbuffer
           P(i) == Place(B, R, w, i)
<1>1. Sized(r) /\ R \in {1, 2} /\ w \in {0, 1}
  <2>1. Sized(r) /\ R \in {1, 2}
    BY DEF ReaderTyped, Sized
  <2> QED
    BY <2>1, BufferIs
<1>2. /\ b \in Nat /\ B \in Nat /\ N = B + 2 * R /\ R <= B /\ (c = 0 => b = 0) /\ (c > 0 => B <= b)
  BY <1>1, RowsBeforeIs, RowsIs
<1>3. d \in Nat \ {0}
  BY <1>1, DownsampledIs
<1>4. \A i \in 0 .. N - 1 : x[w][i] = P(i)
  BY <1>1 DEF InPlace
<1>5. c # 0 => \A i \in -R .. -1 : x[w][i] = P(i + N)
  BY <1>1 DEF Wraps, Edges
<1>6. \A i \in 0 .. B - 1 : r.buffer[P(i)] = b + i
  BY DEF Front
<1>7. c # 0 => \A i \in B .. N - 1 : r.buffer[P(i)] = b + (i - N)
  BY DEF Back, Edges
<1>8. \A i : Pointed(r, i) = r.buffer[x[w][i]]
  BY DEF Pointed
<1>9. c = 0 => w = 0 /\ x[0][-1] = 0
  <2>1. -1 \in -R .. -1
    BY <1>1
  <2> QED
    BY <2>1 DEF Edges, Fresh
<1>10. w = 0 => P(0) = 0
  BY DEF Place
<1> HIDE DEF P, x, N, B, w, b, d, R
<1>11. ASSUME NEW i \in 0 .. B - 1, b + i < d PROVE Pointed(r, i) = Clamp(b + i, d)
  <2>1. i \in 0 .. N - 1 /\ b + i \in Int /\ ~(b + i < 0)
    BY <1>1, <1>2
  <2>2. Pointed(r, i) = b + i
    BY <1>4, <1>6, <1>8, <2>1
  <2>3. Clamp(b + i, d) = b + i
    BY <1>3, <1>11, <2>1, ClampIs
  <2> QED
    BY <2>2, <2>3
<1>12. Pointed(r, -1) = Clamp(b + -1, d)
  <2>1. CASE c = 0
    <3>1. Clamp(b + -1, d) = 0
      <4>1. b + -1 \in Int /\ b + -1 < 0
        BY <1>2, <2>1
      <4> QED
        BY <1>3, <4>1, ClampIs
    <3>2. 0 \in 0 .. B - 1 /\ b + 0 = 0
      BY <1>1, <1>2, <2>1
    <3>3. r.buffer[P(0)] = b + 0
      BY <1>6, <3>2
    <3> QED
      BY <1>8, <1>9, <1>10, <2>1, <3>1, <3>2, <3>3
  <2>2. CASE c # 0
    <3>1. -1 \in -R .. -1 /\ -1 + N \in B .. N - 1 /\ -1 + N \in 0 .. N - 1 /\ b + ((-1 + N) - N) = b + -1
      BY <1>1, <1>2
    <3>2. Pointed(r, -1) = b + -1
      BY <1>5, <1>7, <1>8, <2>2, <3>1
    <3>3. b + -1 \in Int /\ ~(b + -1 < 0)
      BY <1>1, <1>2, <2>2
    <3>4. b + -1 < d
      <4>1. b < d
        BY <1>1, LastRows DEF b, d
      <4> QED
        BY <1>2, <1>3, <4>1
    <3>5. Clamp(b + -1, d) = b + -1
      BY <1>3, <3>3, <3>4, ClampIs
    <3> QED
      BY <3>2, <3>5
  <2> QED
    BY <2>1, <2>2
<1>13. ASSUME NEW i \in -1 .. B - 1, b + i < d PROVE Pointed(r, i) = Clamp(b + i, d)
  <2>1. i = -1 \/ i \in 0 .. B - 1
    BY <1>2
  <2> QED
    BY <1>11, <1>12, <1>13, <2>1
<1> QED
  BY <1>13 DEF B, b, d

\* The iMCU row that is read: the last one decompressed, or the one after it.
Current(r) == IF r.buffer_full THEN r.iMCU_row_ctr - 1 ELSE r.iMCU_row_ctr

\* The states of process_data_context_main, and process_data_simple.
Process(r, c) ==
  /\ r.state = "process" /\ r.buffer_full = TRUE /\ c < total_rows(r)
  /\ r.rowgroups_avail = Avail(r, c) /\ r.rowgroup_ctr \in Nat /\ r.rowgroup_ctr < r.rowgroups_avail
  /\ Around(r, c)
  /\ c + 1 < total_rows(r) => InPlace(r) /\ Edges(r, c) /\ Front(r, c)
  /\ At(r, c * r.M + r.rowgroup_ctr) /\ Turned(r, c * r.M + r.rowgroup_ctr)

Postponed(r, c) ==
  /\ r.state = "postponed" /\ c # 0 /\ c < total_rows(r)
  /\ r.rowgroup_ctr = r.M + 1 /\ r.rowgroups_avail = r.M + 2
  /\ InPlace(r) /\ Wraps(r) /\ Back(r, c)
  /\ At(r, c * r.M - 1) /\ Turned(r, c * r.M - 1)
  /\ IF r.buffer_full THEN Front(r, c) ELSE r.next_row_out = 2

Prepare(r, c) ==
  /\ r.state = "prepare" /\ c < total_rows(r) /\ r.next_row_out = 2
  /\ InPlace(r) /\ Edges(r, c) /\ At(r, c * r.M)
  /\ IF r.buffer_full THEN Front(r, c) ELSE c = 0

Simple(r, c) ==
  /\ Listed(r) /\ r.rowgroup_ctr \in Nat /\ r.rowgroup_ctr < r.M
  /\ At(r, c * r.M + r.rowgroup_ctr)
  /\ IF r.buffer_full THEN Front(r, c) /\ Turned(r, c * r.M + r.rowgroup_ctr)
     ELSE r.rowgroup_ctr = 0 /\ r.next_row_out = 2

InState(r) ==
  LET c == Current(r)
  IN c \in Nat /\ r.iMCU_row_ctr \in Nat /\ r.buffer_full \in BOOLEAN /\ IF r.context THEN Process(r, c) \/ Postponed(r, c) \/ Prepare(r, c) ELSE Simple(r, c)

\* Between two calls; a reader that has put out all rows is not asked again.
ReaderHolds(r, room) ==
  /\ ReaderTyped(r) /\ Counted(r, room) /\ OutHolds(r)
  /\ r.rows_to_go > 0 => InState(r)

\* What a part of a call makes of it.
SameCall(r, t) == t.first = r.first /\ t.output_scanline = r.output_scanline

LEMMA ProcessHolds ==
  ASSUME NEW r, NEW room \in Int, ReaderTyped(r), Counted(r, room), OutHolds(r), r.context,
         NEW c \in Nat, c = Current(r), r.iMCU_row_ctr \in Nat, Process(r, c)
  PROVE  LET t == ProcessIMCU(r, room) IN ReaderHolds(t, room) /\ SameCall(r, t)
<1> DEFINE fed == sep_upsample(r, room)
           t == ProcessIMCU(r, room)
           q == r.rowgroup_ctr
           G == c * r.M + q
           p == fed.rowgroup_ctr
           H == c * r.M + p
           m == c * r.M
           n == total_rows(r)
           normal == IF fed.iMCU_row_ctr = 1 THEN set_wraparound_pointers(fed) ELSE fed
           flipped == [normal EXCEPT !.whichptr = 1 - @, !.buffer_full = FALSE,
                         !.rowgroup_ctr = r.M + 1, !.rowgroups_avail = r.M + 2, !.state = "postponed"]
<1>1. IsReader(r) /\ Sized(r) /\ r.M \in Nat /\ r.M >= 2 /\ r.R \in {1, 2} /\ r.height \in Nat
  BY BufferIs DEF ReaderTyped, Sized
<1>2. m \in Nat /\ q \in Nat /\ G \in Nat /\ q < r.rowgroups_avail
  <2>1. m \in Nat
    BY <1>1, RowsBeforeIs
  <2> HIDE DEF m
  <2>2. q \in Nat /\ q < r.rowgroups_avail
    BY DEF Process
  <2> HIDE DEF q
  <2>3. G = m + q
    BY DEF m
  <2> QED
    BY <2>1, <2>2, <2>3
<1>3. At(r, G) /\ Turned(r, G) /\ Around(r, c) /\ r.rowgroups_avail = Avail(r, c) /\ c < n
  BY DEF Process
<1>4. Shown(r, G)
  BY <1>2, <1>3, ShownInProcess
<1> HIDE DEF G
<1>5. /\ IsReader(fed) /\ SameSource(r, fed) /\ Counted(fed, room) /\ OutHolds(fed)
      /\ p = IF fed.next_row_out < 2 THEN q ELSE q + 1
      /\ At(fed, IF fed.next_row_out < 2 THEN G ELSE G + 1) /\ Turned(fed, G)
  BY <1>1, <1>2, <1>3, <1>4, GroupPutOut
<1> HIDE DEF fed
<1>6. At(fed, H) /\ Turned(fed, H) /\ p \in Nat
  <2>1. CASE fed.next_row_out < 2
    BY <1>2, <1>5, <2>1 DEF G
  <2>2. CASE ~(fed.next_row_out < 2)
    <3>1. p = q + 1
      BY <1>5, <2>2
    <3>2. H = G + 1 /\ p \in Nat
      BY <1>2, <3>1 DEF G
    <3> QED
      BY <1>5, <2>2, <3>2 DEF Turned
  <2> QED
    BY <2>1, <2>2
<1>7. /\ SameLists(r, fed) /\ Around(fed, c)
      /\ fed.context = r.context /\ fed.R = r.R /\ fed.M = r.M /\ fed.rowgroups_avail = r.rowgroups_avail
      /\ fed.state = "process" /\ fed.buffer_full = TRUE /\ fed.iMCU_row_ctr = r.iMCU_row_ctr
      /\ fed.height = r.height /\ fed.downsampled_height = r.downsampled_height
      /\ SameCall(r, fed) /\ fed.whichptr = r.whichptr
  BY <1>3, <1>5, SourceIsSame DEF SameSource, SameCall, Process
<1>8. ReaderTyped(fed) /\ (c + 1 < n => InPlace(fed) /\ Edges(fed, c) /\ Front(fed, c))
  BY <1>5, <1>7, ListsHold DEF Process, Edges
<1>9. total_rows(fed) = n /\ rows_left(fed) = rows_left(r) /\ Avail(fed, c) = Avail(r, c)
  <2>1. SameReader(r, fed)
    BY <1>7 DEF SameLists
  <2>2. total_rows(fed) = n /\ rows_left(fed) = rows_left(r)
    BY <2>1, SameSizes
  <2> QED
    BY <1>7, <2>2 DEF Avail
<1>10. c = r.iMCU_row_ctr - 1 /\ Current(fed) = c
  BY <1>7 DEF Current, Process
<1>11. CASE p < r.rowgroups_avail
  <2>1. t = fed
    BY <1>7, <1>11 DEF ProcessIMCU, fed
  <2>2. Process(fed, c)
    BY <1>3, <1>6, <1>7, <1>8, <1>9, <1>11 DEF Process
  <2>3. InState(fed)
    BY <1>7, <1>10, <2>2 DEF InState
  <2> QED
    BY <1>5, <1>7, <1>8, <2>1, <2>3 DEF ReaderHolds
<1>12. CASE ~(p < r.rowgroups_avail)
  <2>1. t = flipped
    BY <1>7, <1>12 DEF ProcessIMCU, fed
  <2>2. p = r.rowgroups_avail /\ fed.next_row_out = 2
    <3>1. fed.next_row_out \in 0 .. 2
      BY <1>5 DEF Counted
    <3>2. p # q
      BY <1>2, <1>12
    <3>3. ~(fed.next_row_out < 2) /\ p = q + 1
      BY <1>5, <3>2
    <3>4. Avail(r, c) \in Int
      <4>1. rows_left(r) \in Nat \ {0}
        BY <1>1, LastRows, RowsIs
      <4>2. ((rows_left(r) - 1) \div r.R) + 1 \in Int
        BY <1>1, <4>1, AvailIs
      <4> QED
        BY <1>1, <4>2 DEF Avail
    <3> QED
      BY <1>2, <1>3, <1>12, <3>1, <3>3, <3>4
  <2>3. /\ ReaderTyped(normal) /\ SameReader(fed, normal) /\ SameProgress(fed, normal)
        /\ normal.whichptr = fed.whichptr /\ normal.buffer = fed.buffer /\ normal.iMCU_row_ctr = fed.iMCU_row_ctr
        /\ c + 1 < n => InPlace(normal) /\ Wraps(normal)
    <3>1. CASE fed.iMCU_row_ctr = 1
      BY <1>8, <3>1, WrapsAround DEF SameRows
    <3>2. CASE fed.iMCU_row_ctr # 1
      <4>1. c # 0
        BY <1>7, <1>10, <3>2
      <4> QED
        BY <1>8, <3>2, <4>1 DEF SameReader, SameProgress, Edges
    <3> QED
      BY <3>1, <3>2
  <2> HIDE DEF normal, t
  <2> DEFINE w == 1 - normal.whichptr
  <2>4. IsReader(normal) /\ normal.whichptr \in {0, 1}
    BY <2>3, BufferIs DEF ReaderTyped
  <2>5. w \in {0, 1}
    BY <2>4
  <2> HIDE DEF w
  <2>6. t = [normal EXCEPT !.whichptr = w, !.buffer_full = FALSE, !.rowgroup_ctr = r.M + 1,
                           !.rowgroups_avail = r.M + 2, !.state = "postponed"]
    BY <2>1 DEF w
  <2>7. /\ IsReader(t) /\ SameReader(normal, t) /\ SameProgress(normal, t)
        /\ t.buffer = normal.buffer /\ t.xbuffer = normal.xbuffer /\ t.whichptr = w
        /\ t.iMCU_row_ctr = normal.iMCU_row_ctr /\ t.buffer_full = FALSE
        /\ t.rowgroup_ctr = r.M + 1 /\ t.rowgroups_avail = r.M + 2 /\ t.state = "postponed"
    BY <2>4, <2>6 DEF IsReader, SameReader, SameProgress
  <2>8. SameReader(r, t) /\ SameProgress(fed, t) /\ t.iMCU_row_ctr = r.iMCU_row_ctr /\ t.buffer = fed.buffer
    BY <1>7, <2>3, <2>7 DEF SameReader, SameProgress, SameLists
  <2>9. ReaderTyped(t)
    <3>1. Sized(t) /\ Span(t) = Span(normal) /\ t.R = normal.R /\ t.context = normal.context /\ t.M = normal.M
      BY <2>3, <2>7, SameSizes DEF ReaderTyped, SameReader
    <3>2. normal.context
      BY <2>8, <3>1 DEF SameReader
    <3> QED
      BY <2>3, <2>5, <2>7, <3>1, <3>2, BufferIs DEF ReaderTyped, Buffered
  <2>10. Counted(t, room)
    <3>1. r.M + 1 \in Int
      BY <1>1
    <3> QED
      BY <1>5, <2>7, <2>8, <3>1 DEF Counted, SameProgress
  <2>11. OutHolds(t) /\ SameCall(r, t)
    <3>1. \A y : OutputWanted(t, y) = OutputWanted(fed, y)
      BY <1>7, <2>8 DEF OutputWanted, SameReader
    <3> QED
      BY <1>5, <1>7, <2>8, <3>1 DEF OutHolds, SameProgress, SameCall, SameReader
  <2>12. r.height - t.rows_to_go = 2 * H /\ t.rows_to_go \in Nat /\ t.next_row_out = 2
    <3>1. fed.height - fed.rows_to_go = 2 * H + 0
      BY <1>6, <2>2 DEF At, NextRow
    <3>2. fed.rows_to_go \in Nat
      BY <1>5 DEF Counted
    <3> HIDE DEF H
    <3>3. t.rows_to_go = fed.rows_to_go /\ t.next_row_out = 2
      BY <2>2, <2>8 DEF SameProgress
    <3>4. H \in Int
      BY <1>2, <1>6 DEF H
    <3> QED
      BY <1>7, <3>1, <3>2, <3>3, <3>4
  <2>13. CASE c + 1 < n
    <3>1. p = r.M - 1
      BY <1>3, <2>2, <2>13 DEF Avail
    <3>2. H = (c + 1) * r.M - 1
      <4>1. (c + 1) * r.M = m + r.M
        BY <1>1, RowsBeforeIs
      <4> HIDE DEF m
      <4>2. H = m + p
        BY DEF m
      <4> QED
        BY <1>1, <1>2, <3>1, <4>1, <4>2
    <3>3. At(t, (c + 1) * r.M - 1) /\ Turned(t, (c + 1) * r.M - 1)
      <4>1. t.height = r.height
        BY <2>8 DEF SameReader
      <4>2. H \in Int
        BY <1>2, <1>6 DEF H
      <4>3. NextRow(t) = 0 /\ Turned(t, H)
        BY <2>12 DEF NextRow, Turned
      <4>4. At(t, H)
        <5> HIDE DEF H
        <5> QED
          BY <2>12, <4>1, <4>2, <4>3 DEF At
      <4> QED
        BY <3>2, <4>3, <4>4
    <3>4. InPlace(t) /\ Wraps(t)
      <4>1. Rows(t) = Rows(normal) /\ Span(t) = Span(normal) /\ t.R = normal.R
        BY <2>7, SameSizes DEF SameReader
      <4> QED
        BY <2>3, <2>7, <2>13, <4>1 DEF InPlace, Wraps
    <3>5. Back(t, c + 1)
      <4> DEFINE B == Rows(r)
                 R == r.R
                 N == Span(r)
                 b == RowsBefore(r, c)
                 v == r.whichptr
      <4>1. Rows(t) = B /\ Span(t) = N /\ t.R = R /\ RowsBefore(t, c + 1) = RowsBefore(r, c + 1)
            /\ Rows(fed) = B /\ Span(fed) = N /\ fed.R = R /\ RowsBefore(fed, c) = b
        <5>1. SameReader(r, fed)
          BY <1>7 DEF SameLists
        <5> QED
          BY <2>8, <5>1, SameSizes DEF SameReader
      <4>2. B \in Nat /\ R \in Nat /\ N = B + 2 * R /\ 2 * R <= B /\ b \in Nat /\ RowsBefore(r, c + 1) = b + B
        <5>1. b \in Nat /\ RowsBefore(r, c + 1) = b + B
          BY <1>1, RowsBeforeIs
        <5>2. B \in Nat /\ N = B + 2 * R /\ 2 * R <= B
          BY <1>1, RowsIs
        <5>3. R \in Nat
          BY <1>1
        <5> QED
          BY <5>1, <5>2, <5>3
      <4>3. v \in {0, 1} /\ w = 1 - v
        BY <1>7, <2>3, BufferIs DEF w
      <4>4. \A i \in 0 .. B - 1 : fed.buffer[Place(B, R, v, i)] = b + i
        <5>1. Front(fed, c)
          BY <1>8, <2>13
        <5> QED
          BY <1>7, <4>1, <5>1 DEF Front
      <4> HIDE DEF B, R, N, b, v
      <4>5. \A i \in B .. (B + 2 * R) - 1 : Place(B, R, 1 - v, i) = Place(B, R, v, i - 2 * R)
        <5>1. B \in Nat /\ R \in Nat /\ 2 * R <= B /\ v \in {0, 1}
          BY <4>2, <4>3
        <5> QED
          BY <5>1, PlaceFlips
      <4>6. ASSUME NEW i \in B .. N - 1 PROVE fed.buffer[Place(B, R, w, i)] = RowsBefore(r, c + 1) + (i - N)
        <5>1. i \in B .. (B + 2 * R) - 1 /\ i - 2 * R \in 0 .. B - 1 /\ b + (i - 2 * R) = RowsBefore(r, c + 1) + (i - N)
          BY <4>2
        <5>2. Place(B, R, w, i) = Place(B, R, v, i - 2 * R)
          BY <4>3, <4>5, <5>1
        <5>3. fed.buffer[Place(B, R, v, i - 2 * R)] = b + (i - 2 * R)
          BY <4>4, <5>1
        <5> QED
          BY <5>1, <5>2, <5>3
      <4> QED
        BY <2>7, <2>8, <4>1, <4>6 DEF Back
    <3>6. c + 1 \in Nat /\ Current(t) = c + 1 /\ c + 1 # 0
      <4>1. Current(t) = r.iMCU_row_ctr
        BY <2>7, <2>8 DEF Current
      <4> HIDE DEF q
      <4> QED
        BY <1>10, <4>1
    <3>7. total_rows(t) = n /\ t.M = r.M
      BY <2>8, SameSizes DEF SameReader
    <3>11. t.iMCU_row_ctr \in Nat
      BY <2>8
    <3>8. Postponed(t, c + 1)
      BY <2>7, <2>12, <2>13, <3>3, <3>4, <3>5, <3>6, <3>7 DEF Postponed
    <3>9. t.context
      BY <2>8 DEF SameReader
    <3>10. InState(t)
      BY <3>6, <3>8, <3>9, <3>11, <2>7 DEF InState
    <3> QED
      BY <2>9, <2>10, <2>11, <3>10 DEF ReaderHolds, t
  <2>14. CASE ~(c + 1 < n)
    <3> DEFINE left == rows_left(r)
               d == r.downsampled_height
               a == r.rowgroups_avail
               h == r.height
               R == r.R
    <3>1. c + 1 = n /\ d = RowsBefore(r, c) + left /\ left \in Nat \ {0} /\ RowsBefore(r, c) = R * m
      <4>1. n \in Nat
        BY <1>1, LastRows
      <4>2. c + 1 = n
        BY <1>3, <2>14, <4>1
      <4>3. left \in 1 .. Rows(r) /\ d = RowsBefore(r, c) + left
        BY <1>1, <4>2, LastRows
      <4>4. Rows(r) \in Nat
        BY <1>1, RowsIs
      <4>5. RowsBefore(r, c) = R * m
        BY <1>1, RowsBeforeIs
      <4> HIDE DEF left, d, R, m
      <4>6. left \in Nat \ {0}
        BY <4>3, <4>4
      <4> QED
        BY <4>2, <4>3, <4>5, <4>6
    <3>2. a = ((left - 1) \div R) + 1 /\ H = m + a
      BY <1>3, <2>2, <2>14 DEF Avail
    <3>3. a \in Nat /\ left <= R * a
      BY <1>1, <3>1, <3>2, AvailIs
    <3>4. (R = 1 => h = 2 * d \/ h = 2 * d - 1) /\ (R = 2 => d = h) /\ d \in Nat
      BY <1>1, DownsampledIs
    <3>5. h - t.rows_to_go = 2 * (m + a) /\ t.rows_to_go \in Nat /\ h \in Nat
      BY <1>1, <2>12, <3>2
    <3> HIDE DEF left, d, a, h, R, H, m
    <3>6. t.rows_to_go = 0
      <4>1. CASE R = 1
        BY <1>2, <3>1, <3>3, <3>4, <3>5, <4>1
      <4>2. CASE R = 2
        BY <1>2, <3>1, <3>3, <3>4, <3>5, <4>2
      <4> QED
        BY <1>1, <4>1, <4>2 DEF R
    <3> QED
      BY <2>9, <2>10, <2>11, <3>6 DEF ReaderHolds, t
  <2> QED
    BY <2>13, <2>14 DEF t
<1> QED
  BY <1>11, <1>12

\* The row groups of an iMCU row are ready to be put out.
LEMMA PrepareHolds ==
  ASSUME NEW r, NEW room \in Int, ReaderTyped(r), Counted(r, room), OutHolds(r), r.context, r.buffer_full = TRUE,
         NEW c \in Nat, c = Current(r), r.iMCU_row_ctr \in Nat, Prepare(r, c)
  PROVE  LET t == PrepareForIMCU(r, room) IN ReaderHolds(t, room) /\ SameCall(r, t)
<1> DEFINE ready == [r EXCEPT !.rowgroup_ctr = 0, !.rowgroups_avail = r.M - 1, !.state = "process"]
           n == total_rows(r)
           set == IF r.iMCU_row_ctr = n THEN set_bottom_pointers(ready) ELSE ready
           d == r.downsampled_height
           b == RowsBefore(r, c)
           R == r.R
           B == Rows(r)
           N == Span(r)
           w == r.whichptr
           left == rows_left(r)
           a == Avail(r, c)
<1>1. /\ IsReader(r) /\ Sized(r) /\ r.M \in Nat /\ r.M >= 2 /\ R \in {1, 2} /\ w \in {0, 1}
      /\ b \in Nat /\ B \in Nat /\ R <= B /\ N = B + 2 * R /\ R * (r.M - 1) = B - R
  <2>1. IsReader(r) /\ Sized(r) /\ r.M \in Nat /\ r.M >= 2 /\ R \in {1, 2} /\ w \in {0, 1}
    BY BufferIs DEF ReaderTyped, Sized
  <2>2. b \in Nat /\ B \in Nat /\ R <= B /\ N = B + 2 * R /\ R * (r.M - 1) = B - R
    BY <2>1, RowsBeforeIs, RowsIs
  <2> QED
    BY <2>1, <2>2
<1>2. c = r.iMCU_row_ctr - 1 /\ c < n /\ n \in Nat
  BY <1>1, LastRows DEF Current, Prepare
<1>3. InPlace(r) /\ Edges(r, c) /\ Front(r, c) /\ r.next_row_out = 2 /\ At(r, c * r.M)
  BY DEF Prepare
<1>4. /\ IsReader(ready) /\ SameReader(r, ready) /\ SameProgress(r, ready)
      /\ ready.buffer = r.buffer /\ ready.xbuffer = r.xbuffer /\ ready.whichptr = w
      /\ ready.buffer_full = TRUE /\ ready.iMCU_row_ctr = r.iMCU_row_ctr
      /\ ready.rowgroup_ctr = 0 /\ ready.rowgroups_avail = r.M - 1 /\ ready.state = "process"
  BY <1>1 DEF IsReader, SameReader, SameProgress
<1>5. PrepareForIMCU(r, room) = ProcessIMCU(set, room)
  BY DEF PrepareForIMCU
<1> HIDE DEF ready
<1>6. SameLists(r, ready)
  BY <1>4 DEF SameLists
<1>7. ReaderTyped(ready) /\ InPlace(ready) /\ Edges(ready, c) /\ Front(ready, c) /\ ready.context
      /\ ready.R = R /\ ready.M = r.M /\ ready.height = r.height /\ ready.downsampled_height = d
  BY <1>3, <1>4, <1>6, ListsHold DEF Edges, SameReader
<1>8. total_rows(ready) = n /\ rows_left(ready) = left /\ Rows(ready) = B /\ Span(ready) = N /\ RowsBefore(ready, c) = b
      /\ Avail(ready, c) = a
  <2>1. total_rows(ready) = n /\ rows_left(ready) = left /\ Rows(ready) = B /\ Span(ready) = N /\ RowsBefore(ready, c) = b
    BY <1>4, SameSizes
  <2> QED
    BY <1>7, <2>1 DEF Avail
<1>9. \A i \in -1 .. B - 1 : b + i < d => Pointed(ready, i) = Clamp(b + i, d)
  BY <1>2, <1>7, <1>8, AroundTheFirst
<1>10. d \in Nat \ {0} /\ left \in 1 .. B /\ (c + 1 < n => b + B < d) /\ (c + 1 = n => d = b + left)
  BY <1>1, DownsampledIs, LastRows
<1> HIDE DEF set, d, b, R, B, N, w, left, n
<1>11. left \in Nat \ {0}
  BY <1>1, <1>10
<1>12. /\ ReaderTyped(set) /\ SameReader(ready, set) /\ SameProgress(ready, set)
       /\ set.buffer_full = TRUE /\ set.iMCU_row_ctr = r.iMCU_row_ctr
       /\ set.rowgroup_ctr = 0 /\ set.rowgroups_avail = a /\ set.state = "process"
       /\ Around(set, c) /\ (c + 1 < n => InPlace(set) /\ Edges(set, c) /\ Front(set, c))
  <2>1. CASE c + 1 < n
    <3>1. set = ready
      BY <1>2, <2>1 DEF set, n
    <3>2. a = r.M - 1
      BY <2>1 DEF Avail, n
    <3>3. ASSUME NEW i \in -1 .. B - R PROVE Pointed(ready, i) = Clamp(b + i, d)
      <4>1. i \in -1 .. B - 1 /\ b + i < d
        BY <1>1, <1>10, <2>1
      <4> QED
        BY <1>9, <4>1
    <3>4. Around(ready, c)
      BY <1>1, <1>4, <1>7, <1>8, <3>3 DEF Around
    <3> QED
      BY <1>4, <1>7, <3>1, <3>2, <3>4 DEF SameReader, SameProgress
  <2>2. CASE ~(c + 1 < n)
    <3>1. set = set_bottom_pointers(ready) /\ c + 1 = n
      BY <1>2, <2>2 DEF set, n
    <3>2. a = ((left - 1) \div R) + 1 /\ a \in Nat /\ R * a <= (left + R) - 1
      <4>1. a = ((left - 1) \div R) + 1
        BY <2>2 DEF Avail, n, left, R
      <4> HIDE DEF a
      <4> QED
        BY <1>1, <1>11, <4>1, AvailIs
    <3>3. /\ ReaderTyped(set) /\ SameRows(ready, set) /\ set.rowgroups_avail = a
          /\ \A i \in -R .. N + R - 1 :
               set.xbuffer[w][i] = IF left <= i /\ i < left + 2 * R THEN ready.xbuffer[w][left - 1] ELSE ready.xbuffer[w][i]
      BY <1>4, <1>7, <1>8, <3>1, <3>2, BottomIs
    <3>4. set.whichptr = w /\ set.buffer = ready.buffer
      BY <1>4, <3>3 DEF SameRows
    <3>5. ASSUME NEW i \in -1 .. R * a PROVE Pointed(set, i) = Clamp(b + i, d)
      <4> HIDE DEF a
      <4>1. R * a \in Int
        BY <1>1, <3>2
      <4>2. i \in Int /\ -1 <= i /\ i <= (left + R) - 1
        BY <1>1, <1>10, <3>2, <4>1
      <4>3. i \in -R .. N + R - 1
        <5>1. -R <= i /\ i <= (N + R) - 1
          BY <1>1, <1>10, <4>2
        <5> QED
          BY <1>1, <4>2, <5>1
      <4>4. CASE i < left
        <5>1. set.xbuffer[w][i] = ready.xbuffer[w][i]
          <6>1. ~(left <= i /\ i < left + 2 * R)
            BY <1>11, <4>2, <4>4
          <6> QED
            BY <3>3, <4>3, <6>1
        <5>2. Pointed(set, i) = Pointed(ready, i)
          BY <1>4, <3>4, <5>1 DEF Pointed
        <5>3. i \in -1 .. B - 1 /\ b + i < d
          BY <1>1, <1>10, <3>1, <4>2, <4>4
        <5> QED
          BY <1>9, <5>2, <5>3
      <4>5. CASE ~(i < left)
        <5>1. set.xbuffer[w][i] = ready.xbuffer[w][left - 1]
          <6>1. left <= i /\ i < left + 2 * R
            BY <1>1, <1>11, <4>2, <4>5
          <6> QED
            BY <3>3, <4>3, <6>1
        <5>2. Pointed(set, i) = Pointed(ready, left - 1)
          BY <1>4, <3>4, <5>1 DEF Pointed
        <5>3. left - 1 \in -1 .. B - 1 /\ b + (left - 1) < d /\ b + (left - 1) = d - 1
          BY <1>1, <1>10, <3>1
        <5>4. Pointed(ready, left - 1) = Clamp(d - 1, d)
          BY <1>9, <5>3
        <5>5. Clamp(d - 1, d) = d - 1
          <6>1. d - 1 \in Int /\ ~(d - 1 < 0) /\ d - 1 < d
            BY <1>10
          <6> QED
            BY <1>10, <6>1, ClampIs
        <5>6. Clamp(b + i, d) = d - 1
          <6>1. b + i \in Int /\ ~(b + i < 0) /\ ~(b + i < d)
            BY <1>1, <1>10, <1>11, <3>1, <4>2, <4>5
          <6> QED
            BY <1>10, <6>1, ClampIs
        <5> QED
          BY <5>2, <5>4, <5>5, <5>6
      <4> QED
        BY <4>4, <4>5
    <3>6. SameReader(ready, set) /\ SameProgress(ready, set)
      BY <3>3 DEF SameRows
    <3>7. RowsBefore(set, c) = b /\ set.R = R /\ set.downsampled_height = d
      BY <1>7, <1>8, <3>6, SameSizes DEF SameReader
    <3>8. Around(set, c)
      BY <3>3, <3>5, <3>7 DEF Around
    <3> QED
      BY <1>4, <2>2, <3>3, <3>6, <3>8 DEF SameRows
  <2> QED
    BY <2>1, <2>2
<1>13. SameReader(r, set) /\ SameProgress(r, set)
  BY <1>4, <1>12 DEF SameReader, SameProgress
<1>14. 0 < a /\ a \in Int
  <2>1. CASE c + 1 < n
    <3>1. a = r.M - 1
      BY <2>1 DEF Avail, n
    <3> QED
      BY <1>1, <3>1
  <2>2. CASE ~(c + 1 < n)
    <3>1. a = ((left - 1) \div R) + 1
      BY <2>2 DEF Avail, n, left, R
    <3> HIDE DEF a
    <3>2. a \in Nat \ {0}
      BY <1>1, <1>11, <3>1, AvailIs
    <3> QED
      BY <3>2
  <2> QED
    BY <2>1, <2>2
<1>15. At(set, c * set.M + set.rowgroup_ctr) /\ Turned(set, c * set.M + set.rowgroup_ctr)
  <2> DEFINE m == c * r.M
  <2>1. m \in Nat
    BY <1>1, RowsBeforeIs
  <2>2. set.M = r.M /\ set.height = r.height /\ set.rows_to_go = r.rows_to_go /\ set.next_row_out = 2
    BY <1>3, <1>13 DEF SameReader, SameProgress
  <2>3. r.height - r.rows_to_go = 2 * m + 0
    BY <1>3 DEF At, NextRow
  <2>4. c * set.M + set.rowgroup_ctr = m
    <3>1. m + 0 = m
      <4> HIDE DEF m
      <4> QED
        BY <2>1
    <3> QED
      BY <1>12, <2>2, <3>1
  <2> HIDE DEF m
  <2>5. At(set, m) /\ Turned(set, m)
    BY <2>2, <2>3 DEF At, NextRow, Turned
  <2> QED
    BY <2>4, <2>5
<1>16. total_rows(set) = n /\ Avail(set, c) = a /\ set.context
  <2>1. total_rows(set) = total_rows(r) /\ rows_left(set) = rows_left(r)
    BY <1>13, SameSizes
  <2> QED
    BY <1>13, <2>1 DEF Avail, SameReader, n
<1>17. Process(set, c)
  <2>1. set.rowgroup_ctr \in Nat /\ set.rowgroup_ctr < set.rowgroups_avail
    BY <1>12, <1>14
  <2> QED
    BY <1>2, <1>12, <1>15, <1>16, <2>1 DEF Process
<1>18. Counted(set, room)
  BY <1>12, <1>13 DEF Counted, SameProgress
<1>19. OutHolds(set) /\ SameCall(r, set)
  <2>1. \A y : OutputWanted(set, y) = OutputWanted(r, y)
    BY <1>13 DEF OutputWanted, SameReader
  <2> QED
    BY <1>13, <2>1 DEF OutHolds, SameProgress, SameCall, SameReader
<1>20. c = Current(set) /\ set.iMCU_row_ctr \in Nat
  BY <1>2, <1>12 DEF Current
<1>21. LET t == ProcessIMCU(set, room) IN ReaderHolds(t, room) /\ SameCall(set, t)
  BY <1>12, <1>16, <1>17, <1>18, <1>19, <1>20, ProcessHolds
<1> QED
  BY <1>5, <1>19, <1>21 DEF SameCall

\* The last row group of an iMCU row is put out when the next one is there.
LEMMA PostponedHolds ==
  ASSUME NEW r, NEW room \in Int, ReaderTyped(r), Counted(r, room), OutHolds(r), r.context, r.buffer_full = TRUE,
         NEW c \in Nat, c = Current(r), r.iMCU_row_ctr \in Nat, Postponed(r, c)
  PROVE  LET t == PostponedRow(r, room) IN ReaderHolds(t, room) /\ SameCall(r, t)
<1> DEFINE fed == sep_upsample(r, room)
           done == [fed EXCEPT !.state = "prepare"]
           t == PostponedRow(r, room)
           m == c * r.M
           G == m - 1
           n == total_rows(r)
<1>1. IsReader(r) /\ Sized(r) /\ r.M \in Nat /\ r.M >= 2 /\ c \in Nat \ {0}
  BY BufferIs DEF ReaderTyped, Sized, Postponed
<1>2. m \in Nat /\ G \in Nat /\ G + 1 = m
  <2>1. m \in Nat /\ r.M <= m
    <3>1. c > 0
      BY <1>1
    <3> QED
      BY <1>1, <3>1, RowsBeforeIs
  <2> HIDE DEF m
  <2> QED
    BY <1>1, <2>1
<1>3. /\ At(r, G) /\ Turned(r, G) /\ InPlace(r) /\ Wraps(r) /\ Back(r, c) /\ Front(r, c) /\ c < n
      /\ r.rowgroup_ctr = r.M + 1 /\ r.rowgroups_avail = r.M + 2 /\ r.state = "postponed"
  BY DEF Postponed
<1>4. Shown(r, G)
  BY <1>1, <1>3, ShownAtLast
<1> HIDE DEF G, m
<1>5. /\ IsReader(fed) /\ SameSource(r, fed) /\ Counted(fed, room) /\ OutHolds(fed)
      /\ fed.rowgroup_ctr = IF fed.next_row_out < 2 THEN r.rowgroup_ctr ELSE r.rowgroup_ctr + 1
      /\ At(fed, IF fed.next_row_out < 2 THEN G ELSE G + 1) /\ Turned(fed, G)
  BY <1>1, <1>2, <1>3, <1>4, GroupPutOut
<1> HIDE DEF fed
<1>6. /\ SameLists(r, fed) /\ fed.context = r.context /\ fed.M = r.M /\ fed.rowgroups_avail = r.rowgroups_avail
      /\ fed.state = "postponed" /\ fed.buffer_full = TRUE /\ fed.iMCU_row_ctr = r.iMCU_row_ctr /\ SameCall(r, fed)
  BY <1>3, <1>5, SourceIsSame DEF SameSource, SameCall
<1>7. /\ ReaderTyped(fed) /\ InPlace(fed) /\ Wraps(fed) /\ Back(fed, c) /\ Front(fed, c)
      /\ total_rows(fed) = n /\ Current(fed) = c
  <2>1. total_rows(fed) = n
    BY <1>6, SameSizes DEF SameLists
  <2> QED
    BY <1>3, <1>5, <1>6, <2>1, ListsHold DEF Current
<1>8. CASE fed.next_row_out < 2
  <2>1. fed.rowgroup_ctr < fed.rowgroups_avail
    BY <1>1, <1>3, <1>5, <1>6, <1>8
  <2>2. t = fed
    BY <2>1 DEF PostponedRow, fed
  <2>3. Postponed(fed, c)
    BY <1>1, <1>3, <1>5, <1>6, <1>7, <1>8 DEF Postponed, G, m
  <2>4. InState(fed)
    BY <1>6, <1>7, <2>3 DEF InState
  <2> QED
    BY <1>5, <1>6, <1>7, <2>2, <2>4 DEF ReaderHolds
<1>9. CASE ~(fed.next_row_out < 2)
  <2>1. ~(fed.rowgroup_ctr < fed.rowgroups_avail)
    BY <1>1, <1>3, <1>5, <1>6, <1>9
  <2>2. t = IF Len(fed.out) >= room THEN done ELSE PrepareForIMCU(done, room)
    BY <2>1 DEF PostponedRow, fed
  <2>3. /\ IsReader(done) /\ done.state = "prepare" /\ SameReader(fed, done) /\ SameProgress(fed, done)
        /\ SameLists(fed, done) /\ done.buffer_full = TRUE /\ done.iMCU_row_ctr = r.iMCU_row_ctr
        /\ done.rowgroup_ctr = fed.rowgroup_ctr /\ done.context /\ done.M = r.M
    BY <1>5, <1>6 DEF IsReader, SameReader, SameProgress, SameLists
  <2> HIDE DEF done, t
  <2>4. /\ ReaderTyped(done) /\ InPlace(done) /\ Wraps(done) /\ Back(done, c) /\ Front(done, c)
    BY <1>7, <2>3, ListsHold
  <2>5. total_rows(done) = n /\ Current(done) = c
    BY <1>6, <1>7, <2>3, SameSizes DEF Current
  <2>6. Counted(done, room)
    BY <1>5, <2>3 DEF Counted, SameProgress
  <2>7. OutHolds(done) /\ SameCall(fed, done)
    <3>1. \A y : OutputWanted(done, y) = OutputWanted(fed, y)
      BY <2>3 DEF OutputWanted, SameReader
    <3> QED
      BY <1>5, <2>3, <3>1 DEF OutHolds, SameProgress, SameCall, SameReader
  <2>8. fed.next_row_out = 2
    <3>1. fed.next_row_out \in 0 .. 2
      BY <1>5 DEF Counted
    <3> QED
      BY <1>9, <3>1
  <2>9. At(done, m)
    <3>1. At(fed, m)
      BY <1>2, <1>5, <1>9
    <3> QED
      BY <2>3, <3>1 DEF At, NextRow, SameReader, SameProgress
  <2>10. Prepare(done, c)
    BY <1>1, <1>3, <2>3, <2>4, <2>5, <2>8, <2>9 DEF Prepare, Edges, m, SameProgress
  <2>11. InState(done)
    BY <2>3, <2>5, <2>10 DEF InState
  <2>12. ReaderHolds(done, room) /\ SameCall(r, done)
    BY <1>6, <2>4, <2>6, <2>7, <2>11 DEF ReaderHolds, SameCall
  <2>13. LET u == PrepareForIMCU(done, room) IN ReaderHolds(u, room) /\ SameCall(done, u)
    BY <2>3, <2>4, <2>5, <2>6, <2>7, <2>10, PrepareHolds
  <2> QED
    BY <2>2, <2>12, <2>13 DEF t, SameCall
<1> QED
  BY <1>8, <1>9

\* Without rows around.
LEMMA SimpleHolds ==
  ASSUME NEW r, NEW room \in Int, ReaderTyped(r), Counted(r, room), OutHolds(r), ~r.context, r.buffer_full = TRUE,
         NEW c \in Nat, c = Current(r), r.iMCU_row_ctr \in Nat, Simple(r, c)
  PROVE  LET t == process_data_simple(r, room) IN ReaderHolds(t, room) /\ SameCall(r, t)
<1> DEFINE fed == sep_upsample(r, room)
           out == [fed EXCEPT !.buffer_full = FALSE, !.rowgroup_ctr = 0]
           t == process_data_simple(r, room)
           m == c * r.M
           q == r.rowgroup_ctr
           p == fed.rowgroup_ctr
           G == m + q
           R == r.R
           B == Rows(r)
           b == RowsBefore(r, c)
           w == r.whichptr
           x == r.xbuffer
<1>1. IsReader(r) /\ Sized(r) /\ r.M \in Nat \ {0} /\ R \in {1, 2} /\ w = 0
  BY BufferIs DEF ReaderTyped, Sized
<1>2. /\ m \in Nat /\ (c + 1) * r.M = m + r.M
      /\ b = R * m /\ B \in Nat /\ (R = 1 => B = r.M) /\ R * (r.M - 1) = B - R
  BY <1>1, RowsBeforeIs, RowsIs
<1> HIDE DEF m
<1>3. q \in Nat /\ q < r.M /\ At(r, G) /\ Turned(r, G) /\ Listed(r) /\ Front(r, c)
  BY DEF Simple, m
<1>4. G \in Nat
  BY <1>2, <1>3
<1>5. Shown(r, G)
  <2>1. ASSUME NEW j \in 0 .. R - 1 PROVE Pointed(r, q * R + j) = R * G + j
    <3> DEFINE i == q * R + j
    <3>1. \A e \in 0 .. B - 1 : x[w][e] = Place(B, R, w, e)
      BY <1>3 DEF Listed
    <3>2. \A e \in 0 .. B - 1 : r.buffer[Place(B, R, w, e)] = b + e
      BY <1>3 DEF Front
    <3>3. Pointed(r, i) = r.buffer[x[w][i]]
      BY DEF Pointed
    <3>4. i \in 0 .. B - 1 /\ b + i = R * G + j
      <4> HIDE DEF q, R, B, b
      <4>1. CASE R = 1
        BY <1>1, <1>2, <1>3, <4>1
      <4>2. CASE R = 2
        BY <1>1, <1>2, <1>3, <4>2
      <4> QED
        BY <1>1, <4>1, <4>2 DEF R
    <3> HIDE DEF i, x, w, B, R, b
    <3>5. Pointed(r, i) = b + i
      BY <3>1, <3>2, <3>3, <3>4
    <3> QED
      BY <3>4, <3>5 DEF i
  <2>2. ~Copies(r)
    BY DEF Copies
  <2> HIDE DEF G
  <2> QED
    BY <2>1, <2>2 DEF Shown
<1> HIDE DEF G
<1>6. /\ IsReader(fed) /\ SameSource(r, fed) /\ Counted(fed, room) /\ OutHolds(fed)
      /\ p = IF fed.next_row_out < 2 THEN q ELSE q + 1
      /\ At(fed, IF fed.next_row_out < 2 THEN G ELSE G + 1) /\ Turned(fed, G)
  BY <1>1, <1>3, <1>4, <1>5, GroupPutOut
<1>7. t = IF p < r.M THEN fed ELSE out
  BY DEF process_data_simple
<1> HIDE DEF fed, t
<1> DEFINE H == m + p
<1>8. At(fed, H) /\ Turned(fed, H) /\ p \in Nat
  <2>1. CASE fed.next_row_out < 2
    BY <1>3, <1>6, <2>1 DEF G
  <2>2. CASE ~(fed.next_row_out < 2)
    <3>1. p = q + 1
      BY <1>6, <2>2
    <3>2. H = G + 1 /\ p \in Nat
      BY <1>2, <1>3, <3>1 DEF G
    <3> QED
      BY <1>6, <2>2, <3>2 DEF Turned
  <2> QED
    BY <2>1, <2>2
<1> HIDE DEF q, p, H
<1>9. /\ SameLists(r, fed) /\ fed.context = r.context /\ fed.M = r.M
      /\ fed.buffer_full = TRUE /\ fed.iMCU_row_ctr = r.iMCU_row_ctr /\ SameCall(r, fed)
  BY <1>6, SourceIsSame DEF SameSource, SameCall
<1>10. ReaderTyped(fed) /\ Listed(fed) /\ Front(fed, c) /\ Current(fed) = c
  BY <1>3, <1>6, <1>9, ListsHold DEF Current
<1>11. CASE p < r.M
  <2>1. Simple(fed, c)
    BY <1>8, <1>9, <1>10, <1>11 DEF Simple, H, p, m
  <2>2. InState(fed)
    BY <1>9, <1>10, <2>1 DEF InState
  <2> QED
    BY <1>6, <1>7, <1>9, <1>10, <1>11, <2>2 DEF ReaderHolds, t
<1>12. CASE ~(p < r.M)
  <2>1. p = r.M /\ fed.next_row_out = 2
    <3>1. fed.next_row_out \in 0 .. 2
      BY <1>6 DEF Counted
    <3> QED
      BY <1>1, <1>3, <1>6, <1>12, <3>1
  <2>2. /\ IsReader(out) /\ SameReader(fed, out) /\ SameProgress(fed, out) /\ SameLists(fed, out)
        /\ out.buffer_full = FALSE /\ out.iMCU_row_ctr = r.iMCU_row_ctr /\ out.rowgroup_ctr = 0
        /\ ~out.context /\ out.M = r.M
    BY <1>6, <1>9 DEF IsReader, SameReader, SameProgress, SameLists
  <2>3. t = out
    BY <1>7, <1>12
  <2> HIDE DEF out
  <2>4. ReaderTyped(out) /\ Listed(out)
    BY <1>10, <2>2, ListsHold
  <2>5. Counted(out, room)
    BY <1>6, <2>2 DEF Counted, SameProgress
  <2>6. OutHolds(out) /\ SameCall(r, out)
    <3>1. \A y : OutputWanted(out, y) = OutputWanted(fed, y)
      BY <2>2 DEF OutputWanted, SameReader
    <3> QED
      BY <1>6, <1>9, <2>2, <3>1 DEF OutHolds, SameProgress, SameCall, SameReader
  <2>7. c + 1 = r.iMCU_row_ctr /\ Current(out) = c + 1 /\ c + 1 \in Nat
    <3>1. c = r.iMCU_row_ctr - 1
      BY DEF Current
    <3> QED
      BY <2>2, <3>1 DEF Current
  <2>8. H = (c + 1) * r.M + 0
    <3>1. H = m + r.M
      BY <2>1 DEF H
    <3>2. m + r.M \in Int
      BY <1>1, <1>2
    <3> QED
      BY <1>2, <3>1, <3>2
  <2>9. At(out, (c + 1) * out.M + out.rowgroup_ctr)
    <3>1. At(out, H)
      BY <1>8, <2>2 DEF At, NextRow, SameReader, SameProgress
    <3> QED
      BY <2>2, <2>8, <3>1
  <2>10. Simple(out, c + 1)
    <3>1. out.next_row_out = 2
      BY <2>1, <2>2 DEF SameProgress
    <3>2. out.rowgroup_ctr \in Nat /\ out.rowgroup_ctr < out.M
      BY <1>1, <2>2
    <3> QED
      BY <2>2, <2>4, <2>9, <3>1, <3>2 DEF Simple
  <2>11. InState(out)
    BY <2>2, <2>7, <2>10 DEF InState
  <2> QED
    BY <2>3, <2>4, <2>5, <2>6, <2>11 DEF ReaderHolds, t
<1> QED
  BY <1>11, <1>12

\* What the state of a reader is about.
SameState(r, t) ==
  /\ SameLists(r, t) /\ t.state = r.state /\ t.buffer_full = r.buffer_full /\ t.iMCU_row_ctr = r.iMCU_row_ctr
  /\ t.rowgroup_ctr = r.rowgroup_ctr /\ t.rowgroups_avail = r.rowgroups_avail
  /\ t.color = r.color /\ t.next_row_out = r.next_row_out /\ t.rows_to_go = r.rows_to_go

LEMMA StateStays ==
  ASSUME NEW r, NEW t, SameState(r, t), InState(r)
  PROVE  InState(t)
<1> DEFINE c == Current(r)
<1>1. /\ SameLists(r, t) /\ t.state = r.state /\ t.buffer_full = r.buffer_full /\ t.iMCU_row_ctr = r.iMCU_row_ctr
      /\ t.rowgroup_ctr = r.rowgroup_ctr /\ t.rowgroups_avail = r.rowgroups_avail
      /\ t.color = r.color /\ t.next_row_out = r.next_row_out /\ t.rows_to_go = r.rows_to_go
  BY DEF SameState
<1>2. /\ t.context = r.context /\ t.R = r.R /\ t.M = r.M /\ t.height = r.height
      /\ t.downsampled_height = r.downsampled_height /\ SameReader(r, t)
  BY <1>1 DEF SameLists, SameReader
<1>3. total_rows(t) = total_rows(r) /\ Avail(t, c) = Avail(r, c) /\ \A e : RowsBefore(t, e) = RowsBefore(r, e)
  <2>1. total_rows(t) = total_rows(r) /\ rows_left(t) = rows_left(r) /\ \A e : RowsBefore(t, e) = RowsBefore(r, e)
    BY <1>2, SameSizes
  <2> QED
    BY <1>2, <2>1 DEF Avail
<1>4. /\ InPlace(r) => InPlace(t)
      /\ Wraps(r) => Wraps(t)
      /\ Fresh(r) => Fresh(t)
      /\ Listed(r) => Listed(t)
      /\ Front(r, c) => Front(t, c)
      /\ Back(r, c) => Back(t, c)
      /\ \A i : Pointed(t, i) = Pointed(r, i)
  BY <1>1, ListsHold
<1>5. Around(r, c) => Around(t, c)
  BY <1>1, <1>2, <1>3, <1>4 DEF Around
<1>6. Edges(r, c) => Edges(t, c)
  BY <1>4 DEF Edges
<1>7. \A G : (At(r, G) => At(t, G)) /\ (Turned(r, G) => Turned(t, G))
  <2>1. \A G : ColorOf(t, G) = ColorOf(r, G)
    BY <1>1, <1>2 DEF ColorOf, Copies
  <2> QED
    BY <1>1, <1>2, <2>1 DEF At, NextRow, Turned
<1>8. Current(t) = c
  BY <1>1 DEF Current
<1> HIDE DEF c
<1>9. Process(r, c) => Process(t, c)
  BY <1>1, <1>2, <1>3, <1>4, <1>5, <1>6, <1>7 DEF Process
<1>10. Postponed(r, c) => Postponed(t, c)
  BY <1>1, <1>2, <1>3, <1>4, <1>7 DEF Postponed
<1>11. Prepare(r, c) => Prepare(t, c)
  BY <1>1, <1>2, <1>3, <1>4, <1>6, <1>7 DEF Prepare
<1>12. Simple(r, c) => Simple(t, c)
  BY <1>1, <1>2, <1>3, <1>4, <1>7 DEF Simple
<1> QED
  BY <1>1, <1>2, <1>8, <1>9, <1>10, <1>11, <1>12 DEF InState, c

\* An iMCU row is decompressed before any of it is put out.
LEMMA FullHolds ==
  ASSUME NEW r, ReaderTyped(r), InState(r), ~r.buffer_full
  PROVE  LET t == Decompressed(r)
         IN /\ ReaderTyped(t) /\ SameReader(r, t) /\ SameProgress(r, t) /\ t.buffer_full = TRUE
            /\ t.rowgroup_ctr = r.rowgroup_ctr /\ InState(t)
<1> DEFINE t == Decompressed(r)
           c == r.iMCU_row_ctr
<1>1. c \in Nat /\ Current(r) = c /\ (r.context => Process(r, c) \/ Postponed(r, c) \/ Prepare(r, c))
      /\ (~r.context => Simple(r, c)) /\ ~r.buffer_full
  <2>1. Current(r) \in Nat /\ c \in Nat
    BY DEF InState
  <2>2. Current(r) = c
    BY DEF Current
  <2> QED
    BY <2>1, <2>2 DEF InState
<1>2. CASE r.context
  <2>1. InPlace(r)
    BY <1>1, <1>2 DEF Process, Postponed, Prepare
  <2>2. Listed(r)
    <3>1. r.whichptr \in {0, 1}
      BY BufferIs
    <3>2. \A i \in 0 .. Rows(r) - 1 : i \in 0 .. Span(r) - 1
      <4>1. Sized(r) /\ r.R \in {1, 2}
        BY DEF ReaderTyped, Sized
      <4>2. Rows(r) \in Nat /\ Span(r) = Rows(r) + 2 * r.R
        BY <4>1, RowsIs
      <4> QED
        BY <4>1, <4>2
    <3> QED
      BY <2>1, <3>1, <3>2 DEF Listed, InPlace
  <2>3. /\ ReaderTyped(t) /\ SameReader(r, t) /\ SameProgress(r, t)
        /\ t.xbuffer = r.xbuffer /\ t.whichptr = r.whichptr /\ t.state = r.state
        /\ t.rowgroup_ctr = r.rowgroup_ctr /\ t.rowgroups_avail = r.rowgroups_avail
        /\ t.buffer_full = TRUE /\ t.iMCU_row_ctr = c + 1
        /\ Front(t, c) /\ (Back(r, c) => Back(t, c))
    BY <1>1, <2>2, DecompressedIs
  <2> HIDE DEF t
  <2>4. /\ t.context = r.context /\ t.R = r.R /\ t.M = r.M /\ t.height = r.height
        /\ Rows(t) = Rows(r) /\ Span(t) = Span(r) /\ total_rows(t) = total_rows(r)
        /\ t.rows_to_go = r.rows_to_go /\ t.next_row_out = r.next_row_out /\ t.color = r.color
    BY <2>3, SameSizes DEF SameReader, SameProgress
  <2>5. InPlace(t) /\ (Wraps(r) => Wraps(t)) /\ (Fresh(r) => Fresh(t))
    BY <2>1, <2>3, <2>4 DEF InPlace, Wraps, Fresh
  <2>6. (Edges(r, c) => Edges(t, c)) /\ \A G : At(r, G) => At(t, G)
    BY <2>3, <2>4, <2>5 DEF Edges, At, NextRow
  <2>7. Current(t) = c /\ t.iMCU_row_ctr \in Nat
    BY <1>1, <2>3 DEF Current
  <2>8. Postponed(r, c) => Postponed(t, c)
    BY <1>1, <2>3, <2>4, <2>5, <2>6 DEF Postponed, Turned
  <2>9. Prepare(r, c) => Prepare(t, c)
    BY <2>3, <2>4, <2>5, <2>6 DEF Prepare
  <2>10. ~Process(r, c)
    BY <1>1 DEF Process
  <2>11. InState(t)
    BY <1>1, <1>2, <2>3, <2>4, <2>7, <2>8, <2>9, <2>10 DEF InState
  <2> QED
    BY <2>3, <2>11 DEF t
<1>3. CASE ~r.context
  <2>1. Simple(r, c) /\ Listed(r)
    BY <1>1, <1>3 DEF Simple
  <2>3. /\ ReaderTyped(t) /\ SameReader(r, t) /\ SameProgress(r, t)
        /\ t.xbuffer = r.xbuffer /\ t.whichptr = r.whichptr
        /\ t.rowgroup_ctr = r.rowgroup_ctr
        /\ t.buffer_full = TRUE /\ t.iMCU_row_ctr = c + 1 /\ Front(t, c)
    BY <1>1, <2>1, DecompressedIs
  <2> HIDE DEF t
  <2>4. /\ t.context = r.context /\ t.R = r.R /\ t.M = r.M /\ t.height = r.height /\ Rows(t) = Rows(r)
        /\ t.rows_to_go = r.rows_to_go /\ t.next_row_out = r.next_row_out
    BY <2>3, SameSizes DEF SameReader, SameProgress
  <2>5. Listed(t) /\ \A G : At(r, G) => At(t, G)
    BY <2>1, <2>3, <2>4 DEF Listed, At, NextRow
  <2>6. Simple(t, c)
    BY <1>1, <2>1, <2>3, <2>4, <2>5 DEF Simple, Turned
  <2>7. Current(t) = c /\ t.iMCU_row_ctr \in Nat
    BY <1>1, <2>3 DEF Current
  <2>8. InState(t)
    BY <1>1, <1>3, <2>3, <2>4, <2>6, <2>7 DEF InState
  <2> QED
    BY <2>3, <2>8 DEF t
<1> QED
  BY <1>2, <1>3

\* A reader between two calls.
ReaderInv(r) ==
  /\ ReaderTyped(r) /\ OutHolds(r) /\ r.next_row_out \in 0 .. 2 /\ r.rows_to_go \in Nat /\ r.rowgroup_ctr \in Int
  /\ r.output_scanline = r.height - r.rows_to_go
  /\ r.rows_to_go > 0 => InState(r)

LEMMA ReadersHold ==
  ASSUME NEW r \in Readers
  PROVE  ReaderInv(r)
<1>1. PICK c \in BOOLEAN, R \in {1, 2}, m \in Sizes, h \in Heights : r = Reader(c, R, m, h)
  BY DEF Readers
<1>2. r.context => r.M >= 2
  BY DEF Readers
<1>3. h \in Nat \ {0} /\ m \in Nat \ {0}
  BY RowsAssumption
<1> DEFINE buf == [i \in 0 .. R * (m + 2) - 1 |-> -1]
<1>4. r = [context |-> c, R |-> R, M |-> m, height |-> h, downsampled_height |-> CeilDiv(h * R, V),
           buffer |-> buf, xbuffer |-> FunnyPointers(R, m),
           whichptr |-> 0, state |-> "prepare", buffer_full |-> FALSE, iMCU_row_ctr |-> 0,
           rowgroup_ctr |-> 0, rowgroups_avail |-> m, color |-> <<>>, next_row_out |-> 2, rows_to_go |-> h,
           output_scanline |-> 0, first |-> 0, out |-> <<>>]
  BY <1>1 DEF Reader, V
<1> HIDE DEF buf
<1>5. /\ IsReader(r) /\ r.context = c /\ r.R = R /\ r.M = m /\ r.height = h
      /\ r.downsampled_height = CeilDiv(h * R, V) /\ r.buffer = buf /\ r.xbuffer = FunnyPointers(R, m)
      /\ r.whichptr = 0 /\ r.state = "prepare" /\ r.buffer_full = FALSE /\ r.iMCU_row_ctr = 0
      /\ r.rowgroup_ctr = 0 /\ r.next_row_out = 2 /\ r.rows_to_go = h
      /\ r.output_scanline = 0 /\ r.first = 0 /\ r.out = <<>>
  BY <1>4 DEF IsReader
<1>6. Sized(r)
  BY <1>3, <1>5 DEF Sized
<1>7. /\ r.xbuffer \in [{0, 1} -> [-r.R .. Span(r) + r.R - 1 -> Int]]
      /\ InPlace(r) /\ \A i \in -r.R .. -1 : r.xbuffer[0][i] = 0
  BY <1>5, <1>6, FunnyPointersAre
<1>8. r.buffer \in [0 .. Span(r) - 1 -> Int]
  <2>1. R * (m + 2) = Span(r)
    BY <1>5, <1>6, RowsIs
  <2>2. buf \in [0 .. R * (m + 2) - 1 -> Int]
    BY DEF buf
  <2> QED
    BY <1>5, <2>1, <2>2
<1>9. ReaderTyped(r)
  BY <1>2, <1>5, <1>6, <1>7, <1>8 DEF ReaderTyped, Buffered
<1>10. OutHolds(r)
  BY <1>3, <1>5 DEF OutHolds
<1>11. Current(r) = 0 /\ 0 * r.M = 0 /\ 0 * r.M + r.rowgroup_ctr = 0
  BY <1>3, <1>5 DEF Current
<1>12. At(r, 0)
  BY <1>3, <1>5 DEF At, NextRow
<1>15. r.iMCU_row_ctr \in Nat /\ r.buffer_full \in BOOLEAN /\ 0 \in Nat
  <2>1. r.iMCU_row_ctr = 0 /\ r.buffer_full = FALSE
    BY <1>5
  <2>2. r.iMCU_row_ctr \in Nat /\ 0 \in Nat
    BY <2>1
  <2>3. r.buffer_full \in BOOLEAN
    BY <2>1
  <2> QED
    BY <2>2, <2>3
<1>13. CASE r.context
  <2>1. 0 < total_rows(r)
    <3>1. 0 \in Nat /\ total_rows(r) \in Nat \ {0}
      BY <1>6, LastRows
    <3> QED
      BY <3>1
  <2>2. Fresh(r)
    BY <1>5, <1>7 DEF Fresh
  <2>3. Prepare(r, 0)
    BY <1>5, <1>7, <1>11, <1>12, <2>1, <2>2 DEF Prepare, Edges
  <2>4. InState(r)
    BY <1>11, <1>15, <1>13, <2>3 DEF InState
  <2> QED
    BY <1>3, <1>5, <1>9, <1>10, <2>4 DEF ReaderInv
<1>14. CASE ~r.context
  <2>1. Listed(r)
    <3>1. \A i \in 0 .. Rows(r) - 1 : i \in 0 .. Span(r) - 1
      <4>1. r.R \in {1, 2}
        BY <1>5
      <4>2. Rows(r) \in Nat /\ Span(r) = Rows(r) + 2 * r.R
        BY <1>6, RowsIs
      <4> QED
        BY <4>1, <4>2
    <3> QED
      BY <1>5, <1>7, <3>1 DEF Listed, InPlace
  <2>2. r.rowgroup_ctr \in Nat /\ r.rowgroup_ctr < r.M
    BY <1>3, <1>5
  <2>3. Simple(r, 0)
    BY <1>5, <1>11, <1>12, <2>1, <2>2 DEF Simple
  <2>4. InState(r)
    BY <1>11, <1>15, <1>14, <2>3 DEF InState
  <2> QED
    BY <1>3, <1>5, <1>9, <1>10, <2>4 DEF ReaderInv
<1> QED
  BY <1>13, <1>14

\* One call.
LEMMA ReaderGoesOn ==
  ASSUME reader # Idle => ReaderInv(reader), jpeg_read_scanlines
  PROVE  ReaderInv(reader') /\ writer' = writer
<1>1. reader.output_scanline < reader.height /\ writer' = writer
  BY DEF jpeg_read_scanlines
<1>2. reader # Idle
  <2>1. ~(Idle.output_scanline < Idle.height)
    BY DEF Idle
  <2> QED
    BY <1>1, <2>1
<1>3. ReaderInv(reader)
  BY <1>2
<1> DEFINE s == reader
           start == [s EXCEPT !.out = <<>>, !.first = s.output_scanline]
           full == IF start.buffer_full THEN start ELSE Decompressed(start)
           call(room) == IF s.context THEN process_data_context_main(full, room) ELSE process_data_simple(full, room)
<1>4. PICK room \in Room, ready \in BOOLEAN :
        LET r == IF ~full.buffer_full \/ (~ready /\ ~start.buffer_full) THEN start ELSE call(room)
        IN s' = [r EXCEPT !.output_scanline = @ + Len(r.out)]
  BY DEF jpeg_read_scanlines
<1> DEFINE r == IF ~full.buffer_full \/ (~ready /\ ~start.buffer_full) THEN start ELSE call(room)
           t == [r EXCEPT !.output_scanline = @ + Len(r.out)]
<1>5. s' = t
  BY <1>4
<1>6. room \in Nat \ {0} /\ room \in Int
  BY RowsAssumption
<1>7. /\ IsReader(s) /\ ReaderTyped(s) /\ OutHolds(s) /\ s.next_row_out \in 0 .. 2
      /\ s.rows_to_go \in Nat /\ s.rowgroup_ctr \in Int
      /\ s.output_scanline = s.height - s.rows_to_go /\ s.height \in Nat
  BY <1>3 DEF ReaderInv, ReaderTyped, Sized
<1>8. InState(s)
  <2>1. s.rows_to_go > 0
    BY <1>1, <1>7
  <2> QED
    BY <1>3, <2>1 DEF ReaderInv
<1>9. s.output_scanline \in Nat
  <2>1. s.first \in Nat /\ s.first + Len(s.out) = s.height - s.rows_to_go /\ Len(s.out) \in Nat
    BY <1>7 DEF OutHolds
  <2> QED
    BY <1>7, <2>1
<1> HIDE DEF s
<1>10. /\ IsReader(start) /\ SameState(s, start) /\ start.out = <<>> /\ start.first = s.output_scanline
       /\ start.output_scanline = s.output_scanline /\ start.height = s.height
  BY <1>7 DEF IsReader, SameState, SameLists, SameReader
<1> HIDE DEF start
<1>11. /\ ReaderTyped(start) /\ InState(start) /\ start.context = s.context
       /\ start.rows_to_go = s.rows_to_go /\ start.next_row_out = s.next_row_out
       /\ start.rowgroup_ctr = s.rowgroup_ctr
  BY <1>7, <1>8, <1>10, StateStays, ListsHold DEF SameState, SameLists, SameReader
<1>12. Counted(start, room)
  BY <1>6, <1>7, <1>10, <1>11 DEF Counted
<1>13. OutHolds(start)
  <2>1. Len(<<>>) = 0 /\ DOMAIN <<>> = {} /\ <<>> \in Seq(Seq(Int))
    OBVIOUS
  <2>2. s.output_scanline + 0 = s.height - s.rows_to_go
    BY <1>7, <1>9
  <2> QED
    BY <1>9, <1>10, <1>11, <2>1, <2>2 DEF OutHolds
<1>14. start.buffer_full \in BOOLEAN
  BY <1>11 DEF InState
<1>15. /\ ReaderTyped(full) /\ InState(full) /\ Counted(full, room) /\ OutHolds(full) /\ SameCall(start, full)
       /\ full.buffer_full = TRUE /\ full.context = start.context
  <2>1. CASE start.buffer_full
    <3>1. full = start /\ start.buffer_full = TRUE
      BY <1>14, <2>1
    <3> QED
      BY <1>11, <1>12, <1>13, <3>1 DEF SameCall
  <2>2. CASE ~start.buffer_full
    <3>1. full = Decompressed(start)
      BY <2>2
    <3> HIDE DEF full
    <3>2. /\ ReaderTyped(full) /\ SameReader(start, full) /\ SameProgress(start, full) /\ full.buffer_full = TRUE
          /\ full.rowgroup_ctr = start.rowgroup_ctr /\ InState(full)
      BY <1>11, <2>2, <3>1, FullHolds
    <3>3. Counted(full, room)
      BY <1>12, <3>2 DEF Counted, SameProgress
    <3>4. OutHolds(full)
      <4>1. \A y : OutputWanted(full, y) = OutputWanted(start, y)
        BY <3>2 DEF OutputWanted, SameReader
      <4> QED
        BY <1>13, <3>2, <4>1 DEF OutHolds, SameProgress, SameReader
    <3> QED
      BY <3>2, <3>3, <3>4 DEF SameCall, SameReader, SameProgress
  <2> QED
    BY <2>1, <2>2
<1> HIDE DEF full
<1>16. ReaderHolds(call(room), room) /\ SameCall(full, call(room))
  <2> DEFINE c == Current(full)
  <2>1. c \in Nat /\ full.iMCU_row_ctr \in Nat
    BY <1>15 DEF InState
  <2>2. CASE s.context
    <3>1. full.context /\ (Process(full, c) \/ Postponed(full, c) \/ Prepare(full, c))
      BY <1>11, <1>15, <2>2 DEF InState
    <3>2. call(room) = process_data_context_main(full, room)
      BY <2>2
    <3>3. CASE Process(full, c)
      <4>1. call(room) = ProcessIMCU(full, room)
        BY <3>2, <3>3 DEF process_data_context_main, Process
      <4> QED
        BY <1>6, <1>15, <2>1, <3>1, <3>3, <4>1, ProcessHolds
    <3>4. CASE Postponed(full, c)
      <4>1. call(room) = PostponedRow(full, room)
        BY <3>2, <3>4 DEF process_data_context_main, Postponed
      <4> QED
        BY <1>6, <1>15, <2>1, <3>1, <3>4, <4>1, PostponedHolds
    <3>5. CASE Prepare(full, c)
      <4>1. call(room) = PrepareForIMCU(full, room)
        BY <3>2, <3>5 DEF process_data_context_main, Prepare
      <4> QED
        BY <1>6, <1>15, <2>1, <3>1, <3>5, <4>1, PrepareHolds
    <3> QED
      BY <3>1, <3>3, <3>4, <3>5
  <2>3. CASE ~s.context
    <3>1. ~full.context /\ Simple(full, c)
      BY <1>11, <1>15, <2>3 DEF InState
    <3>2. call(room) = process_data_simple(full, room)
      BY <2>3
    <3> QED
      BY <1>6, <1>15, <2>1, <3>1, <3>2, SimpleHolds
  <2> QED
    BY <2>2, <2>3
<1> HIDE DEF call
<1>17. ReaderHolds(r, room) /\ SameCall(start, r)
  <2>1. ReaderHolds(start, room) /\ SameCall(start, start)
    BY <1>11, <1>12, <1>13 DEF ReaderHolds, SameCall
  <2>2. SameCall(start, call(room))
    BY <1>15, <1>16 DEF SameCall
  <2> QED
    BY <1>16, <2>1, <2>2
<1> HIDE DEF r
<1>18. /\ IsReader(r) /\ ReaderTyped(r) /\ OutHolds(r) /\ r.next_row_out \in 0 .. 2
       /\ r.rows_to_go \in Nat /\ r.rowgroup_ctr \in Int /\ (r.rows_to_go > 0 => InState(r))
       /\ r.first = s.output_scanline /\ r.output_scanline = s.output_scanline
  BY <1>10, <1>17 DEF ReaderHolds, ReaderTyped, Counted, SameCall
<1> DEFINE next == r.output_scanline + Len(r.out)
<1>19. t = [r EXCEPT !.output_scanline = next]
  OBVIOUS
<1>20. next = r.height - r.rows_to_go
  <2>1. next = r.first + Len(r.out)
    BY <1>18
  <2> QED
    BY <1>18, <2>1 DEF OutHolds
<1> HIDE DEF next, t
<1>21. /\ IsReader(t) /\ SameState(r, t) /\ t.out = r.out /\ t.first = r.first
       /\ t.output_scanline = next /\ t.height = r.height
  BY <1>18, <1>19 DEF IsReader, SameState, SameLists, SameReader
<1>22. /\ ReaderTyped(t) /\ t.rows_to_go = r.rows_to_go /\ t.next_row_out = r.next_row_out
       /\ t.rowgroup_ctr = r.rowgroup_ctr /\ (r.rows_to_go > 0 => InState(t)) /\ SameReader(r, t)
  BY <1>18, <1>21, StateStays, ListsHold DEF SameState, SameLists
<1>23. OutHolds(t)
  <2>1. \A y : OutputWanted(t, y) = OutputWanted(r, y)
    BY <1>22 DEF OutputWanted, SameReader
  <2> QED
    BY <1>18, <1>21, <1>22, <2>1 DEF OutHolds
<1>24. ReaderInv(t)
  BY <1>18, <1>20, <1>21, <1>22, <1>23 DEF ReaderInv
<1> QED
  BY <1>1, <1>5, <1>24 DEF s

-----------------------------------------------------------------------------
\* Either end, between two calls.
RowsInv == (writer # Idle => WriterInv(writer)) /\ (reader # Idle => ReaderInv(reader))

LEMMA RowsBegin ==
  ASSUME RowInit
  PROVE  RowsInv
BY WritersHold, ReadersHold DEF RowInit, RowsInv

LEMMA RowsGoOn ==
  ASSUME RowsInv, [RowNext]_rowVars
  PROVE  RowsInv'
<1>1. CASE jpeg_write_scanlines
  <2>1. WriterInv(writer') /\ reader' = reader
    BY <1>1, WriterGoesOn DEF RowsInv
  <2> QED
    BY <2>1 DEF RowsInv
<1>2. CASE jpeg_read_scanlines
  <2>1. ReaderInv(reader') /\ writer' = writer
    BY <1>2, ReaderGoesOn DEF RowsInv
  <2> QED
    BY <2>1 DEF RowsInv
<1>3. CASE NextPicture
  BY <1>3, WritersHold, ReadersHold DEF NextPicture, RowsInv
<1>4. CASE UNCHANGED rowVars
  BY <1>4 DEF rowVars, RowsInv
<1> QED
  BY <1>1, <1>2, <1>3, <1>4 DEF RowNext

LEMMA RowsAreInPlace ==
  ASSUME RowsInv
  PROVE  RowsInPlace
<1>1. writer # Idle => WriterInPlace(writer)
  BY WriterIsInPlace DEF RowsInv
<1>2. reader # Idle => OutHolds(reader)
  BY DEF RowsInv, ReaderInv
<1> QED
  BY <1>1, <1>2 DEF RowsInPlace, WriterInPlace, OutHolds

\* Each row group is compressed once, in order and with the rows that are its neighbours
\* in the picture, and each row is read so, for every height and every number of rows in a
\* call, wherever a call stopped (jcprepct.c, jcmainct.c, jdmainct.c, jdsample.c).
THEOREM RowsStayInPlace == RowSpec => []RowsInPlace
<1>1. RowInit => RowsInv
  BY RowsBegin
<1>2. RowsInv /\ [RowNext]_rowVars => RowsInv'
  BY RowsGoOn
<1>3. RowsInv => RowsInPlace
  BY RowsAreInPlace
<1> QED
  BY <1>1, <1>2, <1>3, PTL DEF RowSpec
=============================================================================
