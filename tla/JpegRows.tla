------------------------------ MODULE JpegRows ------------------------------
(***************************************************************************)
(* The row buffers of the jpeg library, at both ends of a Tight rectangle: *)
(* jcmainct.c and jcprepct.c when it is compressed, jdmainct.c and         *)
(* jdsample.c when it is read.  A row of samples is its number.  A filter  *)
(* that looks at the rows above and below needs them when the buffer wraps *)
(* around, at the edges of the picture, and when either side stops in the  *)
(* middle of a call.                                                       *)
(***************************************************************************)
EXTENDS Integers, Sequences, FiniteSetsExt

CONSTANTS
  Heights,  \* of pictures
  Sizes,    \* min_DCT_scaled_size of the reader
  DCTSIZE,  \* row groups of an iMCU row of the writer
  Room      \* rows that the application hands over, or has room for, in a call

ASSUME RowsAssumption ==
  /\ Heights \subseteq Nat \ {0} /\ Sizes \subseteq Nat \ {0} /\ Room \subseteq Nat \ {0}
  /\ DCTSIZE \in Nat \ {0}

VARIABLES
  writer, \* the writer, with what it passed on in its last call
  reader  \* the reader, with the rows it put out in its last call

rowVars == <<writer, reader>>

Least(a, b) == Min({a, b})
CeilDiv(a, b) == (a + b - 1) \div b

-----------------------------------------------------------------------------
(* The writer.  color_buf is three row groups of V rows; its list of       *)
(* pointers has one more at either end, which wrap around.                 *)

Slot(w, i) == i % (3 * w.V)

Writers ==
  {[context |-> c, V |-> v, height |-> h, color_buf |-> [i \in 0 .. 3 * v - 1 |-> -1],
    next_buf_row |-> 0, next_buf_stop |-> IF c THEN 2 * v ELSE v, this_row_group |-> 0,
    rows_to_go |-> h, next_scanline |-> 0, in |-> 0, groups |-> <<>>,
    cur_iMCU_row |-> 0, suspended |-> FALSE, first |-> 0, sent |-> <<>>] :
   c \in BOOLEAN, v \in {1, 2}, h \in Heights}

total_iMCU_rows(w) == CeilDiv(w.height, w.V * DCTSIZE)

\* Rows of the application are converted into the buffer; the first ones are
\* also what lies above the picture.
Take(w, n) ==
  LET row(i) == w.next_scanline + w.in + (i - w.next_buf_row)
      taken == [i \in DOMAIN w.color_buf |->
                  IF \E j \in 0 .. n - 1 : Slot(w, w.next_buf_row + j) = i THEN row(i) ELSE w.color_buf[i]]
      above == {Slot(w, -j) : j \in 1 .. w.V}
  IN [w EXCEPT !.in = @ + n, !.next_buf_row = @ + n, !.rows_to_go = @ - n,
               !.color_buf = IF w.context /\ w.rows_to_go = w.height
                             THEN [i \in DOMAIN taken |-> IF i \in above THEN taken[0] ELSE taken[i]]
                             ELSE taken]

\* expand_bottom_edge, on color_buf
Padded(w, stop) ==
  [w EXCEPT !.next_buf_row = stop,
            !.color_buf = [i \in DOMAIN @ |-> IF w.next_buf_row <= i /\ i < stop
                                              THEN @[Slot(w, w.next_buf_row - 1)] ELSE @[i]]]

\* What the downsampler is given.
Group(w, g) ==
  [rows |-> [j \in 1 .. w.V |-> w.color_buf[Slot(w, g + j - 1)]],
   around |-> IF w.context THEN <<w.color_buf[Slot(w, g - 1)], w.color_buf[Slot(w, g + w.V)]>> ELSE <<>>]

\* (mutant: the buffer wraps around a row group too late)
Wrapped_Late(w, i) == IF i > 3 * w.V THEN 0 ELSE i

Wrapped(w, i) == IF i >= 3 * w.V THEN 0 ELSE i

\* Whether the loop of pre_process_context, or of pre_process_data, is left.
NoMoreContext(w, avail) == Len(w.groups) = DCTSIZE \/ (w.in = avail /\ w.rows_to_go # 0)
NoMoreData(w, avail) == w.in >= avail \/ Len(w.groups) = DCTSIZE

\* A full row group is downsampled, and the pointers go on.
Downsampled(w) ==
  LET row == Wrapped(w, w.next_buf_row)
  IN IF w.next_buf_row # w.next_buf_stop THEN w
     ELSE [w EXCEPT !.groups = Append(@, Group(w, w.this_row_group)),
                    !.this_row_group = Wrapped(w, @ + w.V),
                    !.next_buf_row = row, !.next_buf_stop = row + w.V]

RoundOfContext(w, avail) ==
  Downsampled(IF w.in < avail THEN Take(w, Least(w.next_buf_stop - w.next_buf_row, avail - w.in))
              ELSE Padded(w, w.next_buf_stop))

\* At the bottom of the picture the buffer is filled up, and then the output.
PaddedBelow(w) == IF w.rows_to_go = 0 THEN Padded(w, w.V) ELSE w

Emptied(w) ==
  IF w.next_buf_row < w.V THEN w
  ELSE [w EXCEPT !.groups = Append(@, Group(w, 0)), !.next_buf_row = 0]

\* expand_bottom_edge, on the output
Completed(w) ==
  IF w.rows_to_go = 0 THEN [w EXCEPT !.groups = [i \in 1 .. DCTSIZE |-> @[Least(i, Len(@))]]] ELSE w

RoundOfData(w, avail) ==
  Completed(Emptied(PaddedBelow(Take(w, Least(w.V - w.next_buf_row, avail - w.in)))))

Preprocessed(w, avail) ==
  IF w.context THEN IF NoMoreContext(w, avail) THEN w ELSE RoundOfContext(w, avail)
  ELSE IF NoMoreData(w, avail) THEN w ELSE RoundOfData(w, avail)

\* The loop: each round but one makes a row group.
pre_process(w, avail) ==
  LET after[n \in 0 .. DCTSIZE + 1] == IF n = 0 THEN w ELSE Preprocessed(after[n - 1], avail)
  IN after[DCTSIZE + 1]

\* (mutant: a suspended call lets the application believe that all is taken)
Held_Taken(w) == [w EXCEPT !.suspended = TRUE]

\* compress_data could not write: the last row counts as not taken.
Held(w) == IF w.suspended THEN w ELSE [w EXCEPT !.in = @ - 1, !.suspended = TRUE]

Filled(w, avail) == IF Len(w.groups) = DCTSIZE THEN w ELSE pre_process(w, avail)

\* An iMCU row is compressed once it is full.
PassedOn(w, full) ==
  IF Len(full.groups) # DCTSIZE THEN w
  ELSE [full EXCEPT !.in = IF w.suspended THEN @ + 1 ELSE @, !.suspended = FALSE,
                    !.sent = @ \o full.groups, !.groups = <<>>, !.cur_iMCU_row = @ + 1]

Compressed(w, avail) == IF w.cur_iMCU_row = total_iMCU_rows(w) THEN w ELSE PassedOn(w, Filled(w, avail))

\* compress_data has done what it could.
Stopped(w) == IF Len(w.groups) # DCTSIZE THEN w ELSE Held(w)

Remaining(w, avail) == IF w.cur_iMCU_row = total_iMCU_rows(w) THEN w ELSE Stopped(Filled(w, avail))

\* compress_data succeeds `could' times.
process_data_simple_main(w, avail, could) ==
  LET after[n \in 0 .. could] == IF n = 0 THEN w ELSE Compressed(after[n - 1], avail)
  IN Remaining(after[could], avail)

jpeg_write_scanlines ==
  /\ writer.next_scanline < writer.height
  /\ \E lines \in Room, could \in 0 .. 2 :
       LET w == process_data_simple_main([writer EXCEPT !.in = 0, !.sent = <<>>, !.first = @ + Len(writer.sent)],
                                         Least(lines, writer.height - writer.next_scanline), could)
       IN writer' = [w EXCEPT !.next_scanline = @ + w.in, !.in = 0]
  /\ UNCHANGED reader

-----------------------------------------------------------------------------
(* The reader.  xbuffer are two lists of pointers into the buffer, which   *)
(* has two row groups more than an iMCU row when rows around are needed.   *)

\* alloc_funny_pointers, make_funny_pointers; R rows are a row group.
Unset == -1
FunnyPointers(R, M) ==
  LET Swapped(i) == IF i \in R * (M - 2) .. R * M - 1 THEN i + 2 * R
                    ELSE IF i \in R * M .. R * (M + 2) - 1 THEN i - 2 * R ELSE i
      Listed == 0 .. R * (M + 2) - 1
  IN [l \in {0, 1} |-> [i \in -R .. R * (M + 3) - 1 |->
        IF i \in Listed THEN (IF l = 0 THEN i ELSE Swapped(i))
        ELSE IF l = 0 /\ i < 0 THEN 0 ELSE Unset]]

set_wraparound_pointers(r) ==
  LET R == r.R  M == r.M
  IN [r EXCEPT !.xbuffer = [l \in {0, 1} |-> [i \in DOMAIN @[l] |->
        IF i < 0 THEN @[l][R * (M + 1) + i + R]
        ELSE IF i >= R * (M + 2) THEN @[l][i - R * (M + 2)] ELSE @[l][i]]]]

rows_left(r) == LET rest == r.downsampled_height % (r.R * r.M) IN IF rest = 0 THEN r.R * r.M ELSE rest

\* (mutant: the last row is repeated for one row group only)
set_bottom_pointers_Once(r) ==
  LET left == rows_left(r)
  IN [r EXCEPT !.rowgroups_avail = ((left - 1) \div r.R) + 1,
               !.xbuffer[r.whichptr] =
                  [i \in DOMAIN @ |-> IF left <= i /\ i < left + r.R - 1 THEN @[left - 1] ELSE @[i]]]

set_bottom_pointers(r) ==
  LET left == rows_left(r)
  IN [r EXCEPT !.rowgroups_avail = ((left - 1) \div r.R) + 1,
               !.xbuffer[r.whichptr] =
                  [i \in DOMAIN @ |-> IF left <= i /\ i < left + 2 * r.R THEN @[left - 1] ELSE @[i]]]

\* Two output rows are made of a row group, V of it: of as many samples, or of one row
\* with its neighbours (h2v2_fancy_upsample).
V == 2
Reader(c, R, m, h) ==
  [context |-> c, R |-> R, M |-> m, height |-> h, downsampled_height |-> CeilDiv(h * R, V),
   buffer |-> [i \in 0 .. R * (m + 2) - 1 |-> -1], xbuffer |-> FunnyPointers(R, m),
   whichptr |-> 0, state |-> "prepare", buffer_full |-> FALSE, iMCU_row_ctr |-> 0,
   rowgroup_ctr |-> 0, rowgroups_avail |-> m, color |-> <<>>, next_row_out |-> V, rows_to_go |-> h,
   output_scanline |-> 0, first |-> 0, out |-> <<>>]

Readers ==
  {r \in {Reader(c, R, m, h) : c \in BOOLEAN, R \in {1, 2}, m \in Sizes, h \in Heights} :
     r.context => r.M >= 2}

total_rows(r) == CeilDiv(r.downsampled_height, r.R * r.M)

Pointed(r, i) == r.buffer[r.xbuffer[r.whichptr][i]]

\* decompress_data: an iMCU row into the list in use.
Decompressed(r) ==
  LET row(i) == r.iMCU_row_ctr * r.R * r.M + i
      list == r.xbuffer[r.whichptr]
  IN [r EXCEPT !.buffer_full = TRUE, !.iMCU_row_ctr = @ + 1,
               !.buffer = [k \in DOMAIN @ |->
                  IF \E i \in 0 .. r.R * r.M - 1 : list[i] = k
                  THEN row(CHOOSE i \in 0 .. r.R * r.M - 1 : list[i] = k) ELSE @[k]]]

\* The conversion buffer after upsampling: copies with neighbours, or a pointer into
\* the list itself (fullsize_upsample).
Upsampled(r) ==
  LET at == r.rowgroup_ctr * r.R
  IN IF r.context /\ r.R = 1 THEN <<<<Pointed(r, at), Pointed(r, at - 1)>>, <<Pointed(r, at), Pointed(r, at + 1)>>>>
     ELSE <<at>>

OutputRow(r, j) ==
  IF r.context /\ r.R = 1 THEN r.color[j + 1]
  ELSE <<Pointed(r, r.color[1] + (IF r.R = 1 THEN 0 ELSE j))>>

\* One row group at most; it counts as consumed when all of it is put out.
sep_upsample(r, room) ==
  LET filled == IF r.next_row_out < V THEN r
                ELSE [r EXCEPT !.color = Upsampled(r), !.next_row_out = 0]
      n == Min({V - filled.next_row_out, r.rows_to_go, room - Len(r.out)})
      next == filled.next_row_out + n
  IN [filled EXCEPT !.out = @ \o [j \in 1 .. n |-> OutputRow(filled, filled.next_row_out + j - 1)],
                    !.rows_to_go = @ - n, !.next_row_out = next,
                    !.rowgroup_ctr = IF next >= V THEN @ + 1 ELSE @]

process_data_simple(r, room) ==
  LET fed == sep_upsample(r, room)
  IN IF fed.rowgroup_ctr < r.M THEN fed ELSE [fed EXCEPT !.buffer_full = FALSE, !.rowgroup_ctr = 0]

ProcessIMCU(r, room) ==
  LET fed == sep_upsample(r, room)
      normal == IF fed.iMCU_row_ctr = 1 THEN set_wraparound_pointers(fed) ELSE fed
  IN IF fed.rowgroup_ctr < fed.rowgroups_avail THEN fed
     ELSE [normal EXCEPT !.whichptr = 1 - @, !.buffer_full = FALSE,
                         !.rowgroup_ctr = r.M + 1, !.rowgroups_avail = r.M + 2, !.state = "postponed"]

PrepareForIMCU(r, room) ==
  LET ready == [r EXCEPT !.rowgroup_ctr = 0, !.rowgroups_avail = r.M - 1, !.state = "process"]
  IN ProcessIMCU(IF r.iMCU_row_ctr = total_rows(r) THEN set_bottom_pointers(ready) ELSE ready, room)

PostponedRow(r, room) ==
  LET fed == sep_upsample(r, room)
      done == [fed EXCEPT !.state = "prepare"]
  IN IF fed.rowgroup_ctr < fed.rowgroups_avail THEN fed
     ELSE IF Len(fed.out) >= room THEN done ELSE PrepareForIMCU(done, room)

process_data_context_main(r, room) ==
  CASE r.state = "postponed" -> PostponedRow(r, room)
    [] r.state = "prepare" -> PrepareForIMCU(r, room)
    [] r.state = "process" -> ProcessIMCU(r, room)

jpeg_read_scanlines ==
  /\ reader.output_scanline < reader.height
  /\ \E room \in Room, ready \in BOOLEAN :
       LET start == [reader EXCEPT !.out = <<>>, !.first = reader.output_scanline]
           full == IF start.buffer_full THEN start ELSE Decompressed(start)
           r == IF ~full.buffer_full \/ (~ready /\ ~start.buffer_full) THEN start
                ELSE IF reader.context THEN process_data_context_main(full, room)
                ELSE process_data_simple(full, room)
       IN reader' = [r EXCEPT !.output_scanline = @ + Len(r.out)]
  /\ UNCHANGED writer

-----------------------------------------------------------------------------
\* Either end alone; the other has nothing to do.
Idle == [height |-> 0, next_scanline |-> 0, output_scanline |-> 0]

RowInit ==
  \/ writer \in Writers /\ reader = Idle
  \/ writer = Idle /\ reader \in Readers

\* Each rectangle is a picture, written and read from the beginning.
NextPicture ==
  \/ /\ writer # Idle /\ writer.next_scanline = writer.height
     /\ writer' \in Writers /\ UNCHANGED reader
  \/ /\ reader # Idle /\ reader.output_scanline = reader.height
     /\ reader' \in Readers /\ UNCHANGED writer

RowNext == jpeg_write_scanlines \/ jpeg_read_scanlines \/ NextPicture

RowSpec == RowInit /\ [][RowNext]_rowVars

-----------------------------------------------------------------------------
\* Rows beyond the edges are those at the edges.
Clamp(i, height) == IF i < 0 THEN 0 ELSE Least(i, height - 1)

Wanted(w, g) ==
  LET c(i) == Clamp(g * w.V + i, w.height)
  IN [rows |-> [j \in 1 .. w.V |-> c(j - 1)], around |-> IF w.context THEN <<c(-1), c(w.V)>> ELSE <<>>]

OutputWanted(r, y) ==
  LET k == y \div V
      beside == IF y % V = 0 THEN k - 1 ELSE k + 1
  IN IF r.R = V THEN <<y>>
     ELSE IF r.context THEN <<k, Clamp(beside, r.downsampled_height)>> ELSE <<k>>

\* Each row group is compressed once and in order, with the rows that are its
\* neighbours in the picture, and so is each row read, wherever a call stopped; and the
\* writer has taken the last row only when all of it is compressed.
RowsInPlace ==
  /\ writer # Idle =>
       /\ \A i \in DOMAIN writer.sent :
            LET g == writer.first + i - 1
            IN g * writer.V < writer.height => writer.sent[i] = Wanted(writer, g)
       /\ writer.next_scanline = writer.height => writer.cur_iMCU_row = total_iMCU_rows(writer)
       /\ writer.next_scanline <= writer.height
  /\ reader # Idle =>
       \A j \in DOMAIN reader.out : reader.out[j] = OutputWanted(reader, reader.first + j - 1)
=============================================================================
