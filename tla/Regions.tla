------------------------------ MODULE Regions -------------------------------
(***************************************************************************)
(* The region algebra of libvncserver (rfbregion.c): a region is a list of *)
(* vertical spans, each with a list of horizontal spans.  The lists are    *)
(* sequences here, and the place where a loop stands splits one in two:    *)
(* what is done, and what begins with the current span.                    *)
(***************************************************************************)
EXTENDS Integers, Sequences, SequencesExt, FiniteSetsExt

CONSTANTS Width, Height,  \* of the screen
          Offsets,        \* by which a region is moved
          MaxRects        \* bound: rectangles of the other operand

VARIABLES
  this, \* the region that is worked on
  that  \* the other operand

regionVars == <<this, that>>

(***************************************************************************)
(* Lists of spans.                                                         *)
(***************************************************************************)
\* Horizontal spans hold nothing.
Span(start, end, sub) == [start |-> start, end |-> end, sub |-> sub]
Leaf == <<>>

From(span, start) == [span EXCEPT !.start = start]
Until(span, end) == [span EXCEPT !.end = end]

Adjoin(a, b) == a.end = b.start /\ a.sub = b.sub

\* The current span takes in those before it that touch it and hold the same.
RECURSIVE sraSpanMergePrevious(_)
sraSpanMergePrevious(l) ==
  IF l.done = <<>> \/ ~Adjoin(Last(l.done), Head(l.at)) THEN l
  ELSE sraSpanMergePrevious([done |-> Front(l.done), at |-> [l.at EXCEPT ![1] = From(@, Last(l.done).start)]])

RECURSIVE sraSpanMergeNext(_)
sraSpanMergeNext(l) ==
  IF Len(l.at) = 1 \/ ~Adjoin(l.at[1], l.at[2]) THEN l
  ELSE sraSpanMergeNext([l EXCEPT !.at = <<Until(@[1], @[2].end)>> \o Tail(Tail(@))])

Merged(l) == sraSpanMergeNext(sraSpanMergePrevious(l))

\* The current span is left behind, dropped, or gets new contents.
Past(l) == [done |-> Append(l.done, Head(l.at)), at |-> Tail(l.at)]
Drop(l) == [l EXCEPT !.at = Tail(@)]
Holds(l, sub) == [l EXCEPT !.at[1].sub = sub]
Before(l, span) == [l EXCEPT !.done = Append(@, span)]

\* The part of the current span that lies behind s, or before it, is split off.
SplitEnd(l, s) ==
  IF s.end >= l.at[1].end THEN l
  ELSE [l EXCEPT !.at = <<Until(@[1], s.end), From(@[1], s.end)>> \o Tail(@)]

\* (mutant: what lies before s is dropped)
SplitStart_Drops(l, s) ==
  IF s.start <= l.at[1].start THEN l ELSE [l EXCEPT !.at[1].start = s.start]

SplitStart(l, s) ==
  IF s.start <= l.at[1].start THEN l
  ELSE [Before(l, Until(l.at[1], s.start)) EXCEPT !.at[1].start = s.start]

\* sraSpanListOr, from where the loop stands.  src is what is left of the other list,
\* the first span of which may have been used in part.
RECURSIVE OrFrom(_, _, _)
Or(dest, src, depth) == IF depth = 0 THEN Leaf ELSE OrFrom([done |-> <<>>, at |-> dest], src, depth)
OrFrom(l, src, depth) ==
  LET s == Head(src)
      d == Head(l.at)
      added == Before(l, s)
      early == IF s.start >= d.start THEN l
               ELSE sraSpanMergePrevious(Before(l, Until(s, d.start)))
      cut == SplitStart(SplitEnd(early, s), s)
      both == Merged(Holds(cut, Or(cut.at[1].sub, s.sub, depth - 1)))
  IN CASE src = <<>> -> l.done \o l.at
       [] src # <<>> /\ l.at = <<>> -> OrFrom(added, Tail(src), depth)
       [] src # <<>> /\ l.at # <<>> /\ d.start >= s.end ->
            OrFrom(sraSpanMergePrevious(added), Tail(src), depth)
       [] src # <<>> /\ l.at # <<>> /\ d.start < s.end /\ s.start >= d.end ->
            OrFrom(Past(l), src, depth)
       [] OTHER ->
            IF s.end > both.at[1].end
            THEN OrFrom(Past(both), <<From(s, both.at[1].end)>> \o Tail(src), depth)
            ELSE OrFrom(both, Tail(src), depth)

\* The walk leaves a span behind that the other list's does not outlast.
Onward(l, s) == IF s.end >= l.at[1].end THEN Past(l) ELSE l

\* sraSpanListAnd.  That it returns whether something is left is the test for <<>>.
RECURSIVE AndFrom(_, _, _)
And(dest, src, depth) == IF depth = 0 THEN Leaf ELSE AndFrom([done |-> <<>>, at |-> dest], src, depth)
AndFrom(l, src, depth) ==
  IF src = <<>> \/ l.at = <<>> THEN l.done
  ELSE LET s == Head(src)
           d == Head(l.at)
           late == IF s.start > d.start THEN [l EXCEPT !.at[1].start = s.start] ELSE l
           cut == SplitEnd(late, s)
           sub == And(cut.at[1].sub, s.sub, depth - 1)
           both == sraSpanMergePrevious(Holds(cut, sub))
       IN CASE d.start >= s.end -> AndFrom(l, Tail(src), depth)
            [] d.start < s.end /\ d.end <= s.start -> AndFrom(Drop(l), src, depth)
            [] OTHER ->
                 IF depth > 1 /\ sub = <<>> THEN AndFrom(Drop(cut), src, depth)
                 ELSE AndFrom(Onward(both, s),
                              IF s.end <= both.at[1].end THEN Tail(src) ELSE src, depth)

\* sraSpanListSubtract.  A horizontal span goes as a whole.
RECURSIVE SubtractFrom(_, _, _)
Subtract(dest, src, depth) ==
  IF depth = 0 THEN <<>> ELSE SubtractFrom([done |-> <<>>, at |-> dest], src, depth)
SubtractFrom(l, src, depth) ==
  IF src = <<>> \/ l.at = <<>> THEN l.done \o l.at
  ELSE LET s == Head(src)
           d == Head(l.at)
           cut == SplitEnd(SplitStart(l, s), s)
           sub == Subtract(cut.at[1].sub, s.sub, depth - 1)
           rest == Merged(Holds(cut, sub))
       IN CASE d.start >= s.end -> SubtractFrom(l, Tail(src), depth)
            [] d.start < s.end /\ d.end <= s.start -> SubtractFrom(Past(l), src, depth)
            [] OTHER ->
                 IF sub = <<>> THEN SubtractFrom(Drop(cut), src, depth)
                 ELSE IF s.end > rest.at[1].end THEN SubtractFrom(Past(rest), src, depth)
                 ELSE SubtractFrom(rest, Tail(src), depth)

(***************************************************************************)
(* Regions.                                                                *)
(***************************************************************************)
Rect(x1, y1, x2, y2) == [x1 |-> x1, y1 |-> y1, x2 |-> x2, y2 |-> y2]

sraRgnCreateRect(r) == <<Span(r.y1, r.y2, <<Span(r.x1, r.x2, Leaf)>>)>>

sraRgnOr(dst, src) == Or(dst, src, 2)
sraRgnAnd(dst, src) == And(dst, src, 2)
sraRgnSubtract(dst, src) == Subtract(dst, src, 2)

sraRgnOffset(rgn, dx, dy) ==
  LET Moved(span, n, sub) == Span(span.start + n, span.end + n, sub)
  IN [i \in DOMAIN rgn |->
        Moved(rgn[i], dy, [j \in DOMAIN rgn[i].sub |-> Moved(rgn[i].sub[j], dx, Leaf)])]

\* The rectangles of one vertical span, and those of a region: the order in which the
\* iterators give them out.
Turned(list, reverse) == IF reverse THEN Reverse(list) ELSE list

Band(span, reverseX) ==
  [j \in DOMAIN span.sub |->
     LET h == Turned(span.sub, reverseX)[j] IN Rect(h.start, span.start, h.end, span.end)]

sraRgnGetReverseIterator(rgn, reverseX, reverseY) ==
  FlattenSeq([i \in DOMAIN rgn |-> Band(Turned(rgn, reverseY)[i], reverseX)])

sraRgnGetIterator(rgn) == sraRgnGetReverseIterator(rgn, FALSE, FALSE)

sraRgnBBox(rgn) ==
  IF rgn = <<>> THEN <<>>
  ELSE LET rects == sraRgnGetIterator(rgn)
           all == DOMAIN rects
       IN sraRgnCreateRect(Rect(Min({rects[i].x1 : i \in all}), Min({rects[i].y1 : i \in all}),
                                Max({rects[i].x2 : i \in all}), Max({rects[i].y2 : i \in all})))

\* sraRgnPopRect: the span at either end of the list at either end.
Without(list, last) == IF last THEN Front(list) ELSE Tail(list)
End(list, last) == IF last THEN Last(list) ELSE Head(list)

sraRgnPopRect(rgn, right2left, bottom2top) ==
  LET v == End(rgn, bottom2top)
      h == End(v.sub, right2left)
      left == Without(v.sub, right2left)
      rest == Without(rgn, bottom2top)
      kept == [v EXCEPT !.sub = left]
  IN [rect |-> Rect(h.start, v.start, h.end, v.end),
      rgn |-> IF left = <<>> THEN rest
              ELSE IF bottom2top THEN Append(rest, kept) ELSE <<kept>> \o rest]

(***************************************************************************)
(* The operations, on regions as their callers make them.                  *)
(***************************************************************************)
RegionInit == this = <<>> /\ that = <<>>

Becomes(rgn) == this' = rgn /\ UNCHANGED that

OrThat == Becomes(sraRgnOr(this, that))
AndThat == Becomes(sraRgnAnd(this, that))
SubtractThat == Becomes(sraRgnSubtract(this, that))
Enclose == Becomes(sraRgnBBox(this))

\* (The bound: nothing is moved out of the screen.)
Offset(d) ==
  LET moved == sraRgnOffset(this, d[1], d[2])
      box == sraRgnBBox(moved)
  IN /\ moved # <<>>
     /\ 0 <= box[1].start /\ box[1].end <= Height
     /\ 0 <= box[1].sub[1].start /\ box[1].sub[1].end <= Width
     /\ Becomes(moved)

PopRect(right2left, bottom2top) ==
  /\ this # <<>>
  /\ Becomes(sraRgnPopRect(this, right2left, bottom2top).rgn)

MarkRect(r) == that' = sraRgnCreateRect(r) /\ UNCHANGED this

Rectangles ==
  {r \in [x1 : 0 .. Width - 1, y1 : 0 .. Height - 1, x2 : 1 .. Width, y2 : 1 .. Height] :
     r.x1 < r.x2 /\ r.y1 < r.y2}

sraRgnCountRects(rgn) == Len(sraRgnGetIterator(rgn))

Exchange == sraRgnCountRects(this) <= MaxRects /\ this' = that /\ that' = this

RegionNext ==
  \/ OrThat \/ AndThat \/ SubtractThat \/ Enclose \/ Exchange
  \/ \E d \in Offsets : Offset(d)
  \/ \E r, b \in BOOLEAN : PopRect(r, b)
  \/ \E r \in Rectangles : MarkRect(r)

RegionSpec == RegionInit /\ [][RegionNext]_regionVars

-----------------------------------------------------------------------------
PixelsOf(r) == (r.x1 .. r.x2 - 1) \X (r.y1 .. r.y2 - 1)
Covered(rgn) == LET rects == sraRgnGetIterator(rgn) IN UNION {PixelsOf(rects[i]) : i \in DOMAIN rects}

\* Spans are in order, apart and never empty, on both levels: what all the walks along
\* two lists rely on.
Ordered(list, limit) ==
  /\ \A i \in DOMAIN list : 0 <= list[i].start /\ list[i].start < list[i].end /\ list[i].end <= limit
  /\ \A i \in 1 .. Len(list) - 1 : list[i].end <= list[i + 1].start

WellFormed ==
  \A rgn \in {this, that} :
    Ordered(rgn, Height) /\ \A i \in DOMAIN rgn : rgn[i].sub # <<>> /\ Ordered(rgn[i].sub, Width)

\* No pixel is in two rectangles.
Apart(rgn) ==
  LET rects == sraRgnGetIterator(rgn)
  IN \A i, j \in DOMAIN rects : i # j => PixelsOf(rects[i]) \cap PixelsOf(rects[j]) = {}

Move(set, d) == {<<p[1] + d[1], p[2] + d[2]>> : p \in set}

IsBox(box, set) ==
  box = (Min({p[1] : p \in set}) .. Max({p[1] : p \in set}))
          \X (Min({p[2] : p \in set}) .. Max({p[2] : p \in set}))

\* Whatever way the lists were put together, they are sets of pixels, in rectangles apart,
\* and every operation does to the sets what it promises.
AreSets ==
  LET a == Covered(this)  b == Covered(that)
  IN /\ WellFormed /\ Apart(this)
     /\ Covered(sraRgnOr(this, that)) = a \cup b
     /\ Covered(sraRgnAnd(this, that)) = a \cap b
     /\ Covered(sraRgnSubtract(this, that)) = a \ b
     /\ \A d \in Offsets : Covered(sraRgnOffset(this, d[1], d[2])) = Move(a, d)
     /\ a # {} =>
          /\ IsBox(Covered(sraRgnBBox(this)), a)
          /\ \A r, u \in BOOLEAN :
               LET pop == sraRgnPopRect(this, r, u)
               IN /\ Covered(pop.rgn) = a \ PixelsOf(pop.rect)
                  /\ PixelsOf(pop.rect) \subseteq a

\* rfbSendCopyRegion goes through a region against the direction of the move, so that no
\* rectangle is copied over the source of a later one.
\* (mutant: with the move, as rfbDoCopyRegion goes)
CopyOrder_Along(rgn, d) == sraRgnGetReverseIterator(rgn, d[1] < 0, d[2] < 0)

CopyOrder(rgn, d) == sraRgnGetReverseIterator(rgn, d[1] > 0, d[2] > 0)

CopiesInOrder ==
  \A d \in Offsets :
    LET rects == CopyOrder(this, d)
    IN \A i, j \in DOMAIN rects :
         i < j => PixelsOf(rects[i]) \cap Move(PixelsOf(rects[j]), <<-d[1], -d[2]>>) = {}

\* The lists are what the updates take them for, sets, and copies go out in an order that
\* keeps their sources.
RegionsHold == AreSets /\ CopiesInOrder
=============================================================================
