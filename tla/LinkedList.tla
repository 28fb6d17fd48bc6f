----------------------------- MODULE LinkedList -----------------------------
(***************************************************************************)
(* The lists of include/mutexgear/_llisttmpl.h: circular, doubly linked,   *)
(* with an end item in the list object.  The pointers of all items are one *)
(* function h from <<field, item>> to items, and an operation is the       *)
(* sequence of its stores <<field, item, value>>, so that a module can let *)
(* other threads read between them.                                        *)
(***************************************************************************)
EXTENDS SequencesExt

Write(h, s) == [h EXCEPT ![<<s[1], s[2]>>] = s[3]]

\* An unlinked item, and the end item of an empty list, is its own previous item.
IsLinked(h, i) == h[<<"prev", i>>] # i

\* multilinkat, and linkat when first = last: the items from first to last, which
\* are chained already, go before an item of the list.
LinkAt(h, first, last, before) ==
  LET after == h[<<"prev", before>>] IN
  << <<"next", last, before>>, <<"prev", first, after>>,
     <<"prev", before, last>>, <<"next", after, first>> >>

\* Mutant: the item is not reset.
UnlinkKept(h, i) ==
  LET following == h[<<"next", i>>]
      preceding == h[<<"prev", i>>] IN
  << <<"prev", following, preceding>>, <<"next", preceding, following>> >>

Unlink(h, i) ==
  LET following == h[<<"next", i>>]
      preceding == h[<<"prev", i>>] IN
  << <<"prev", following, preceding>>, <<"next", preceding, following>>, <<"prev", i, i>> >>

\* The items from begin up to but without end, of this list or another, go before
\* an item of the list.
SpliceAt(h, before, begin, end) ==
  IF begin = end \/ before = end THEN << >>
  ELSE LET last == h[<<"prev", end>>]
           onebefore == h[<<"prev", begin>>]
           cutNext == <<"next", onebefore, end>>
           cutPrev == <<"prev", end, onebefore>>
           after == Write(Write(h, cutNext), cutPrev)[<<"prev", before>>] IN
       << cutNext, cutPrev, <<"next", last, before>>, <<"prev", begin, after>>,
          <<"prev", before, last>>, <<"next", after, begin>> >>

\* The items from begin to last as the previous pointers tell, of at most n.
Span(h, begin, last, n) ==
  LET back[k \in 0 .. n] ==
        IF k = 0 THEN << last >>
        ELSE LET s == back[k - 1] IN
             IF Head(s) = begin THEN s ELSE << h[<<"prev", Head(s)>>] >> \o s
  IN back[n]

\* The items of the list with end item l, backward and forward.
Backward(h, l, n) ==
  LET last == h[<<"prev", l>>] IN
  IF last = l THEN << >> ELSE Tail(Span(h, l, last, n))

Forward(h, l, n) ==
  LET forth[k \in 0 .. n] ==
        IF k = 0 THEN << h[<<"next", l>>] >>
        ELSE LET s == forth[k - 1] IN
             IF Last(s) = l THEN s ELSE Append(s, h[<<"next", Last(s)>>])
  IN Front(forth[n])
=============================================================================
