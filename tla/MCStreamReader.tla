--------------------------- MODULE MCStreamReader ---------------------------
(***************************************************************************)
(* A small instance of StreamReader for TLC.                               *)
(***************************************************************************)
EXTENDS StreamReader, TLC

NoFirst == -1

R(a, b) == [first |-> a, last |-> b]

\* The whole file, the rest from block 1, the last two blocks, two parts, and a
\* range beyond the end.
RangeHeaders ==
  {<<>>, <<R(1, 5)>>, <<R(NoFirst, 2)>>, <<R(2, 2), R(0, 1)>>, <<R(3, 3)>>}

\* What net/http makes of a header: unsatisfiable ranges are dropped, suffixes
\* and ends are cut to the file.
Parts(h) ==
  LET Satisfiable(spec) == spec.first = NoFirst \/ spec.first < FileSize
      part(spec) ==
        IF spec.first = NoFirst
          THEN [first |-> IF spec.last > FileSize THEN 0 ELSE FileSize - spec.last,
                end   |-> FileSize]
          ELSE [first |-> spec.first,
                end   |-> IF spec.last >= FileSize THEN FileSize ELSE spec.last + 1]
      kept == SelectSeq(h, Satisfiable)
  IN  IF h = <<>> THEN <<[first |-> 0, end |-> FileSize]>>
                  ELSE [i \in 1 .. Len(kept) |-> part(kept[i])]

PartsOfHeaders == [h \in RangeHeaders |-> Parts(h)]

\* Every request, for playback and not.
AllShapes == [r \in Requests |-> RangeHeaders \X BOOLEAN]
=============================================================================
