---------------------------- MODULE CacheNumbers ----------------------------
(***************************************************************************)
(* The arithmetic of the piece cache: ranges of pieces (ranges.go), the    *)
(* priority of a piece and the number of pieces one reader may ask for     *)
(* (cache_priority.go), and the capacity the storage reports to the        *)
(* library's request strategy (cache_state.go, capacity_diagnostics.go).   *)
(***************************************************************************)
EXTENDS Integers, FiniteSets, Sequences, SequencesExt

CONSTANTS
  HighTailPieces,        \* priorityHighTailPieces
  RangeLists,            \* ranges mergeRange is asked for
  CapacityInputs,        \* caches the diagnostics are asked for
  BudgetInputs,          \* limits and readers the budget is asked for
  LastRangePiece         \* largest piece of the ranges

ASSUME NumbersAssumption == HighTailPieces \in Nat /\ LastRangePiece \in Nat

VARIABLE sample          \* the inputs being looked at

NoSample == [of |-> "nothing"]

PriorityNone == 0
PriorityNormal == 1
PriorityHigh == 2
PriorityReadahead == 3
PriorityNext == 4
PriorityNow == 5

InRange(r, ind) == r.start <= ind /\ ind <= r.end

inRanges(ranges, ind) == \E i \in DOMAIN ranges : InRange(ranges[i], ind)

RangeLess(a, b) == a.start < b.start \/ (a.start = b.start /\ a.end < b.end)

\* Mutant: a range inside the one before it shortens it.
extendLast_shorten(merged, r) ==
  LET j == Len(merged) IN
  IF merged[j].end >= r.start THEN [merged EXCEPT ![j].end = r.end]
                              ELSE Append(merged, r)

\* One round of the loop of mergeRange.
extendLast(merged, r) ==
  LET j == Len(merged) IN
  IF merged[j].end >= r.start
    THEN IF merged[j].end < r.end THEN [merged EXCEPT ![j].end = r.end] ELSE merged
    ELSE Append(merged, r)

mergeRange(ranges) ==
  IF Len(ranges) <= 1 THEN ranges
  ELSE LET sorted == SortSeq(ranges, RangeLess)
       IN  FoldLeft(extendLast, <<Head(sorted)>>, Tail(sorted))

atLeastOne(n) == IF n <= 0 THEN 1 ELSE n

priorityPieceBudget(connections, readers) ==
  LET limit == atLeastOne(connections)
      share == atLeastOne(limit \div atLeastOne(readers))
      budget == IF atLeastOne(readers) <= 2 THEN share * 2 ELSE share
      upperBound == IF limit > 80 THEN limit ELSE 80
  IN  IF budget > upperBound THEN upperBound ELSE budget

\* at is a reader: its piece, the last piece of its readahead and its window.
desiredPiecePriority(p, at) ==
  CASE p = at.pos -> PriorityNow
    [] p > at.pos /\ p <= at.pos + 1 -> PriorityNext
    [] p > at.pos + 1 /\ p <= at.rah -> PriorityReadahead
    [] p > at.pos + 1 /\ p > at.rah /\ p <= at.rah + HighTailPieces -> PriorityHigh
    [] OTHER -> PriorityNormal

boundedRequestablePieceEstimate(capacity, pieceLength, pieceCount) ==
  IF capacity <= 0 \/ pieceLength <= 0 \/ pieceCount <= 0 THEN 0
  ELSE Min({capacity \div pieceLength, pieceCount})

\* requestStrategyCapacity: a closed cache and a negative capacity are capped at zero.
requestStrategyCapacity(c) == IF c.closed \/ c.capacity < 0 THEN 0 ELSE c.capacity

capacityFault(c) ==
  CASE ~c.contract -> "missing"
    [] c.contract /\ (requestStrategyCapacity(c) <= 0 \/ c.pieceLength <= 0
                                                     \/ c.pieceCount <= 0) -> "invalid"
    [] OTHER -> "none"

\* summarizeRequestStrategyCapacityItems over the caches that are not closed.
capacityStatus(caches) ==
  LET active == {c \in caches : ~c.closed}
      faults == {capacityFault(c) : c \in active}
  IN  CASE "missing" \in faults -> "fault_missing_capacity"
        [] "missing" \notin faults /\ "invalid" \in faults -> "fault_invalid_capacity"
        [] faults = {"none"} -> "ok"
        [] OTHER -> "inactive"

-----------------------------------------------------------------------------
NumbersInit == sample = NoSample

DrawSample ==
  /\ sample = NoSample
  /\ \/ \E l \in RangeLists : sample' = [of |-> "ranges", ranges |-> l]
     \/ \E b \in BudgetInputs : sample' = [of |-> "budget", budget |-> b]
     \/ \E c, d \in CapacityInputs : sample' = [of |-> "capacity", caches |-> {c, d}]

\* Merged ranges cover the same pieces, are in order and do not meet (ranges.go:23).
MergeExact(ranges) ==
  LET merged == mergeRange(ranges)
  IN  /\ \A p \in 0..LastRangePiece : inRanges(merged, p) <=> inRanges(ranges, p)
      /\ \A i \in 1..(Len(merged) - 1) : merged[i].end < merged[i + 1].start

\* The status says ok only when every open cache bounds its requests to what it holds.
StatusTrue(caches) ==
  capacityStatus(caches) = "ok" =>
    \A c \in caches : c.closed \/
      LET n == boundedRequestablePieceEstimate(requestStrategyCapacity(c), c.pieceLength,
                                               c.pieceCount)
      IN  c.contract /\ n \in 0..c.pieceCount /\ n * c.pieceLength <= c.capacity

\* Merging keeps the pieces of the ranges and leaves no two that meet, the budget is
\* positive and bounded whatever the limits, and the capacity status is true
\* (ranges.go:23, cache_priority.go:237, capacity_diagnostics.go:133).
CacheNumbersFit ==
  CASE sample.of = "ranges"   -> MergeExact(sample.ranges)
    [] sample.of = "budget"   -> priorityPieceBudget(sample.budget.limit,
                                                     sample.budget.readers)
                                   \in 1..Max({80, sample.budget.limit})
    [] sample.of = "capacity" -> StatusTrue(sample.caches)
    [] OTHER -> TRUE
=============================================================================
