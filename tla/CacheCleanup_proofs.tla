------------------------ MODULE CacheCleanup_proofs ------------------------
(***************************************************************************)
(* Proofs about CacheCleanup, for any number of writers, pieces, chunks    *)
(* per piece and capacities, and any movement of the readers.              *)
(***************************************************************************)
EXTENDS CacheCleanup, FiniteSetTheorems, TLAPS

CleanLabels == {"clean", "lock", "wait", "woken", "pass", "collect", "evict", "remove",
                "finish"}
PassLabels == {"pass", "collect", "evict", "remove", "finish"}
CloseLabels == {"release", "unregister", "forget", "closed"}

\* Which goroutine may be where, and what it has at hand there.
Placed ==
  /\ pc[Closer] \in {"idle"} \cup CloseLabels
  /\ pc[Closer] # "idle" => isClosed
  /\ pc[Cleaner] \in {"idle"} \cup CleanLabels
  /\ queued <=> pc[Cleaner] # "idle"
  /\ \A w \in Writers : /\ pc[w] \in {"idle", "write"} \cup CleanLabels
                        /\ pc[w] # "idle" => at[w] \in Pieces
  /\ \A t \in Threads : pc[t] = "remove" => pass[t].target \in Pieces

\* PassesSerial without counting.
Serial ==
  /\ \A t, u \in Threads : pc[t] \in PassLabels /\ pc[u] \in PassLabels => t = u
  /\ running <=> \E t \in Threads : pc[t] \in PassLabels
  /\ \A t \in Threads : pc[t] = "wait" => running

\* What a pass may still evict keeps the cache at the capacity it started from.
Enough ==
  \A t \in Threads :
    /\ pc[t] \in {"collect", "evict"} /\ ~isClosed =>
         filled >= pass[t].limit + (pass[t].rems - 1) * PieceLength
    /\ pc[t] = "remove" /\ ~isClosed =>
         filled >= pass[t].limit + pass[t].rems * PieceLength

Inv == TypeOK /\ Placed /\ Serial /\ AccountsExact /\ Enough

-----------------------------------------------------------------------------
(* Counting chunks. *)

\* What pieces hold is a finite set of chunks.
LEMMA HeldFinite ==
  ASSUME NEW s
  PROVE  IsFiniteSet(Held(s)) /\ Cardinality(Held(s)) \in Nat
<1>1. IsFiniteSet(1 .. PieceLength)
  BY FS_Interval, CacheAssumption
<1>2. IsFiniteSet(Pieces \X (1 .. PieceLength))
  BY <1>1, FS_Product, CacheAssumption
<1>3. IsFiniteSet(Held(s))
  BY <1>2, FS_Subset DEF Held
<1> QED
  BY <1>3, FS_CardinalityType

\* A piece of n chunks is a column of n chunks.
LEMMA ColumnCount ==
  ASSUME NEW p, NEW n \in 0 .. PieceLength
  PROVE  IsFiniteSet({p} \X (1 .. n)) /\ Cardinality({p} \X (1 .. n)) = n
<1>1. IsFiniteSet(1 .. n) /\ Cardinality(1 .. n) = n
  <2>1. n \in Int /\ n >= 0
    BY CacheAssumption
  <2> QED
    BY <2>1, FS_Interval
<1>2. IsFiniteSet({p}) /\ Cardinality({p}) = 1
  BY FS_Singleton
<1>3. n \in Nat
  BY CacheAssumption
<1> QED
  BY <1>1, <1>2, <1>3, FS_Product

\* When a piece changes its size, what the pieces hold together changes by as
\* much (MemPiece.WriteAt, DiskPiece.WriteAt, Release).
LEMMA SizeChange ==
  ASSUME NEW s \in [Pieces -> 0 .. PieceLength], NEW p \in Pieces,
         NEW n \in 0 .. PieceLength
  PROVE  Cardinality(Held([s EXCEPT ![p] = n])) = Cardinality(Held(s)) - s[p] + n
<1> DEFINE rest == {c \in Held(s) : c[1] # p}
           column(m) == {p} \X (1 .. m)
           t == [s EXCEPT ![p] = n]
<1>1. ASSUME NEW f \in [Pieces -> 0 .. PieceLength],
             \A q \in Pieces : q # p => f[q] = s[q]
      PROVE  Cardinality(Held(f)) = Cardinality(rest) + f[p]
  <2>1. Held(f) = rest \cup column(f[p])
    <3>1. ASSUME NEW c \in Held(f) PROVE c \in rest \cup column(f[p])
      BY <1>1, <3>1 DEF Held
    <3>2. ASSUME NEW c \in rest PROVE c \in Held(f)
      BY <1>1, <3>2 DEF Held
    <3>3. ASSUME NEW c \in column(f[p]) PROVE c \in Held(f)
      <4>1. f[p] \in 0 .. PieceLength /\ PieceLength \in Nat
        BY <1>1, CacheAssumption
      <4> QED
        BY <3>3, <4>1 DEF Held
    <3> QED
      BY <3>1, <3>2, <3>3
  <2>2. rest \cap column(f[p]) = {}
    OBVIOUS
  <2>3. IsFiniteSet(rest)
    BY HeldFinite, FS_Subset
  <2>4. IsFiniteSet(column(f[p])) /\ Cardinality(column(f[p])) = f[p]
    BY <1>1, ColumnCount
  <2>5. Cardinality(rest) \in Nat /\ f[p] \in Nat
    BY <1>1, <2>3, FS_CardinalityType, CacheAssumption
  <2>6. Cardinality(Held(f)) = Cardinality(rest) + Cardinality(column(f[p])) - Cardinality({})
    BY <2>1, <2>2, <2>3, <2>4, FS_Union
  <2> QED
    BY <2>4, <2>5, <2>6, FS_EmptySet
<1>2. Cardinality(Held(s)) = Cardinality(rest) + s[p]
  BY <1>1
<1>3. Cardinality(Held(t)) = Cardinality(rest) + n
  <2>1. t \in [Pieces -> 0 .. PieceLength] /\ t[p] = n /\ \A q \in Pieces : q # p => t[q] = s[q]
    OBVIOUS
  <2> QED
    BY <1>1, <2>1
<1>4. Cardinality(rest) \in Nat
  BY HeldFinite, FS_Subset, FS_CardinalityType
<1>5. s[p] \in Int /\ n \in Int
  BY CacheAssumption
<1> QED
  BY <1>2, <1>3, <1>4, <1>5

\* No piece holds more than all of them.
LEMMA SizeBound ==
  ASSUME NEW s \in [Pieces -> 0 .. PieceLength], NEW p \in Pieces
  PROVE  s[p] \in Nat /\ s[p] <= Cardinality(Held(s))
<1>1. Cardinality(Held([s EXCEPT ![p] = 0])) = Cardinality(Held(s)) - s[p] + 0
  <2>1. 0 \in 0 .. PieceLength
    BY CacheAssumption
  <2> QED
    BY <2>1, SizeChange
<1>2. Cardinality(Held([s EXCEPT ![p] = 0])) \in Nat /\ Cardinality(Held(s)) \in Nat
  BY HeldFinite
<1>3. s[p] \in Nat
  BY CacheAssumption
<1> QED
  BY <1>1, <1>2, <1>3
-----------------------------------------------------------------------------
(* One step. *)

\* No step leaves a flag of the cache without a truth value.
LEMMA FlagsStep ==
  ASSUME FlagsOK, Next
  PROVE  FlagsOK'
<1> USE DEF FlagsOK, flags
<1>1. ASSUME NEW w, NEW n, MemWriteAt(w, n) PROVE FlagsOK'
  BY <1>1, Zenon DEF MemWriteAt
<1>2. ASSUME NEW p, ReadAt(p) PROVE FlagsOK'
  BY <1>2, Zenon DEF ReadAt, queueCleanPieces
<1>3. CASE ReaderClose
  BY <1>3, Zenon DEF ReaderClose, queueCleanPieces
<1>4. ASSUME NEW t, CleanPieces(t) PROVE FlagsOK'
  BY <1>4, Zenon DEF CleanPieces, return, callEnds
<1>5. ASSUME NEW t, lockCleanup(t) PROVE FlagsOK'
  BY <1>5, Zenon DEF lockCleanup, return, callEnds
<1>6. ASSUME NEW t, wakeUp(t) PROVE FlagsOK'
  BY <1>6, Zenon DEF wakeUp, return, callEnds
<1>7. ASSUME NEW t, finishPass(t) PROVE FlagsOK'
  BY <1>7, Zenon DEF finishPass, callEnds
<1>8. CASE CloseMark
  BY <1>8, Zenon DEF CloseMark
<1>9. CASE CloseForget
  BY <1>9, Zenon DEF CloseForget
<1>10. ASSUME NEW cap, SetCapacity(cap) PROVE FlagsOK'
  BY <1>10, Zenon DEF SetCapacity, queueCleanPieces
<1>11. ASSUME UNCHANGED <<isClosed, hasPieces, running, pending, queued>> PROVE FlagsOK'
  BY <1>11
<1> QED
  BY <1>1, <1>2, <1>3, <1>4, <1>5, <1>6, <1>7, <1>8, <1>9, <1>10, <1>11
  DEF Next, CleanStep, Close, Piece, DiskWriteAt, Read, ReadReturns, ReadCancelled, passStart, passCollect, passPick, passRemove, passEnd, CloseRelease, CloseUnregister, MoveWindow, AdjustRA, readEnds

\* Writing and releasing keep the numbers of a piece and of the cache in range.
LEMMA StoreTypes ==
  ASSUME TypeOK, NEW p \in Pieces
  PROVE  /\ \A n \in 0 .. PieceLength : grow(p, n) =>
              /\ size' \in [Pieces -> 0 .. PieceLength] /\ filled' \in Nat
              /\ resident' \subseteq Pieces
         /\ releasePiece(p) => /\ size' \in [Pieces -> 0 .. PieceLength] /\ filled' \in Nat
                              /\ resident' \subseteq Pieces
<1>1. ASSUME NEW n \in 0 .. PieceLength, grow(p, n)
      PROVE  /\ size' \in [Pieces -> 0 .. PieceLength] /\ filled' \in Nat
             /\ resident' \subseteq Pieces
  <2> DEFINE new == IF size[p] + n > PieceLength THEN PieceLength ELSE size[p] + n
  <2>1. size[p] \in 0 .. PieceLength /\ PieceLength \in Nat
    BY CacheAssumption DEF TypeOK
  <2>2. new \in 0 .. PieceLength /\ new - size[p] \in Nat
    BY <2>1
  <2>3. size' \in [Pieces -> 0 .. PieceLength]
    BY <1>1, <2>2 DEF grow, TypeOK
  <2>4. filled' \in Nat
    BY <1>1, <2>2 DEF grow, addFilled, TypeOK
  <2> QED
    BY <1>1, <2>3, <2>4 DEF grow, TypeOK
<1>2. ASSUME releasePiece(p)
      PROVE  /\ size' \in [Pieces -> 0 .. PieceLength] /\ filled' \in Nat
             /\ resident' \subseteq Pieces
  BY <1>2, CacheAssumption DEF releasePiece, addFilled, TypeOK
<1> QED
  BY <1>1, <1>2

\* No step leaves the types.
LEMMA TypeStep ==
  ASSUME TypeOK, Placed, Next
  PROVE  TypeOK'
<1> USE CacheAssumption DEF TypeOK, Placed, Threads, PC, store, env, flags, Goto
<1> FlagsOK'
  BY FlagsStep
<1>1. ASSUME NEW w \in Writers, NEW p \in Pieces, Piece(w, p) PROVE TypeOK'
  BY <1>1 DEF Piece
<1>2. ASSUME NEW w \in Writers, NEW n \in 0 .. PieceLength, MemWriteAt(w, n) PROVE TypeOK'
  BY <1>2, StoreTypes DEF MemWriteAt
<1>3. ASSUME NEW w \in Writers, NEW n \in 0 .. PieceLength, DiskWriteAt(w, n) PROVE TypeOK'
  <2>1. at[w] \in Pieces /\ n \in 0 .. PieceLength
    BY <1>3 DEF DiskWriteAt
  <2>2. grow(at[w], n)
    BY <1>3, Zenon DEF DiskWriteAt
  <2>3. /\ size' \in [Pieces -> 0 .. PieceLength] /\ filled' \in Nat
        /\ resident' \subseteq Pieces
    BY <2>1, <2>2, StoreTypes
  <2>4. UNCHANGED <<useDisk, capacity, protected, awaits, pass>>
    BY <1>3, Zenon DEF DiskWriteAt
  <2>5. /\ pieceMu' \in [Pieces -> Threads \cup {NoThread}]
        /\ pc' \in [Threads -> PC] /\ at' \in [Threads -> Pieces \cup {NoPiece}]
    BY <1>3, <2>1 DEF DiskWriteAt
  <2> QED
    BY <2>3, <2>4, <2>5
<1>4. ASSUME NEW p \in Pieces, ReadAt(p) PROVE TypeOK'
  BY <1>4 DEF ReadAt, queueCleanPieces
<1>5. ASSUME NEW p \in Pieces, Read(p) PROVE TypeOK'
  BY <1>5 DEF Read
<1>6. CASE ReadReturns
  BY <1>6 DEF ReadReturns, readEnds
<1>7. CASE ReadCancelled
  BY <1>7 DEF ReadCancelled, readEnds
<1>8. CASE ReaderClose
  BY <1>8 DEF ReaderClose, newWindow, queueCleanPieces
<1>9. ASSUME NEW t \in Threads, CleanPieces(t) PROVE TypeOK'
  BY <1>9 DEF CleanPieces, return, callEnds
<1>10. ASSUME NEW t \in Threads, lockCleanup(t) PROVE TypeOK'
  BY <1>10 DEF lockCleanup, return, callEnds
<1>11. ASSUME NEW t \in Threads, wakeUp(t) PROVE TypeOK'
  BY <1>11 DEF wakeUp, return, callEnds
<1>12. ASSUME NEW t \in Threads, passStart(t) PROVE TypeOK'
  <2>1. capacity \in Nat
    OBVIOUS
  <2>2. filled > capacity => (filled - capacity) \div PieceLength + 1 \in Nat
    BY <2>1
  <2> DEFINE new == [NoPass EXCEPT !.rems = (filled - capacity) \div PieceLength + 1,
                                   !.before = filled, !.limit = capacity]
  <2>3. NoPass \in Passes /\ (filled > capacity => new \in Passes)
    BY <2>1, <2>2 DEF NoPass, Passes
  <2>4. CASE filled <= capacity
    BY <1>12, <2>3, <2>4 DEF passStart
  <2>5. CASE ~(filled <= capacity)
    <3>1. new \in Passes
      BY <2>1, <2>3, <2>5
    <3> HIDE DEF new
    <3>2. pass' = [pass EXCEPT ![t] = new]
      BY <1>12, <2>5, Zenon DEF passStart, new
    <3> QED
      BY <1>12, <2>5, <3>1, <3>2 DEF passStart
  <2> QED
    BY <2>4, <2>5
<1>13. ASSUME NEW t \in Threads, passCollect(t) PROVE TypeOK'
  BY <1>13 DEF passCollect, removable, Passes
<1>14. ASSUME NEW t \in Threads, passPick(t) PROVE TypeOK'
  BY <1>14 DEF passPick, Passes
<1>15. ASSUME NEW t \in Threads, passRemove(t) PROVE TypeOK'
  BY <1>15, StoreTypes DEF passRemove, Passes
<1>16. ASSUME NEW t \in Threads, passEnd(t) PROVE TypeOK'
  <2>1. (pass[t].before > filled) \in BOOLEAN
    OBVIOUS
  <2>2. [NoPass EXCEPT !.progress = pass[t].before > filled] \in Passes
    BY <2>1 DEF Passes, NoPass
  <2> QED
    BY <1>16, <2>2 DEF passEnd
<1>17. ASSUME NEW t \in Threads, finishPass(t) PROVE TypeOK'
  <2>1. NoPass \in Passes
    BY DEF Passes, NoPass
  <2>2. pc' \in [Threads -> PC]
    <3> DEFINE woken == [u \in Threads |-> IF pc[u] = "wait" THEN "woken" ELSE pc[u]]
    <3>1. woken \in [Threads -> PC]
      OBVIOUS
    <3>2. pc' = [pc EXCEPT ![t] = "pass"] \/ pc' = [woken EXCEPT ![t] = "idle"]
      BY <1>17, Zenon DEF finishPass
    <3> HIDE DEF woken
    <3> QED
      BY <3>1, <3>2
  <2> QED
    BY <1>17, <2>1, <2>2 DEF finishPass, callEnds
<1>18. CASE CloseMark
  BY <1>18 DEF CloseMark, Passes
<1>19. CASE CloseRelease
  BY <1>19, StoreTypes DEF CloseRelease, Passes
<1>20. CASE CloseUnregister
  BY <1>20 DEF CloseUnregister
<1>21. CASE CloseForget
  BY <1>21 DEF CloseForget
<1>22. CASE MoveWindow
  BY <1>22 DEF MoveWindow, newWindow
<1>23. ASSUME NEW cap \in Capacities, SetCapacity(cap) PROVE TypeOK'
  BY <1>23 DEF SetCapacity, queueCleanPieces
<1>24. ASSUME NEW cap \in Capacities, AdjustRA(cap) PROVE TypeOK'
  BY <1>24 DEF AdjustRA
<1> QED
  BY <1>1, <1>2, <1>3, <1>4, <1>5, <1>6, <1>7, <1>8, <1>9, <1>10, <1>11, <1>12, <1>13, <1>14, <1>15, <1>16, <1>17, <1>18, <1>19, <1>20, <1>21, <1>22, <1>23, <1>24
  DEF Next, CleanStep, Close

\* Goroutines stay where they may be.
LEMMA PlacedStep ==
  ASSUME TypeOK, Placed, Next
  PROVE  Placed'
<1> USE CacheAssumption DEF TypeOK, Placed, Threads, PC, store, env, flags, Goto, CleanLabels, CloseLabels
<1>1. ASSUME NEW w \in Writers, NEW p \in Pieces, Piece(w, p) PROVE Placed'
  BY <1>1 DEF Piece
<1>2. ASSUME NEW w \in Writers, NEW n \in 0 .. PieceLength, MemWriteAt(w, n) PROVE Placed'
  BY <1>2 DEF MemWriteAt, grow, addFilled
<1>3. ASSUME NEW w \in Writers, NEW n \in 0 .. PieceLength, DiskWriteAt(w, n) PROVE Placed'
  <2>1. at[w] \in Pieces /\ UNCHANGED <<isClosed, queued, pass>>
    BY <1>3 DEF DiskWriteAt
  <2>2. \/ pc' = [pc EXCEPT ![w] = "clean"] /\ UNCHANGED at
        \/ pc' = [pc EXCEPT ![w] = "idle"] /\ at' = [at EXCEPT ![w] = NoPiece]
    BY <1>3, Zenon DEF DiskWriteAt
  <2>3. CASE pc' = [pc EXCEPT ![w] = "clean"] /\ UNCHANGED at
    BY <2>1, <2>3
  <2>4. CASE pc' = [pc EXCEPT ![w] = "idle"] /\ at' = [at EXCEPT ![w] = NoPiece]
    BY <2>1, <2>4
  <2> QED BY <2>2, <2>3, <2>4
<1>4. ASSUME NEW p \in Pieces, ReadAt(p) PROVE Placed'
  BY <1>4 DEF ReadAt, queueCleanPieces
<1>5. ASSUME NEW p \in Pieces, Read(p) PROVE Placed'
  BY <1>5 DEF Read
<1>6. CASE ReadReturns
  BY <1>6 DEF ReadReturns, readEnds
<1>7. CASE ReadCancelled
  BY <1>7 DEF ReadCancelled, readEnds
<1>8. CASE ReaderClose
  BY <1>8 DEF ReaderClose, newWindow, queueCleanPieces
<1>9. ASSUME NEW t \in Threads, CleanPieces(t) PROVE Placed'
  BY <1>9 DEF CleanPieces, return, callEnds
<1>10. ASSUME NEW t \in Threads, lockCleanup(t) PROVE Placed'
  BY <1>10 DEF lockCleanup, return, callEnds
<1>11. ASSUME NEW t \in Threads, wakeUp(t) PROVE Placed'
  BY <1>11 DEF wakeUp, return, callEnds
<1>12. ASSUME NEW t \in Threads, passStart(t) PROVE Placed'
  BY <1>12 DEF passStart, NoPass
<1>13. ASSUME NEW t \in Threads, passCollect(t) PROVE Placed'
  BY <1>13 DEF passCollect, removable
<1>14. ASSUME NEW t \in Threads, passPick(t) PROVE Placed'
  BY <1>14 DEF passPick, Passes
<1>15. ASSUME NEW t \in Threads, passRemove(t) PROVE Placed'
  BY <1>15 DEF passRemove, releasePiece, addFilled
<1>16. ASSUME NEW t \in Threads, passEnd(t) PROVE Placed'
  BY <1>16 DEF passEnd, NoPass
<1>17. ASSUME NEW t \in Threads, finishPass(t) PROVE Placed'
  <2>1. CASE pc' = [pc EXCEPT ![t] = "pass"] /\ UNCHANGED <<queued, at>>
    BY <1>17, <2>1 DEF finishPass
  <2>2. CASE /\ pc' = [[u \in Threads |-> IF pc[u] = "wait" THEN "woken" ELSE pc[u]]
                         EXCEPT ![t] = "idle"]
             /\ callEnds(t)
    BY <1>17, <2>2 DEF finishPass, callEnds
  <2> QED
    BY <1>17, <2>1, <2>2, Zenon DEF finishPass
<1>18. CASE CloseMark
  BY <1>18 DEF CloseMark
<1>19. CASE CloseRelease
  BY <1>19 DEF CloseRelease, releasePiece, addFilled
<1>20. CASE CloseUnregister
  BY <1>20 DEF CloseUnregister
<1>21. CASE CloseForget
  BY <1>21 DEF CloseForget
<1>22. CASE MoveWindow
  BY <1>22 DEF MoveWindow, newWindow
<1>23. ASSUME NEW cap \in Capacities, SetCapacity(cap) PROVE Placed'
  BY <1>23 DEF SetCapacity, queueCleanPieces
<1>24. ASSUME NEW cap \in Capacities, AdjustRA(cap) PROVE Placed'
  BY <1>24 DEF AdjustRA
<1> QED
  BY <1>1, <1>2, <1>3, <1>4, <1>5, <1>6, <1>7, <1>8, <1>9, <1>10, <1>11, <1>12, <1>13, <1>14, <1>15, <1>16, <1>17, <1>18, <1>19, <1>20, <1>21, <1>22, <1>23, <1>24
  DEF Next, CleanStep, Close

\* The end of a pass: another one, or everybody who waits is woken.
LEMMA FinishPlaces ==
  ASSUME TypeOK, NEW t \in Threads, finishPass(t)
  PROVE  \/ UNCHANGED running /\ pc' = [pc EXCEPT ![t] = "pass"]
         \/ /\ running' = FALSE
            /\ \A u \in Threads : pc'[u] = IF u = t THEN "idle"
                                          ELSE IF pc[u] = "wait" THEN "woken" ELSE pc[u]
<1>1. \/ UNCHANGED running /\ pc' = [pc EXCEPT ![t] = "pass"]
      \/ /\ running' = FALSE
         /\ pc' = [[u \in Threads |-> IF pc[u] = "wait" THEN "woken" ELSE pc[u]]
                      EXCEPT ![t] = "idle"]
  BY Zenon DEF finishPass, Goto
<1> QED
  BY <1>1

\* One pass at a time: lockCleanup tests the flag, finishPass clears it and wakes
\* everybody, no other way in or out exists.
LEMMA SerialStep ==
  ASSUME TypeOK, Placed, Serial, Next
  PROVE  Serial'
<1> USE CacheAssumption DEF TypeOK, Placed, Serial, Threads, PC, store, env, flags, Goto, CleanLabels, CloseLabels, PassLabels
<1>1. ASSUME NEW w \in Writers, NEW p \in Pieces, Piece(w, p) PROVE Serial'
  BY <1>1 DEF Piece
<1>2. ASSUME NEW w \in Writers, NEW n \in 0 .. PieceLength, MemWriteAt(w, n) PROVE Serial'
  BY <1>2 DEF MemWriteAt
<1>3. ASSUME NEW w \in Writers, NEW n \in 0 .. PieceLength, DiskWriteAt(w, n) PROVE Serial'
  BY <1>3 DEF DiskWriteAt
<1>4. ASSUME NEW p \in Pieces, ReadAt(p) PROVE Serial'
  BY <1>4 DEF ReadAt, queueCleanPieces
<1>5. ASSUME NEW p \in Pieces, Read(p) PROVE Serial'
  BY <1>5 DEF Read
<1>6. CASE ReadReturns
  BY <1>6 DEF ReadReturns, readEnds
<1>7. CASE ReadCancelled
  BY <1>7 DEF ReadCancelled, readEnds
<1>8. CASE ReaderClose
  BY <1>8 DEF ReaderClose, newWindow, queueCleanPieces
<1>9. ASSUME NEW t \in Threads, CleanPieces(t) PROVE Serial'
  BY <1>9 DEF CleanPieces, return
<1>10. ASSUME NEW t \in Threads, lockCleanup(t) PROVE Serial'
  BY <1>10 DEF lockCleanup, return
<1>11. ASSUME NEW t \in Threads, wakeUp(t) PROVE Serial'
  BY <1>11 DEF wakeUp, return
<1>12. ASSUME NEW t \in Threads, passStart(t) PROVE Serial'
  BY <1>12 DEF passStart
<1>13. ASSUME NEW t \in Threads, passCollect(t) PROVE Serial'
  BY <1>13 DEF passCollect
<1>14. ASSUME NEW t \in Threads, passPick(t) PROVE Serial'
  BY <1>14 DEF passPick
<1>15. ASSUME NEW t \in Threads, passRemove(t) PROVE Serial'
  BY <1>15 DEF passRemove
<1>16. ASSUME NEW t \in Threads, passEnd(t) PROVE Serial'
  BY <1>16 DEF passEnd
<1>17. ASSUME NEW t \in Threads, finishPass(t) PROVE Serial'
  <2>1. pc[t] = "finish"
    BY <1>17 DEF finishPass
  <2>2. CASE UNCHANGED running /\ pc' = [pc EXCEPT ![t] = "pass"]
    BY <2>1, <2>2
  <2>3. CASE /\ running' = FALSE
             /\ \A u \in Threads : pc'[u] = IF u = t THEN "idle"
                                           ELSE IF pc[u] = "wait" THEN "woken" ELSE pc[u]
    <3>1. \A u \in Threads : pc'[u] \notin PassLabels /\ pc'[u] # "wait"
      BY <2>1, <2>3
    <3> QED
      BY <2>3, <3>1
  <2> QED
    BY <1>17, <2>2, <2>3, FinishPlaces
<1>18. CASE CloseMark
  BY <1>18 DEF CloseMark
<1>19. CASE CloseRelease
  BY <1>19 DEF CloseRelease
<1>20. CASE CloseUnregister
  BY <1>20 DEF CloseUnregister
<1>21. CASE CloseForget
  BY <1>21 DEF CloseForget
<1>22. CASE MoveWindow
  BY <1>22 DEF MoveWindow, newWindow
<1>23. ASSUME NEW cap \in Capacities, SetCapacity(cap) PROVE Serial'
  BY <1>23 DEF SetCapacity, queueCleanPieces
<1>24. ASSUME NEW cap \in Capacities, AdjustRA(cap) PROVE Serial'
  BY <1>24 DEF AdjustRA
<1> QED
  BY <1>1, <1>2, <1>3, <1>4, <1>5, <1>6, <1>7, <1>8, <1>9, <1>10, <1>11, <1>12, <1>13, <1>14, <1>15, <1>16, <1>17, <1>18, <1>19, <1>20, <1>21, <1>22, <1>23, <1>24
  DEF Next, CleanStep, Close

\* A write adds the same to the fill and to what the pieces hold.
LEMMA Grown ==
  ASSUME TypeOK, AccountsExact, NEW p \in Pieces, NEW n \in 0 .. PieceLength, grow(p, n),
         pc'[Closer] = pc[Closer], UNCHANGED hasPieces
  PROVE  AccountsExact'
<1> DEFINE new == IF size[p] + n > PieceLength THEN PieceLength ELSE size[p] + n
<1>1. size[p] \in 0 .. PieceLength /\ PieceLength \in Nat
  BY CacheAssumption DEF TypeOK
<1>2. new \in 0 .. PieceLength /\ new - size[p] \in Nat /\ new >= size[p]
  BY <1>1
<1>3. size' = [size EXCEPT ![p] = new] /\ filled' = filled + (new - size[p])
  BY <1>2 DEF grow, addFilled, TypeOK
<1>4. Cardinality(Held(size')) = Cardinality(Held(size)) - size[p] + new
  <2> HIDE DEF new
  <2> QED
    BY <1>2, <1>3, SizeChange DEF TypeOK
<1>5. Cardinality(Held(size)) \in Nat /\ filled \in Nat /\ size[p] \in Nat /\ new \in Nat
  BY <1>1, <1>2, HeldFinite DEF TypeOK
<1>6. FilledExact'
  <2> HIDE DEF new
  <2> QED
    BY <1>2, <1>3, <1>4, <1>5 DEF AccountsExact, FilledExact, Bytes
<1>7. ResidentExact'
  <2>1. resident' = IF hasPieces /\ size[p] = 0 /\ new > 0 THEN resident \cup {p} ELSE resident
    BY DEF grow
  <2>2. \A q \in Pieces : size'[q] = IF q = p THEN new ELSE size[q]
    BY <1>3 DEF TypeOK
  <2> HIDE DEF new
  <2> QED
    BY <1>1, <1>2, <2>1, <2>2 DEF AccountsExact, ResidentExact, TypeOK
<1> QED
  BY <1>6, <1>7 DEF AccountsExact

\* A release takes the same from both; after Close the fill stops at zero.
LEMMA Released ==
  ASSUME TypeOK, AccountsExact, NEW p \in Pieces, releasePiece(p), UNCHANGED hasPieces,
         pc'[Closer] \in {"forget", "closed"} <=> pc[Closer] \in {"forget", "closed"}
  PROVE  AccountsExact'
<1>1. size[p] \in Nat /\ size[p] <= Cardinality(Held(size))
  BY SizeBound DEF TypeOK
<1>2. Cardinality(Held(size')) = Cardinality(Held(size)) - size[p] + 0
  <2>1. 0 \in 0 .. PieceLength
    BY CacheAssumption
  <2> QED
    BY <2>1, SizeChange DEF TypeOK, releasePiece
<1>3. Cardinality(Held(size)) \in Nat /\ filled \in Nat
  BY HeldFinite DEF TypeOK
<1>4. filled' = IF filled - size[p] < 0 THEN 0 ELSE filled - size[p]
  BY <1>1, <1>3 DEF releasePiece, addFilled
<1>5. FilledExact'
  BY <1>1, <1>2, <1>3, <1>4 DEF AccountsExact, FilledExact, Bytes
<1>6. ResidentExact'
  BY <1>1 DEF AccountsExact, ResidentExact, TypeOK, releasePiece
<1> QED
  BY <1>5, <1>6 DEF AccountsExact

\* Steps that touch neither pieces nor counters.
LEMMA Kept ==
  ASSUME AccountsExact, UNCHANGED <<size, filled, resident, hasPieces>>,
         pc'[Closer] = pc[Closer]
  PROVE  AccountsExact'
BY DEF AccountsExact, FilledExact, ResidentExact, Bytes

\* Every step keeps fill and index exact.
LEMMA AccountsStep ==
  ASSUME TypeOK, Placed, AccountsExact, Next
  PROVE  AccountsExact'
<1> USE CacheAssumption DEF TypeOK, Placed, Threads, PC, store, env, flags, Goto, CleanLabels, CloseLabels
<1>1. ASSUME NEW w \in Writers, NEW p \in Pieces, Piece(w, p) PROVE AccountsExact'
  <2>1. UNCHANGED <<size, filled, resident, hasPieces>>
    BY <1>1 DEF Piece
  <2>2. pc'[Closer] = pc[Closer]
    BY <1>1 DEF Piece
  <2> QED
    BY <2>1, <2>2, Kept
<1>2. ASSUME NEW w \in Writers, NEW n \in 0 .. PieceLength, MemWriteAt(w, n) PROVE AccountsExact'
  <2>1. grow(at[w], n) /\ at[w] \in Pieces /\ n \in 0 .. PieceLength
    BY <1>2 DEF MemWriteAt
  <2>2. pc'[Closer] = pc[Closer] /\ UNCHANGED hasPieces
    BY <1>2 DEF MemWriteAt
  <2> QED
    BY <2>1, <2>2, Grown
<1>3. ASSUME NEW w \in Writers, NEW n \in 0 .. PieceLength, DiskWriteAt(w, n) PROVE AccountsExact'
  <2>1. grow(at[w], n) /\ at[w] \in Pieces /\ n \in 0 .. PieceLength
    BY <1>3 DEF DiskWriteAt
  <2>2. pc'[Closer] = pc[Closer] /\ UNCHANGED hasPieces
    BY <1>3 DEF DiskWriteAt
  <2> QED
    BY <2>1, <2>2, Grown
<1>4. ASSUME NEW p \in Pieces, ReadAt(p) PROVE AccountsExact'
  <2>1. UNCHANGED <<size, filled, resident, hasPieces>>
    BY <1>4 DEF ReadAt, queueCleanPieces
  <2>2. pc'[Closer] = pc[Closer]
    BY <1>4 DEF ReadAt, queueCleanPieces
  <2> QED
    BY <2>1, <2>2, Kept
<1>5. ASSUME NEW p \in Pieces, Read(p) PROVE AccountsExact'
  <2>1. UNCHANGED <<size, filled, resident, hasPieces>>
    BY <1>5 DEF Read
  <2>2. pc'[Closer] = pc[Closer]
    BY <1>5 DEF Read
  <2> QED
    BY <2>1, <2>2, Kept
<1>6. CASE ReadReturns
  <2>1. UNCHANGED <<size, filled, resident, hasPieces>>
    BY <1>6 DEF ReadReturns, readEnds
  <2>2. pc'[Closer] = pc[Closer]
    BY <1>6 DEF ReadReturns, readEnds
  <2> QED
    BY <2>1, <2>2, Kept
<1>7. CASE ReadCancelled
  <2>1. UNCHANGED <<size, filled, resident, hasPieces>>
    BY <1>7 DEF ReadCancelled, readEnds
  <2>2. pc'[Closer] = pc[Closer]
    BY <1>7 DEF ReadCancelled, readEnds
  <2> QED
    BY <2>1, <2>2, Kept
<1>8. CASE ReaderClose
  <2>1. UNCHANGED <<size, filled, resident, hasPieces>>
    BY <1>8 DEF ReaderClose, newWindow, queueCleanPieces
  <2>2. pc'[Closer] = pc[Closer]
    BY <1>8 DEF ReaderClose, newWindow, queueCleanPieces
  <2> QED
    BY <2>1, <2>2, Kept
<1>9. ASSUME NEW t \in Threads, CleanPieces(t) PROVE AccountsExact'
  <2>1. UNCHANGED <<size, filled, resident, hasPieces>>
    BY <1>9 DEF CleanPieces, return
  <2>2. pc'[Closer] = pc[Closer]
    BY <1>9 DEF CleanPieces, return
  <2> QED
    BY <2>1, <2>2, Kept
<1>10. ASSUME NEW t \in Threads, lockCleanup(t) PROVE AccountsExact'
  <2>1. UNCHANGED <<size, filled, resident, hasPieces>>
    BY <1>10 DEF lockCleanup, return
  <2>2. pc'[Closer] = pc[Closer]
    BY <1>10 DEF lockCleanup, return
  <2> QED
    BY <2>1, <2>2, Kept
<1>11. ASSUME NEW t \in Threads, wakeUp(t) PROVE AccountsExact'
  <2>1. UNCHANGED <<size, filled, resident, hasPieces>>
    BY <1>11 DEF wakeUp, return
  <2>2. pc'[Closer] = pc[Closer]
    BY <1>11 DEF wakeUp, return
  <2> QED
    BY <2>1, <2>2, Kept
<1>12. ASSUME NEW t \in Threads, passStart(t) PROVE AccountsExact'
  <2>1. UNCHANGED <<size, filled, resident, hasPieces>>
    BY <1>12 DEF passStart
  <2>2. pc'[Closer] = pc[Closer]
    BY <1>12 DEF passStart
  <2> QED
    BY <2>1, <2>2, Kept
<1>13. ASSUME NEW t \in Threads, passCollect(t) PROVE AccountsExact'
  <2>1. UNCHANGED <<size, filled, resident, hasPieces>>
    BY <1>13 DEF passCollect
  <2>2. pc'[Closer] = pc[Closer]
    BY <1>13 DEF passCollect
  <2> QED
    BY <2>1, <2>2, Kept
<1>14. ASSUME NEW t \in Threads, passPick(t) PROVE AccountsExact'
  <2>1. UNCHANGED <<size, filled, resident, hasPieces>>
    BY <1>14 DEF passPick
  <2>2. pc'[Closer] = pc[Closer]
    BY <1>14 DEF passPick
  <2> QED
    BY <2>1, <2>2, Kept
<1>15. ASSUME NEW t \in Threads, passRemove(t) PROVE AccountsExact'
  <2>1. releasePiece(pass[t].target) /\ pass[t].target \in Pieces
    BY <1>15 DEF passRemove
  <2>2. pc'[Closer] = pc[Closer] /\ UNCHANGED hasPieces
    BY <1>15 DEF passRemove
  <2> QED
    BY <2>1, <2>2, Released
<1>16. ASSUME NEW t \in Threads, passEnd(t) PROVE AccountsExact'
  <2>1. UNCHANGED <<size, filled, resident, hasPieces>>
    BY <1>16 DEF passEnd
  <2>2. pc'[Closer] = pc[Closer]
    BY <1>16 DEF passEnd
  <2> QED
    BY <2>1, <2>2, Kept
<1>17. ASSUME NEW t \in Threads, finishPass(t) PROVE AccountsExact'
  <2>1. UNCHANGED <<size, filled, resident, hasPieces>>
    BY <1>17 DEF finishPass
  <2>2. pc'[Closer] = pc[Closer]
    <3>1. t # Closer /\ pc[Closer] # "wait"
      BY <1>17 DEF finishPass
    <3>2. \/ pc' = [pc EXCEPT ![t] = "pass"]
          \/ \A u \in Threads : pc'[u] = IF u = t THEN "idle"
                                        ELSE IF pc[u] = "wait" THEN "woken" ELSE pc[u]
      BY <1>17, FinishPlaces, Zenon
    <3> QED
      BY <3>1, <3>2
  <2> QED
    BY <2>1, <2>2, Kept
<1>18. CASE CloseMark
  <2>1. UNCHANGED <<size, filled, resident, hasPieces>>
    BY <1>18 DEF CloseMark
  <2>2. pc[Closer] = "idle" /\ pc'[Closer] \in {"unregister", "release"}
    BY <1>18 DEF CloseMark
  <2> QED
    BY <2>1, <2>2 DEF AccountsExact, FilledExact, ResidentExact, Bytes
<1>19. CASE CloseRelease
  <2>1. PICK p \in pass[Closer].cand : releasePiece(p)
    BY <1>19 DEF CloseRelease
  <2>2. p \in Pieces
    BY <2>1 DEF Passes
  <2>3. /\ pc[Closer] = "release" /\ pc'[Closer] \in {"unregister", "release"}
        /\ UNCHANGED hasPieces
    BY <1>19 DEF CloseRelease
  <2> QED
    BY <2>1, <2>2, <2>3, Released
<1>20. CASE CloseUnregister
  <2>1. UNCHANGED <<size, resident, hasPieces>> /\ filled' = 0 /\ pc'[Closer] = "forget"
    BY <1>20 DEF CloseUnregister
  <2>2. Cardinality(Held(size)) \in Nat
    BY HeldFinite
  <2> QED
    BY <2>1, <2>2 DEF AccountsExact, FilledExact, ResidentExact, Bytes
<1>21. CASE CloseForget
  <2>1. UNCHANGED <<size, filled>> /\ hasPieces' = FALSE
    BY <1>21 DEF CloseForget
  <2>2. pc[Closer] = "forget" /\ pc'[Closer] = "closed"
    BY <1>21 DEF CloseForget
  <2> QED
    BY <2>1, <2>2 DEF AccountsExact, FilledExact, ResidentExact, Bytes
<1>22. CASE MoveWindow
  <2>1. UNCHANGED <<size, filled, resident, hasPieces>>
    BY <1>22 DEF MoveWindow, newWindow
  <2>2. pc'[Closer] = pc[Closer]
    BY <1>22 DEF MoveWindow, newWindow
  <2> QED
    BY <2>1, <2>2, Kept
<1>23. ASSUME NEW cap \in Capacities, SetCapacity(cap) PROVE AccountsExact'
  <2>1. UNCHANGED <<size, filled, resident, hasPieces>>
    BY <1>23 DEF SetCapacity, queueCleanPieces
  <2>2. pc'[Closer] = pc[Closer]
    BY <1>23 DEF SetCapacity, queueCleanPieces
  <2> QED
    BY <2>1, <2>2, Kept
<1>24. ASSUME NEW cap \in Capacities, AdjustRA(cap) PROVE AccountsExact'
  <2>1. UNCHANGED <<size, filled, resident, hasPieces>>
    BY <1>24 DEF AdjustRA
  <2>2. pc'[Closer] = pc[Closer]
    BY <1>24 DEF AdjustRA
  <2> QED
    BY <2>1, <2>2, Kept
<1> QED
  BY <1>1, <1>2, <1>3, <1>4, <1>5, <1>6, <1>7, <1>8, <1>9, <1>10, <1>11, <1>12, <1>13, <1>14, <1>15, <1>16, <1>17, <1>18, <1>19, <1>20, <1>21, <1>22, <1>23, <1>24
  DEF Next, CleanStep, Close

\* Rounded down, the excess is no more than it was (cleanPiecesPass).
LEMMA Rounding ==
  ASSUME NEW d \in Nat, NEW L \in Nat \ {0}
  PROVE  (d \div L) \in Nat /\ (d \div L) * L <= d
OBVIOUS

\* One piece more or less.
LEMMA OnePiece ==
  ASSUME NEW r \in Int, NEW L \in Nat
  PROVE  (r - 1) * L = r * L - L /\ r * L \in Int /\ (r >= 0 => r * L >= 0)
OBVIOUS

\* Steps that evict nothing and do not go to the next piece of a pass.
LEMMA EnoughKept ==
  ASSUME TypeOK, TypeOK', Enough, isClosed => isClosed', ~isClosed' => filled' >= filled,
         \A t \in Threads : pc'[t] \in {"collect", "evict", "remove"} =>
                            pc'[t] = pc[t] /\ pass'[t] = pass[t]
  PROVE  Enough'
<1> SUFFICES ASSUME NEW t \in Threads, pc'[t] \in {"collect", "evict", "remove"}, ~isClosed'
             PROVE  /\ pc'[t] \in {"collect", "evict"} =>
                         filled' >= pass'[t].limit + (pass'[t].rems - 1) * PieceLength
                    /\ pc'[t] = "remove" =>
                         filled' >= pass'[t].limit + pass'[t].rems * PieceLength
  BY DEF Enough
<1>1. pc'[t] = pc[t] /\ pass'[t] = pass[t] /\ ~isClosed /\ filled' >= filled
  OBVIOUS
<1>2. pass[t].limit \in Nat /\ pass[t].rems \in Nat /\ filled \in Nat /\ filled' \in Nat
  BY DEF TypeOK, Passes
<1>3. pass[t].rems * PieceLength \in Int /\ (pass[t].rems - 1) * PieceLength \in Int
  BY <1>2, OnePiece, CacheAssumption
<1> QED
  BY <1>1, <1>2, <1>3 DEF Enough

\* Writers only add, and of the evictions a pass was sent for each takes one piece.
LEMMA EnoughStep ==
  ASSUME TypeOK, TypeOK', Placed, Serial, Enough, Next
  PROVE  Enough'
<1> USE CacheAssumption DEF TypeOK, Placed, Serial, Threads, PC, store, env, flags, Goto, CleanLabels, CloseLabels, PassLabels
<1>1. ASSUME NEW w \in Writers, NEW p \in Pieces, Piece(w, p) PROVE Enough'
  <2>1. filled' >= filled /\ UNCHANGED isClosed
    BY <1>1 DEF Piece
  <2>2. \A u \in Threads : pc'[u] \in {"collect", "evict", "remove"} =>
                            pc'[u] = pc[u] /\ pass'[u] = pass[u]
    BY <1>1 DEF Piece
  <2> QED
    BY <2>1, <2>2, EnoughKept
<1>2. ASSUME NEW w \in Writers, NEW n \in 0 .. PieceLength, MemWriteAt(w, n) PROVE Enough'
  <2>1. filled' >= filled
    <3>1. at[w] \in Pieces /\ n \in 0 .. PieceLength
      BY <1>2 DEF MemWriteAt
    <3>2. size[at[w]] \in 0 .. PieceLength /\ PieceLength \in Nat
      BY <3>1
    <3> QED
      BY <1>2, <3>1, <3>2 DEF MemWriteAt, grow, addFilled
  <2>2. UNCHANGED isClosed
    BY <1>2 DEF MemWriteAt
  <2>3. \A u \in Threads : pc'[u] \in {"collect", "evict", "remove"} =>
                            pc'[u] = pc[u] /\ pass'[u] = pass[u]
    BY <1>2 DEF MemWriteAt
  <2> QED
    BY <2>1, <2>2, <2>3, EnoughKept
<1>3. ASSUME NEW w \in Writers, NEW n \in 0 .. PieceLength, DiskWriteAt(w, n) PROVE Enough'
  <2>1. filled' >= filled
    <3>1. at[w] \in Pieces /\ n \in 0 .. PieceLength
      BY <1>3 DEF DiskWriteAt
    <3>2. size[at[w]] \in 0 .. PieceLength /\ PieceLength \in Nat
      BY <3>1
    <3> QED
      BY <1>3, <3>1, <3>2 DEF DiskWriteAt, grow, addFilled
  <2>2. UNCHANGED isClosed
    BY <1>3 DEF DiskWriteAt
  <2>3. \A u \in Threads : pc'[u] \in {"collect", "evict", "remove"} =>
                            pc'[u] = pc[u] /\ pass'[u] = pass[u]
    BY <1>3 DEF DiskWriteAt
  <2> QED
    BY <2>1, <2>2, <2>3, EnoughKept
<1>4. ASSUME NEW p \in Pieces, ReadAt(p) PROVE Enough'
  <2>1. filled' >= filled /\ UNCHANGED isClosed
    BY <1>4 DEF ReadAt, queueCleanPieces
  <2>2. \A u \in Threads : pc'[u] \in {"collect", "evict", "remove"} =>
                            pc'[u] = pc[u] /\ pass'[u] = pass[u]
    BY <1>4 DEF ReadAt, queueCleanPieces
  <2> QED
    BY <2>1, <2>2, EnoughKept
<1>5. ASSUME NEW p \in Pieces, Read(p) PROVE Enough'
  <2>1. filled' >= filled /\ UNCHANGED isClosed
    BY <1>5 DEF Read
  <2>2. \A u \in Threads : pc'[u] \in {"collect", "evict", "remove"} =>
                            pc'[u] = pc[u] /\ pass'[u] = pass[u]
    BY <1>5 DEF Read
  <2> QED
    BY <2>1, <2>2, EnoughKept
<1>6. CASE ReadReturns
  <2>1. filled' >= filled /\ UNCHANGED isClosed
    BY <1>6 DEF ReadReturns, readEnds
  <2>2. \A u \in Threads : pc'[u] \in {"collect", "evict", "remove"} =>
                            pc'[u] = pc[u] /\ pass'[u] = pass[u]
    BY <1>6 DEF ReadReturns, readEnds
  <2> QED
    BY <2>1, <2>2, EnoughKept
<1>7. CASE ReadCancelled
  <2>1. filled' >= filled /\ UNCHANGED isClosed
    BY <1>7 DEF ReadCancelled, readEnds
  <2>2. \A u \in Threads : pc'[u] \in {"collect", "evict", "remove"} =>
                            pc'[u] = pc[u] /\ pass'[u] = pass[u]
    BY <1>7 DEF ReadCancelled, readEnds
  <2> QED
    BY <2>1, <2>2, EnoughKept
<1>8. CASE ReaderClose
  <2>1. filled' >= filled /\ UNCHANGED isClosed
    BY <1>8 DEF ReaderClose, newWindow, queueCleanPieces
  <2>2. \A u \in Threads : pc'[u] \in {"collect", "evict", "remove"} =>
                            pc'[u] = pc[u] /\ pass'[u] = pass[u]
    BY <1>8 DEF ReaderClose, newWindow, queueCleanPieces
  <2> QED
    BY <2>1, <2>2, EnoughKept
<1>9. ASSUME NEW t \in Threads, CleanPieces(t) PROVE Enough'
  <2>1. filled' >= filled /\ UNCHANGED isClosed
    BY <1>9 DEF CleanPieces, return
  <2>2. \A u \in Threads : pc'[u] \in {"collect", "evict", "remove"} =>
                            pc'[u] = pc[u] /\ pass'[u] = pass[u]
    BY <1>9 DEF CleanPieces, return
  <2> QED
    BY <2>1, <2>2, EnoughKept
<1>10. ASSUME NEW t \in Threads, lockCleanup(t) PROVE Enough'
  <2>1. filled' >= filled /\ UNCHANGED isClosed
    BY <1>10 DEF lockCleanup, return
  <2>2. \A u \in Threads : pc'[u] \in {"collect", "evict", "remove"} =>
                            pc'[u] = pc[u] /\ pass'[u] = pass[u]
    BY <1>10 DEF lockCleanup, return
  <2> QED
    BY <2>1, <2>2, EnoughKept
<1>11. ASSUME NEW t \in Threads, wakeUp(t) PROVE Enough'
  <2>1. filled' >= filled /\ UNCHANGED isClosed
    BY <1>11 DEF wakeUp, return
  <2>2. \A u \in Threads : pc'[u] \in {"collect", "evict", "remove"} =>
                            pc'[u] = pc[u] /\ pass'[u] = pass[u]
    BY <1>11 DEF wakeUp, return
  <2> QED
    BY <2>1, <2>2, EnoughKept
<1>12. ASSUME NEW t \in Threads, passStart(t) PROVE Enough'
  <2>1. \A u \in Threads : pc'[u] \in {"collect", "evict", "remove"} =>
          \/ u # t /\ pc'[u] = pc[u]
          \/ u = t /\ pc'[u] = "collect" /\ filled > capacity
    BY <1>12 DEF passStart
  <2>2. \A u \in Threads : u # t => pc[u] \notin {"collect", "evict", "remove"}
    BY <1>12 DEF passStart
  <2>3. CASE ~(filled > capacity)
    BY <2>1, <2>2, <2>3 DEF Enough
  <2>4. CASE filled > capacity
    <3>1. pass'[t].limit = capacity /\ pass'[t].rems = (filled - capacity) \div PieceLength + 1
      <4>1. ~(filled <= capacity)
        BY <2>4
      <4>2. pass' = [pass EXCEPT ![t] = [NoPass EXCEPT
                       !.rems = (filled - capacity) \div PieceLength + 1,
                       !.before = filled, !.limit = capacity]]
        BY <1>12, <4>1, Zenon DEF passStart
      <4> QED
        BY <4>2 DEF NoPass
    <3>2. filled - capacity \in Nat /\ capacity \in Nat
      BY <2>4
    <3>3. /\ ((filled - capacity) \div PieceLength) * PieceLength <= filled - capacity
          /\ (filled - capacity) \div PieceLength \in Nat
      BY <3>2, Rounding
    <3> DEFINE r == (filled - capacity) \div PieceLength
    <3>4. r + 1 - 1 = r
      BY <3>3
    <3>5. r * PieceLength \in Int
      BY <3>3, OnePiece
    <3> HIDE DEF r
    <3>6. filled >= pass'[t].limit + (pass'[t].rems - 1) * PieceLength
      BY <3>1, <3>2, <3>3, <3>4, <3>5 DEF r
    <3>7. filled' = filled
      BY <1>12 DEF passStart
    <3> QED
      BY <2>1, <2>2, <3>6, <3>7 DEF Enough
  <2> QED
    BY <2>3, <2>4
<1>13. ASSUME NEW t \in Threads, passCollect(t) PROVE Enough'
  <2>1. /\ pc[t] = "collect" /\ pc'[t] = "evict" /\ UNCHANGED <<filled, isClosed>>
        /\ pass'[t].limit = pass[t].limit /\ pass'[t].rems = pass[t].rems
    BY <1>13 DEF passCollect, Passes
  <2>2. \A u \in Threads : u # t => pc'[u] \notin {"collect", "evict", "remove"}
    BY <1>13 DEF passCollect
  <2> QED
    BY <2>1, <2>2 DEF Enough
<1>14. ASSUME NEW t \in Threads, passPick(t) PROVE Enough'
  <2>1. /\ pc[t] = "evict" /\ pass'[t].limit = pass[t].limit
        /\ pass'[t].rems = pass[t].rems - 1 /\ UNCHANGED <<filled, isClosed>>
        /\ ~isClosed => pc'[t] = "remove"
    BY <1>14 DEF passPick, Passes
  <2>2. \A u \in Threads : u # t => pc'[u] \notin {"collect", "evict", "remove"}
    BY <1>14 DEF passPick
  <2> QED
    BY <2>1, <2>2 DEF Enough
<1>15. ASSUME NEW t \in Threads, passRemove(t) PROVE Enough'
  <2>1. /\ pc[t] = "remove" /\ pc'[t] = "evict" /\ UNCHANGED isClosed
        /\ pass'[t].limit = pass[t].limit /\ pass'[t].rems = pass[t].rems
    BY <1>15 DEF passRemove, Passes
  <2>2. \A u \in Threads : u # t => pc'[u] \notin {"collect", "evict", "remove"}
    BY <1>15 DEF passRemove
  <2>3. filled' >= filled - PieceLength
    <3>1. pass[t].target \in Pieces
      BY <1>15 DEF passRemove
    <3>2. size[pass[t].target] \in 0 .. PieceLength /\ PieceLength \in Nat
      BY <3>1
    <3> QED
      BY <1>15, <3>2 DEF passRemove, releasePiece, addFilled
  <2>4. pass[t].limit \in Nat /\ pass[t].rems \in Nat /\ filled' \in Nat
    BY DEF Passes
  <2>5. /\ (pass[t].rems - 1) * PieceLength = pass[t].rems * PieceLength - PieceLength
        /\ pass[t].rems * PieceLength \in Int
    BY <2>4, OnePiece
  <2> QED
    BY <2>1, <2>2, <2>3, <2>4, <2>5 DEF Enough
<1>16. ASSUME NEW t \in Threads, passEnd(t) PROVE Enough'
  <2>1. filled' >= filled /\ UNCHANGED isClosed
    BY <1>16 DEF passEnd
  <2>2. \A u \in Threads : pc'[u] \in {"collect", "evict", "remove"} =>
                            pc'[u] = pc[u] /\ pass'[u] = pass[u]
    BY <1>16 DEF passEnd
  <2> QED
    BY <2>1, <2>2, EnoughKept
<1>17. ASSUME NEW t \in Threads, finishPass(t) PROVE Enough'
  <2>1. filled' >= filled /\ UNCHANGED isClosed
    BY <1>17 DEF finishPass
  <2>2. \A u \in Threads : pc'[u] \in {"collect", "evict", "remove"} =>
                            pc'[u] = pc[u] /\ pass'[u] = pass[u]
    <3>1. \/ pc' = [pc EXCEPT ![t] = "pass"]
          \/ \A u \in Threads : pc'[u] = IF u = t THEN "idle"
                                        ELSE IF pc[u] = "wait" THEN "woken" ELSE pc[u]
      BY <1>17, FinishPlaces, Zenon
    <3>2. \A u \in Threads : u # t => pass'[u] = pass[u]
      BY <1>17 DEF finishPass
    <3> QED
      BY <3>1, <3>2
  <2> QED
    BY <2>1, <2>2, EnoughKept
<1>18. CASE CloseMark
  BY <1>18 DEF CloseMark, Enough
<1>19. CASE CloseRelease
  <2>1. isClosed'
    BY <1>19 DEF CloseRelease
  <2> QED
    BY <2>1 DEF Enough
<1>20. CASE CloseUnregister
  <2>1. isClosed'
    BY <1>20 DEF CloseUnregister
  <2> QED
    BY <2>1 DEF Enough
<1>21. CASE CloseForget
  <2>1. isClosed'
    BY <1>21 DEF CloseForget
  <2> QED
    BY <2>1 DEF Enough
<1>22. CASE MoveWindow
  <2>1. filled' >= filled /\ UNCHANGED isClosed
    BY <1>22 DEF MoveWindow, newWindow
  <2>2. \A u \in Threads : pc'[u] \in {"collect", "evict", "remove"} =>
                            pc'[u] = pc[u] /\ pass'[u] = pass[u]
    BY <1>22 DEF MoveWindow, newWindow
  <2> QED
    BY <2>1, <2>2, EnoughKept
<1>23. ASSUME NEW cap \in Capacities, SetCapacity(cap) PROVE Enough'
  <2>1. filled' >= filled /\ UNCHANGED isClosed
    BY <1>23 DEF SetCapacity, queueCleanPieces
  <2>2. \A u \in Threads : pc'[u] \in {"collect", "evict", "remove"} =>
                            pc'[u] = pc[u] /\ pass'[u] = pass[u]
    BY <1>23 DEF SetCapacity, queueCleanPieces
  <2> QED
    BY <2>1, <2>2, EnoughKept
<1>24. ASSUME NEW cap \in Capacities, AdjustRA(cap) PROVE Enough'
  <2>1. filled' >= filled /\ UNCHANGED isClosed
    BY <1>24 DEF AdjustRA
  <2>2. \A u \in Threads : pc'[u] \in {"collect", "evict", "remove"} =>
                            pc'[u] = pc[u] /\ pass'[u] = pass[u]
    BY <1>24 DEF AdjustRA
  <2> QED
    BY <2>1, <2>2, EnoughKept
<1> QED
  BY <1>1, <1>2, <1>3, <1>4, <1>5, <1>6, <1>7, <1>8, <1>9, <1>10, <1>11, <1>12, <1>13, <1>14, <1>15, <1>16, <1>17, <1>18, <1>19, <1>20, <1>21, <1>22, <1>23, <1>24
  DEF Next, CleanStep, Close

-----------------------------------------------------------------------------
(* The theorems. *)

\* A cache that has just been opened (NewCache, Cache.Init).
LEMMA InitInv == Init => Inv
<1> SUFFICES ASSUME Init PROVE Inv
  OBVIOUS
<1> USE CacheAssumption
<1>1. FlagsOK
  BY DEF Init, FlagsOK
<1>2. \A disk \in Modes : Windows[disk] \subseteq SUBSET Pieces
  OBVIOUS
<1>3. TypeOK
  <2>1. NoPass \in Passes
    BY DEF NoPass, Passes
  <2>2. filled \in Nat
    <3>1. Cardinality(OnDisk) \in Nat
      BY FS_Subset, FS_CardinalityType
    <3>2. PieceLength * Cardinality(OnDisk) \in Nat
      BY <3>1
    <3> QED
      BY <3>2 DEF Init
  <2>3. size \in [Pieces -> 0 .. PieceLength]
    BY DEF Init
  <2>4. /\ pieceMu \in [Pieces -> Threads \cup {NoThread}]
        /\ pc \in [Threads -> PC]
        /\ at \in [Threads -> Pieces \cup {NoPiece}]
        /\ pass \in [Threads -> Passes]
    BY <2>1 DEF Init, PC
  <2>5. resident \subseteq Pieces /\ protected \subseteq Pieces
    BY <1>2 DEF Init
  <2> QED
    BY <1>1, <2>2, <2>3, <2>4, <2>5 DEF Init, TypeOK
<1>4. Placed /\ Serial /\ Enough
  BY DEF Init, Placed, Serial, Enough, PassLabels, CleanLabels, CloseLabels, Threads
<1>5. filled = Bytes
  <2>1. CASE useDisk
    <3>1. Held(size) = OnDisk \X (1 .. PieceLength)
      BY <2>1 DEF Init, Held
    <3>2. IsFiniteSet(OnDisk) /\ Cardinality(OnDisk) \in Nat
      BY FS_Subset, FS_CardinalityType
    <3>3. IsFiniteSet(1 .. PieceLength) /\ Cardinality(1 .. PieceLength) = PieceLength
      BY FS_Interval
    <3>4. Cardinality(Held(size)) = Cardinality(OnDisk) * PieceLength
      BY <3>1, <3>2, <3>3, FS_Product
    <3> QED
      BY <2>1, <3>2, <3>4 DEF Init, Bytes
  <2>2. CASE ~useDisk
    <3>1. Held(size) = {}
      BY <2>2 DEF Init, Held
    <3> QED
      BY <2>2, <3>1, FS_EmptySet DEF Init, Bytes
  <2> QED
    BY <2>1, <2>2
<1>6. ResidentExact
  BY DEF Init, ResidentExact
<1> QED
  BY <1>3, <1>4, <1>5, <1>6 DEF Inv, AccountsExact, FilledExact, TypeOK

\* The invariant is inductive.
LEMMA InvStep == Inv /\ [Next]_vars => Inv'
<1> SUFFICES ASSUME Inv, [Next]_vars PROVE Inv'
  OBVIOUS
<1>1. CASE Next
  BY <1>1, TypeStep, PlacedStep, SerialStep, AccountsStep, EnoughStep DEF Inv
<1>2. CASE UNCHANGED vars
  BY <1>2 DEF Inv, vars, TypeOK, FlagsOK, Placed, Serial, AccountsExact, FilledExact,
              ResidentExact, Bytes, Enough
<1> QED
  BY <1>1, <1>2

LEMMA InvAlways == Spec => []Inv
<1> QED
  BY InitInv, InvStep, PTL DEF Spec

\* Every variable of the cache, of its pieces and of the cleanup keeps its type.
THEOREM TypeCorrect == Spec => []TypeOK
<1>1. Inv => TypeOK
  BY DEF Inv
<1> QED
  BY <1>1, InvAlways, PTL

\* The fill counter is the number of chunks the pieces hold, and the resident index
\* the set of pieces that hold some, whatever writes, evictions and Close do at the
\* same time.
THEOREM EvictionSeesTrueNumbers == Spec => []AccountsExact
<1>1. Inv => AccountsExact
  BY DEF Inv
<1> QED
  BY <1>1, InvAlways, PTL

\* At most one pass of CleanPieces runs, the running flag says so, and whoever waits
\* on the condition variable has a runner to wake it.
THEOREM CleanupsAreSerial == Spec => []PassesSerial
<1>1. Inv => PassesSerial
  <2> SUFFICES ASSUME Inv PROVE PassesSerial
    OBVIOUS
  <2>1. \A t, u \in Runners : t = u
    BY DEF Inv, Serial, Runners, PassLabels
  <2>2. running <=> Runners # {}
    BY DEF Inv, Serial, Runners, PassLabels
  <2>3. Cardinality(Runners) <= 1
    <3>1. CASE Runners = {}
      BY <3>1, FS_EmptySet
    <3>2. CASE Runners # {}
      <4>1. PICK t \in Runners : Runners = {t}
        BY <2>1, <3>2
      <4>2. Cardinality(Runners) = 1
        BY <4>1, FS_Singleton, Zenon
      <4> QED
        BY <4>2
    <3> QED
      BY <3>1, <3>2
  <2> QED
    BY <2>2, <2>3 DEF PassesSerial, OneRunner, WaitersHaveRunner, Inv, Serial
<1> QED
  BY <1>1, InvAlways, PTL

\* No pass evicts a piece while the cache is below the capacity the pass started
\* from: rounding down and counting pieces never evicts too much.
THEOREM EvictsNoMoreThanNeeded == Spec => NoOverEviction
<1>1. Inv => \A t \in Threads : pc[t] = "remove" /\ ~isClosed => filled >= pass[t].limit
  <2> SUFFICES ASSUME Inv, NEW t \in Threads, pc[t] = "remove", ~isClosed
               PROVE  filled >= pass[t].limit
    OBVIOUS
  <2>1. filled >= pass[t].limit + pass[t].rems * PieceLength
    BY DEF Inv, Enough
  <2>2. pass[t].limit \in Nat /\ pass[t].rems \in Nat /\ filled \in Nat
    BY DEF Inv, TypeOK, Passes
  <2>3. pass[t].rems * PieceLength \in Int /\ pass[t].rems * PieceLength >= 0
    BY <2>2, OnePiece, CacheAssumption
  <2> QED
    BY <2>1, <2>2, <2>3
<1>2. Inv /\ [Next]_vars =>
        [\A t \in Threads : (pc[t] = "remove" /\ pc'[t] = "evict" /\ ~isClosed)
                              => filled >= pass[t].limit]_vars
  BY <1>1
<1> QED
  BY <1>2, InvAlways, PTL DEF Spec, NoOverEviction

=============================================================================
