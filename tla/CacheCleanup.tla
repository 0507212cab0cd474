---------------------------- MODULE CacheCleanup ----------------------------
(***************************************************************************)
(* The piece cache of one torrent (server/torr/storage/torrstor): writes   *)
(* by the torrent library, the eviction protocol of CleanPieces, and       *)
(* Cache.Close.                                                            *)
(*                                                                         *)
(* Sizes are counted in chunks.  One action is one section under a mutex   *)
(* or one atomic access that another goroutine can observe; a piece update *)
(* (Size, filled and the resident index, all made under the piece mutex)   *)
(* is one action.  Reader windows and the protected file ends (inRanges,   *)
(* isIDInFileBEFast) appear as one set of protected pieces, which readers  *)
(* move at any time; one of them may be blocked in a Read that waits for   *)
(* data with its mutex held.                                               *)
(***************************************************************************)
EXTENDS Integers, FiniteSets

CONSTANTS
  Writers,      \* goroutines of the torrent library that write pieces
  Cleaner,      \* the goroutine queueCleanPieces starts
  Closer,       \* the goroutine that runs Cache.Close
  Pieces,       \* piece ids
  NoThread,
  NoPiece,
  Modes,        \* settings: disk cache (TRUE) or memory cache (FALSE)
  PieceLength,  \* chunks per piece
  Capacities,   \* values the cache capacity takes (SetCapacity, AdjustRA)
  OnDisk,       \* pieces whose file already exists when a disk cache opens
  Written,      \* pieces the library writes
  Windows,      \* the sets of protected pieces the readers can produce, by mode
  Awaited       \* the pieces a Read may have to wait for, by mode

Threads == Writers \cup {Cleaner, Closer}

ASSUME CacheAssumption ==
  /\ IsFiniteSet(Pieces)
  /\ Cleaner \notin Writers /\ Closer \notin Writers /\ Cleaner # Closer
  /\ Modes \subseteq BOOLEAN
  /\ PieceLength \in Nat \ {0}
  /\ Capacities \subseteq Nat /\ Capacities # {}
  /\ OnDisk \subseteq Pieces /\ Written \subseteq Pieces
  /\ Windows \in [Modes -> SUBSET SUBSET Pieces]
  /\ Awaited \in [Modes -> SUBSET Pieces]
  /\ NoThread \notin Threads /\ NoPiece \notin Pieces

VARIABLES
  useDisk,    \* settings: disk cache or memory cache, fixed for a cache's life
  size,       \* Piece.Size
  filled,     \* Cache.filled
  resident,   \* keys of Cache.resident.items
  capacity,   \* Cache.capacity
  protected,  \* pieces in a reader window or at a protected file end
  awaits,     \* the piece a blocked Read waits for, Reader.mu held
  isClosed,   \* Cache.isClosed
  hasPieces,  \* Cache.pieces is not nil
  running,    \* cleanup.running
  pending,    \* cleanup.pending
  queued,     \* cleanup.queued
  pieceMu,    \* owner of the piece mutex while it is held across steps
  pc,         \* where each goroutine is
  at,         \* at[t]: the piece a goroutine works on
  pass        \* pass[t]: local state of cleanPiecesPass

store == <<size, filled, resident>>
env == <<useDisk, capacity, protected, awaits>>
flags == <<running, pending, queued>>
vars == <<useDisk, size, filled, resident, capacity, protected, awaits,
          isClosed, hasPieces, running, pending, queued, pieceMu, pc, at, pass>>

NoPass == [rems |-> 0, before |-> 0, limit |-> 0, progress |-> FALSE,
           target |-> NoPiece, cand |-> {}]

Goto(t, label) == pc' = [pc EXCEPT ![t] = label]

Init ==
  /\ useDisk \in Modes
  /\ size = [p \in Pieces |-> IF useDisk /\ p \in OnDisk THEN PieceLength ELSE 0]
  /\ filled = IF useDisk THEN PieceLength * Cardinality(OnDisk) ELSE 0
  /\ resident = IF useDisk THEN OnDisk ELSE {}
  /\ capacity \in Capacities
  /\ protected \in Windows[useDisk]
  /\ awaits = NoPiece
  /\ isClosed = FALSE
  /\ hasPieces = TRUE
  /\ running = FALSE /\ pending = FALSE /\ queued = FALSE
  /\ pieceMu = [p \in Pieces |-> NoThread]
  /\ pc = [t \in Threads |-> "idle"]
  /\ at = [t \in Threads |-> NoPiece]
  /\ pass = [t \in Threads |-> NoPass]

-----------------------------------------------------------------------------
(* Shared pieces of code. *)

needsCleanup == ~isClosed /\ filled > capacity

\* Mutant: the fill is not clamped when a late Release follows Close.
addFilled_unclamped(delta) == filled' = filled + delta

\* addFilled, clamped at zero.
addFilled(delta) == filled' = IF filled + delta < 0 THEN 0 ELSE filled + delta

\* queueCleanPieces: dropped when closed, inside the minimum interval, or when
\* a cleaner goroutine is already on its way.  The interval is a free choice.
queueCleanPieces ==
  \/ UNCHANGED <<queued, pc>>
  \/ /\ ~isClosed /\ ~queued
     /\ queued' = TRUE
     /\ Goto(Cleaner, "clean")

\* Mutant: the released piece stays in the resident index.
releasePiece_keepsIndex(p) ==
  /\ size' = [size EXCEPT ![p] = 0]
  /\ addFilled(-size[p])
  /\ UNCHANGED resident

\* MemPiece.Release and DiskPiece.Release: forget what the piece holds.
releasePiece(p) ==
  /\ size' = [size EXCEPT ![p] = 0]
  /\ addFilled(-size[p])
  /\ resident' = resident \ {p}

-----------------------------------------------------------------------------
(* The torrent library.  Cache.Piece hands out the piece; the write comes  *)
(* later and does not look at the cache again.                             *)

Piece(w, p) ==
  /\ pc[w] = "idle"
  /\ hasPieces
  /\ p \in Written
  /\ at' = [at EXCEPT ![w] = p]
  /\ Goto(w, "write")
  /\ UNCHANGED <<store, env, flags, isClosed, hasPieces, pieceMu, pass>>

\* Mutant: the fill grows by what was written, not by what the piece gained.
grow_countsOverwrites(p, n) ==
  LET newSize == IF size[p] + n > PieceLength THEN PieceLength ELSE size[p] + n
  IN  /\ size' = [size EXCEPT ![p] = newSize]
      /\ addFilled(n)
      /\ resident' = IF hasPieces /\ newSize > 0 THEN resident \cup {p} ELSE resident

\* Both WriteAt: the piece grows by n chunks.
grow(p, n) ==
  LET newSize == IF size[p] + n > PieceLength THEN PieceLength ELSE size[p] + n
  IN  /\ size' = [size EXCEPT ![p] = newSize]
      /\ addFilled(newSize - size[p])
      /\ resident' = IF hasPieces /\ size[p] = 0 /\ newSize > 0
                       THEN resident \cup {p} ELSE resident

\* n counts the chunks the write has to allocate; overwriting allocates none.
MemWriteAt(w, n) ==
  /\ ~useDisk
  /\ pc[w] = "write"
  /\ pieceMu[at[w]] = NoThread
  /\ grow(at[w], n)
  /\ \/ /\ Goto(w, "idle")
        /\ UNCHANGED queued
     \/ /\ ~isClosed /\ ~queued /\ n > 0 /\ size[at[w]] < PieceLength
        /\ queued' = TRUE
        /\ pc' = [pc EXCEPT ![w] = "idle", ![Cleaner] = "clean"]
  /\ at' = [at EXCEPT ![w] = NoPiece]
  /\ UNCHANGED <<env, isClosed, hasPieces, running, pending, pieceMu, pass>>

\* On its first write a disk piece cleans up synchronously, with its own mutex
\* held; the mutex is given up when CleanPieces has returned.  A write whose file
\* cannot be opened, or which fails after n chunks, cleans up nothing.
DiskWriteAt(w, n) ==
  /\ useDisk
  /\ pc[w] = "write"
  /\ pieceMu[at[w]] = NoThread
  /\ grow(at[w], n)
  /\ \/ /\ n > 0 /\ size[at[w]] = 0
        /\ pieceMu' = [pieceMu EXCEPT ![at[w]] = w]
        /\ Goto(w, "clean")
        /\ UNCHANGED at
     \/ \* A later write, or an error.
        /\ Goto(w, "idle")
        /\ at' = [at EXCEPT ![w] = NoPiece]
        /\ UNCHANGED pieceMu
  /\ UNCHANGED <<env, flags, isClosed, hasPieces, pass>>

\* ReadAt of a piece that holds data; a read up to its end asks for a cleanup.
ReadAt(p) ==
  /\ size[p] > 0
  /\ pieceMu[p] = NoThread
  /\ queueCleanPieces
  /\ UNCHANGED <<store, env, isClosed, hasPieces, running,
                 pending, pieceMu, at, pass>>

\* Reader.Read of a piece that is not complete: the library waits for it while
\* the reader's mutex is held.
Read(p) ==
  /\ hasPieces
  /\ awaits = NoPiece
  /\ p \in Awaited[useDisk] \cap protected
  /\ size[p] < PieceLength
  /\ awaits' = p
  /\ UNCHANGED <<useDisk, capacity, protected, store, flags, isClosed, hasPieces,
                 pieceMu, pc, at, pass>>

readEnds ==
  /\ awaits' = NoPiece
  /\ UNCHANGED <<useDisk, capacity, protected, store, flags, isClosed, hasPieces,
                 pieceMu, pc, at, pass>>

\* The library answers when the piece is complete, which takes the return of
\* every write of it, or when the torrent is dropped.
ReadReturns ==
  /\ awaits # NoPiece
  /\ \/ size[awaits] = PieceLength /\ \A w \in Writers : at[w] # awaits
     \/ isClosed
  /\ readEnds

\* The context of the request is cancelled: the client has gone.
ReadCancelled == awaits # NoPiece /\ readEnds

\* The windows after some reader has moved; a blocked one stays where it is.
newWindow ==
  /\ protected' \in Windows[useDisk]
  /\ awaits # NoPiece => awaits \in protected'

\* Reader.Close asks for a cleanup: its window no longer protects anything.
ReaderClose ==
  /\ newWindow
  /\ queueCleanPieces
  /\ UNCHANGED <<useDisk, store, capacity, awaits, isClosed, hasPieces, running, pending,
                 pieceMu, at, pass>>

-----------------------------------------------------------------------------
(* CleanPieces, for a writer of a disk piece or for the queued goroutine.  *)

\* The caller goes on: a writer unlocks its piece, the goroutine ends.
callEnds(t) ==
  IF t = Cleaner
    THEN queued' = FALSE /\ UNCHANGED <<pieceMu, at>>
    ELSE /\ pieceMu' = [pieceMu EXCEPT ![at[t]] = NoThread]
         /\ at' = [at EXCEPT ![t] = NoPiece]
         /\ UNCHANGED queued

return(t) == Goto(t, "idle") /\ callEnds(t)

CleanPieces(t) ==
  /\ pc[t] = "clean"
  /\ IF needsCleanup
       THEN Goto(t, "lock") /\ UNCHANGED <<queued, pieceMu, at>>
       ELSE return(t)
  /\ UNCHANGED <<store, env, running, pending, isClosed, hasPieces, pass>>

\* Mutant: the running flag is not tested.
lockCleanup_untested(t) ==
  /\ pc[t] = "lock"
  /\ running' = TRUE /\ pending' = FALSE
  /\ Goto(t, "pass")
  /\ UNCHANGED <<store, env, queued, isClosed, hasPieces, pieceMu, at, pass>>

\* Under cleanup.mu: become the runner, or ask for another pass and wait.
lockCleanup(t) ==
  /\ pc[t] = "lock"
  /\ \/ /\ ~running
        /\ running' = TRUE /\ pending' = FALSE
        /\ Goto(t, "pass")
        /\ UNCHANGED <<queued, pieceMu, at>>
     \/ /\ running
        /\ pending' = TRUE
        /\ IF isClosed THEN return(t)
                       ELSE Goto(t, "wait") /\ UNCHANGED <<queued, pieceMu, at>>
        /\ UNCHANGED running
  /\ UNCHANGED <<store, env, isClosed, hasPieces, pass>>

\* cond.Wait returned: check the condition again.
wakeUp(t) ==
  /\ pc[t] = "woken"
  /\ IF running /\ ~isClosed
       THEN Goto(t, "wait") /\ UNCHANGED <<queued, pieceMu, at>>
       ELSE return(t)
  /\ UNCHANGED <<store, env, running, pending, isClosed, hasPieces, pass>>

\* Mutant: the fill is not compared with the capacity again, and the number of
\* pieces is rounded up twice.
passStart_roundsTwice(t) ==
  /\ pc[t] = "pass"
  /\ pass' = [pass EXCEPT ![t] =
                [NoPass EXCEPT
                   !.rems = (filled - capacity + PieceLength) \div PieceLength + 1,
                   !.before = filled, !.limit = capacity]]
  /\ Goto(t, "collect")
  /\ UNCHANGED <<store, env, flags, isClosed, hasPieces, pieceMu, at>>

\* cleanPiecesPass reads filled and decides how many pieces have to go.
passStart(t) ==
  /\ pc[t] = "pass"
  /\ IF filled <= capacity
       THEN pass' = [pass EXCEPT ![t] = NoPass] /\ Goto(t, "finish")
       ELSE /\ pass' = [pass EXCEPT ![t] =
                          [NoPass EXCEPT
                             !.rems = (filled - capacity) \div PieceLength + 1,
                             !.before = filled, !.limit = capacity]]
            /\ Goto(t, "collect")
  /\ UNCHANGED <<store, env, flags, isClosed, hasPieces, pieceMu, at>>

\* getRemPieces: the resident pieces no reader protects.  The code sorts them
\* by Piece.Accessed, in seconds; every order is considered here.
removable == {p \in resident : size[p] > 0 /\ p \notin protected}

\* checkReader locks every reader of the cache first: the pass waits for a Read
\* that is blocked.
passCollect(t) ==
  /\ pc[t] = "collect"
  /\ awaits = NoPiece
  /\ pass' = [pass EXCEPT ![t].cand = removable]
  /\ Goto(t, "evict")
  /\ UNCHANGED <<store, env, flags, isClosed, hasPieces, pieceMu, at>>

\* The next piece; removePiece looks whether the cache is closed, then waits for
\* the piece mutex.
passPick(t) ==
  /\ pc[t] = "evict"
  /\ pass[t].rems > 0
  /\ \E p \in pass[t].cand :
       pass' = [pass EXCEPT ![t].rems = @ - 1,
                            ![t].target = IF isClosed THEN NoPiece ELSE p,
                            ![t].cand = @ \ {p}]
  /\ Goto(t, IF isClosed THEN "evict" ELSE "remove")
  /\ UNCHANGED <<store, env, flags, isClosed, hasPieces, pieceMu, at>>

passRemove(t) ==
  /\ pc[t] = "remove"
  /\ pieceMu[pass[t].target] = NoThread
  /\ releasePiece(pass[t].target)
  /\ pass' = [pass EXCEPT ![t].target = NoPiece]
  /\ Goto(t, "evict")
  /\ UNCHANGED <<env, flags, isClosed, hasPieces, pieceMu, at>>

\* Enough pieces are gone, or none is left: did the fill go down?
passEnd(t) ==
  /\ pc[t] = "evict"
  /\ pass[t].rems <= 0 \/ pass[t].cand = {}
  /\ pass' = [pass EXCEPT ![t] = [NoPass EXCEPT !.progress = pass[t].before > filled]]
  /\ Goto(t, "finish")
  /\ UNCHANGED <<store, env, flags, isClosed, hasPieces, pieceMu, at>>

\* Mutant: nobody is woken when the runner leaves.
finishPass_noBroadcast(t) ==
  /\ pc[t] = "finish"
  /\ pass' = [pass EXCEPT ![t] = NoPass]
  /\ running' = FALSE /\ pending' = FALSE
  /\ Goto(t, "idle")
  /\ callEnds(t)
  /\ UNCHANGED <<store, env, isClosed, hasPieces>>

\* Mutant: passes go on while the cache is over capacity, progress or not.
finishPass_untilClean(t) ==
  LET woken == [u \in Threads |-> IF pc[u] = "wait" THEN "woken" ELSE pc[u]]
  IN  /\ pc[t] = "finish"
      /\ pass' = [pass EXCEPT ![t] = NoPass]
      /\ pending' = FALSE
      /\ IF needsCleanup
           THEN Goto(t, "pass") /\ UNCHANGED <<running, queued, pieceMu, at>>
           ELSE /\ running' = FALSE
                /\ pc' = [woken EXCEPT ![t] = "idle"]
                /\ callEnds(t)
      /\ UNCHANGED <<store, env, isClosed, hasPieces>>

\* Under cleanup.mu: another pass, or hand over and wake everybody.
finishPass(t) ==
  LET woken == [u \in Threads |-> IF pc[u] = "wait" THEN "woken" ELSE pc[u]]
  IN  /\ pc[t] = "finish"
      /\ pass' = [pass EXCEPT ![t] = NoPass]
      /\ pending' = FALSE
      /\ IF pass[t].progress /\ pending /\ needsCleanup
           THEN Goto(t, "pass") /\ UNCHANGED <<running, queued, pieceMu, at>>
           ELSE /\ running' = FALSE
                /\ pc' = [woken EXCEPT ![t] = "idle"]
                /\ callEnds(t)
      /\ UNCHANGED <<store, env, isClosed, hasPieces>>

-----------------------------------------------------------------------------
(* Cache.Close: mark, release the memory pieces one by one, forget.        *)

CloseMark ==
  /\ pc[Closer] = "idle" /\ ~isClosed
  /\ isClosed' = TRUE
  /\ Goto(Closer, IF useDisk THEN "unregister" ELSE "release")
  /\ pass' = [pass EXCEPT ![Closer].cand = Pieces]
  /\ UNCHANGED <<store, env, flags, hasPieces, pieceMu, at>>

\* releaseInMemoryPieces
CloseRelease ==
  /\ pc[Closer] = "release"
  /\ \E p \in pass[Closer].cand :
       /\ pieceMu[p] = NoThread
       /\ releasePiece(p)
       /\ pass' = [pass EXCEPT ![Closer].cand = @ \ {p}]
       /\ Goto(Closer, IF pass[Closer].cand = {p} THEN "unregister" ELSE "release")
  /\ UNCHANGED <<env, flags, isClosed, hasPieces, pieceMu, at>>

\* unregisterMetrics swaps filled to zero.
CloseUnregister ==
  /\ pc[Closer] = "unregister"
  /\ filled' = 0
  /\ Goto(Closer, "forget")
  /\ UNCHANGED <<size, resident, env, flags, isClosed, hasPieces,
                 pieceMu, at, pass>>

\* The resident index and the map of pieces become nil.
CloseForget ==
  /\ pc[Closer] = "forget"
  /\ resident' = {}
  /\ hasPieces' = FALSE
  /\ Goto(Closer, "closed")
  /\ UNCHANGED <<size, filled, env, flags, isClosed, pieceMu, at, pass>>

-----------------------------------------------------------------------------
(* Readers and the capacity move on their own. *)

MoveWindow ==
  /\ newWindow
  /\ UNCHANGED <<useDisk, store, flags, capacity, awaits, isClosed, hasPieces, pieceMu,
                 pc, at, pass>>

SetCapacity(cap) ==
  /\ ~isClosed
  /\ cap - capacity >= PieceLength \/ capacity - cap >= PieceLength
  /\ capacity' = cap
  /\ IF cap < capacity THEN queueCleanPieces ELSE UNCHANGED <<queued, pc>>
  /\ UNCHANGED <<useDisk, store, protected, awaits, isClosed, hasPieces, running, pending,
                 pieceMu, at, pass>>

\* AdjustRA ties the capacity to the readahead and asks for no cleanup.
AdjustRA(cap) ==
  /\ capacity' = cap
  /\ UNCHANGED <<useDisk, store, flags, protected, awaits, isClosed, hasPieces, pieceMu,
                 pc, at, pass>>

-----------------------------------------------------------------------------
CleanStep(t) ==
  \/ CleanPieces(t) \/ lockCleanup(t) \/ wakeUp(t)
  \/ passStart(t) \/ passCollect(t) \/ passPick(t)
  \/ passRemove(t) \/ passEnd(t) \/ finishPass(t)

Close == CloseMark \/ CloseRelease \/ CloseUnregister \/ CloseForget

Next ==
  \/ \E w \in Writers :
       \/ \E p \in Pieces : Piece(w, p)
       \/ \E n \in 0 .. PieceLength : MemWriteAt(w, n) \/ DiskWriteAt(w, n)
  \/ \E p \in Pieces : ReadAt(p) \/ Read(p)
  \/ ReadReturns \/ ReadCancelled
  \/ ReaderClose
  \/ \E t \in Threads : CleanStep(t)
  \/ Close
  \/ MoveWindow
  \/ \E cap \in Capacities : SetCapacity(cap) \/ AdjustRA(cap)

Spec == Init /\ [][Next]_vars

\* Goroutines inside a write, a cleanup or a Close keep running; a writer that
\* waits for the mutex of its piece gets it (Go mutexes do not starve a waiter).
Fairness ==
  /\ \A w \in Writers :
       SF_vars(\E n \in 0 .. PieceLength : MemWriteAt(w, n) \/ DiskWriteAt(w, n))
  /\ \A t \in Writers \cup {Cleaner} : WF_vars(CleanStep(t))
  /\ WF_vars(ReadReturns)
  /\ WF_vars(CloseRelease \/ CloseUnregister \/ CloseForget)

FairSpec == Spec /\ Fairness

-----------------------------------------------------------------------------
(* Properties. *)

PC == {"idle", "write", "clean", "lock", "wait", "woken", "pass", "collect",
       "evict", "remove", "finish", "release", "unregister", "forget", "closed"}

\* The chunks that pieces of these sizes hold, and their number.
Held(sizes) == {c \in Pieces \X (1 .. PieceLength) : c[2] <= sizes[c[1]]}
Bytes == Cardinality(Held(size))

\* The locals of cleanPiecesPass.
Passes == [rems : Nat, before : Nat, limit : Nat, progress : BOOLEAN,
           target : Pieces \cup {NoPiece}, cand : SUBSET Pieces]

FlagsOK ==
  /\ isClosed \in BOOLEAN /\ hasPieces \in BOOLEAN
  /\ running \in BOOLEAN /\ pending \in BOOLEAN /\ queued \in BOOLEAN

\* Every variable has its type (Cache, Piece and the locals of cleanPiecesPass).
TypeOK ==
  /\ FlagsOK
  /\ useDisk \in Modes
  /\ size \in [Pieces -> 0 .. PieceLength] /\ filled \in Nat
  /\ resident \subseteq Pieces /\ protected \subseteq Pieces
  /\ capacity \in Capacities
  /\ awaits \in Pieces \cup {NoPiece}
  /\ pieceMu \in [Pieces -> Threads \cup {NoThread}]
  /\ pc \in [Threads -> PC]
  /\ at \in [Threads -> Pieces \cup {NoPiece}]
  /\ pass \in [Threads -> Passes]

\* The fill counter that decides on eviction is exactly what the pieces hold
\* while the cache lives; after Close it never claims more than they hold.
FilledExact ==
  /\ filled \in 0 .. Bytes
  /\ pc[Closer] \notin {"forget", "closed"} => filled = Bytes

\* The resident index misses no piece that could be evicted and lists none
\* that holds nothing.
ResidentExact == hasPieces => resident = {p \in Pieces : size[p] > 0}

\* Eviction decides on true numbers.
AccountsExact == FilledExact /\ ResidentExact

Runners == {t \in Threads : pc[t] \in {"pass", "collect", "evict", "remove", "finish"}}

\* Two passes never run at once, and the running flag is neither leaked by a
\* path out of CleanPieces nor dropped while a pass runs.
OneRunner ==
  /\ Cardinality(Runners) <= 1
  /\ running <=> Runners # {}

\* Nobody waits on the condition variable without a runner who will wake it:
\* Close itself does not broadcast.
WaitersHaveRunner == (\E t \in Threads : pc[t] = "wait") => running

\* Passes come one after the other, and each wakes those who wait for it.
PassesSerial == OneRunner /\ WaitersHaveRunner

\* A pass that is evicting never throws a piece away while the cache is below
\* the capacity the pass started from, however writers and readers move.
NoOverEviction ==
  [][\A t \in Threads :
       (pc[t] = "remove" /\ pc'[t] = "evict" /\ ~isClosed)
         => filled >= pass[t].limit]_vars

\* Every call of WriteAt and CleanPieces returns, unless other goroutines start
\* one cleanup after the other forever: a goroutine woken from the condition
\* variable goes back to sleep when the next runner was quicker.  Only the
\* background cleaner may wait as long as Reads wait for their data; a write,
\* which brings that data, never may.
CallsReturn ==
  LET Callers == Writers \cup {Cleaner}
      KeepsCleaning(u) == []<>(pc[u] = "pass") /\ []<>(pc[u] = "idle")
  IN  \A t \in Callers :
        \/ []<>(pc[t] = "idle")
        \/ \E u \in Callers \ {t} : KeepsCleaning(u)
        \/ t = Cleaner /\ []<>(awaits # NoPiece)
=============================================================================
