--------------------------- MODULE CachePriority ---------------------------
(***************************************************************************)
(* Download priorities of the pieces of one cache (cache_priority.go,      *)
(* piece.go), while readers come and go and pieces arrive and are evicted. *)
(*                                                                         *)
(* priority is what the library was told; tracked is the cache's own map,  *)
(* under priorities.mu.  An update and a delayed clearing take a snapshot  *)
(* of the readers first and work on it afterwards.  Priorities the library *)
(* derives from its own readers are left out.                              *)
(***************************************************************************)
EXTENDS CacheNumbers

CONSTANTS
  PriorityReaders,
  LastPiece,             \* pieces are numbered from 0
  Backward, Forward,     \* the window of a reader, in pieces
  ReadaheadPieces,       \* its readahead
  ConnectionsLimit,      \* NetworkConfig.ConnectionsLimit
  FileEnd                \* piece number of the end of the file

ASSUME PriorityAssumption ==
  /\ LastPiece \in Nat /\ Backward \in Nat /\ Forward \in Nat
  /\ ReadaheadPieces \in Nat /\ ConnectionsLimit \in Int
  /\ FileEnd \in {LastPiece, LastPiece + 1}

PriorityPieces == 0..LastPiece

VARIABLES
  position,      \* piece each open reader is at, -1 when closed
  complete,      \* pieces that are complete
  priority,      \* library: priority of each piece
  tracked,       \* priorities.pieces: what was set, -1 when untracked
  update,        \* the goroutine of queuePriorityUpdate
  clearing,      \* the timer function runClearPriority
  clearArmed,    \* clearTimer is running
  beforeTimer,   \* goroutines that had their snapshot when the timer was set
  releasing,     \* pieces between the two steps of syncTorrentPieceAfterRelease
  priorityClosed \* isClosed

priorityVars == <<position, complete, priority, tracked, update, clearing, clearArmed,
                  beforeTimer, releasing, priorityClosed>>

Untracked == [p \in PriorityPieces |-> -1]
NothingDesired == [p \in PriorityPieces |-> PriorityNone]
Resting == [pc |-> "idle", at |-> {}, desired |-> NothingDesired]

PriorityInit ==
  /\ position = [r \in PriorityReaders |-> -1]
  /\ complete = {}
  /\ priority = [p \in PriorityPieces |-> PriorityNone]
  /\ tracked = Untracked
  /\ update = Resting /\ clearing = Resting
  /\ clearArmed = FALSE /\ beforeTimer = {}
  /\ releasing = {} /\ priorityClosed = FALSE

openReaders == {r \in PriorityReaders : position[r] # -1}

\* The first incomplete pieces of a window, as many as the budget allows; its last
\* piece is not one of them.
chosen(at, budget) ==
  {p \in PriorityPieces \ complete :
     /\ at.pos <= p /\ p < at.end
     /\ Cardinality((at.pos..(p - 1)) \ complete) < budget}

desiredPriorities(snapshot) ==
  LET budget == priorityPieceBudget(ConnectionsLimit, Cardinality(snapshot))
      wanting(p) == {at \in snapshot : p \in chosen(at, budget)}
  IN  [p \in PriorityPieces |->
         IF wanting(p) = {} THEN PriorityNone
         ELSE Max({desiredPiecePriority(p, at) : at \in wanting(p)})]

-----------------------------------------------------------------------------
(* Readers and pieces.                                                     *)

\* NewReader, Read and Seek.
MoveReader(r) ==
  /\ ~priorityClosed
  /\ \E p \in PriorityPieces : p # position[r] /\ position' = [position EXCEPT ![r] = p]
  /\ UNCHANGED <<complete, priority, tracked, update, clearing, clearArmed, beforeTimer,
                 releasing, priorityClosed>>

\* clearPriorityAsync: the timer is set anew.  What had taken its snapshot by then
\* takes far less than the second until it fires.
armClear ==
  /\ clearArmed' = TRUE
  /\ beforeTimer' = {g \in {"update", "clear"} :
       LET pc == IF g = "update" THEN update.pc ELSE clearing.pc
       IN  pc \in {"clear", "desired", "apply"}}

\* Mutant: only the reader is forgotten.
ClosePriorityReader_noTimer(r) ==
  /\ position[r] # -1
  /\ position' = [position EXCEPT ![r] = -1]
  /\ UNCHANGED <<complete, priority, tracked, update, clearing, clearArmed, beforeTimer,
                 releasing, priorityClosed>>

\* CloseReader.
ClosePriorityReader(r) ==
  /\ position[r] # -1
  /\ position' = [position EXCEPT ![r] = -1]
  /\ armClear
  /\ UNCHANGED <<complete, priority, tracked, update, clearing, releasing,
                 priorityClosed>>

PieceArrives(p) ==
  /\ ~priorityClosed
  /\ p \notin complete /\ complete' = complete \cup {p}
  /\ UNCHANGED <<position, priority, tracked, update, clearing, clearArmed, beforeTimer,
                 releasing, priorityClosed>>

\* Piece.Release and syncTorrentPieceAfterRelease: the piece is untracked, and only
\* then the library is told.
ReleasePiece(p) ==
  /\ ~priorityClosed
  /\ p \in complete /\ p \notin releasing
  /\ complete' = complete \ {p}
  /\ tracked' = [tracked EXCEPT ![p] = -1]
  /\ releasing' = releasing \cup {p}
  /\ UNCHANGED <<position, priority, update, clearing, clearArmed, beforeTimer,
                 priorityClosed>>

\* Mutant: the priority of an evicted piece is left as it is.
ClearReleased_keep(p) ==
  /\ p \in releasing
  /\ releasing' = releasing \ {p}
  /\ UNCHANGED <<position, complete, priority, tracked, update, clearing, clearArmed,
                 beforeTimer, priorityClosed>>

ClearReleased(p) ==
  /\ p \in releasing
  /\ releasing' = releasing \ {p}
  /\ priority' = [priority EXCEPT ![p] = PriorityNone]
  /\ UNCHANGED <<position, complete, tracked, update, clearing, clearArmed, beforeTimer,
                 priorityClosed>>

-----------------------------------------------------------------------------
(* The update and the clearing.                                            *)

At(r) == [reader |-> r, pos |-> position[r], rah |-> position[r] + ReadaheadPieces,
          start |-> Max({0, position[r] - Backward}),
          end |-> Min({FileEnd, position[r] + Forward})]

\* snapshotActiveReaders: a reader idle for long is left out unless it is the only one.
Snapshots ==
  {{At(r) : r \in A} : A \in IF Cardinality(openReaders) > 1 THEN SUBSET openReaders
                             ELSE {openReaders}}

inSnapshot(snapshot, p) == \E at \in snapshot : InRange(at, p)

\* clearPrioritiesOutsideRanges, under priorities.mu.
clearOutside(snapshot) ==
  LET out == {p \in PriorityPieces : tracked[p] # -1 /\ ~inSnapshot(snapshot, p)}
  IN  /\ priority' = [p \in PriorityPieces |->
                        IF p \in out THEN PriorityNone ELSE priority[p]]
      /\ tracked' = [p \in PriorityPieces |-> IF p \in out THEN -1 ELSE tracked[p]]

\* queuePriorityUpdate; one within a second of the last is dropped.
QueueUpdate ==
  /\ ~priorityClosed
  /\ update.pc = "idle"
  /\ update' = [Resting EXCEPT !.pc = "snapshot"]
  /\ UNCHANGED <<position, complete, priority, tracked, clearing, clearArmed,
                 beforeTimer, releasing, priorityClosed>>

UpdateSnapshot ==
  /\ update.pc = "snapshot"
  /\ \E s \in Snapshots :
       update' = IF s = {} THEN Resting
                 ELSE [pc |-> "clear", at |-> s, desired |-> NothingDesired]
  /\ UNCHANGED <<position, complete, priority, tracked, clearing, clearArmed,
                 beforeTimer, releasing, priorityClosed>>

UpdateClear ==
  /\ update.pc = "clear"
  /\ update' = [update EXCEPT !.pc = "desired"]
  /\ clearOutside(update.at)
  /\ UNCHANGED <<position, complete, clearing, clearArmed, beforeTimer, releasing,
                 priorityClosed>>

UpdateDesired ==
  /\ update.pc = "desired"
  /\ update' = [update EXCEPT !.pc = "apply", !.desired = desiredPriorities(update.at)]
  /\ UNCHANGED <<position, complete, priority, tracked, clearing, clearArmed,
                 beforeTimer, releasing, priorityClosed>>

\* applyDesiredPriorities: what is tracked or desired ends as desired.
UpdateApply ==
  /\ update.pc = "apply"
  /\ update' = Resting /\ beforeTimer' = beforeTimer \ {"update"}
  /\ LET want == update.desired
     IN  /\ priority' = [p \in PriorityPieces |->
              IF tracked[p] # -1 \/ want[p] # PriorityNone THEN want[p] ELSE priority[p]]
         /\ tracked' = [p \in PriorityPieces |->
              IF want[p] # PriorityNone THEN want[p] ELSE -1]
  /\ UNCHANGED <<position, complete, clearing, clearArmed, releasing, priorityClosed>>

\* runClearPriority and clearPriority.
ClearFires ==
  /\ clearArmed /\ beforeTimer = {}
  /\ clearArmed' = FALSE
  /\ clearing' = IF clearing.pc = "idle"
                   THEN [Resting EXCEPT !.pc = "snapshot"] ELSE clearing
  /\ UNCHANGED <<position, complete, priority, tracked, update, beforeTimer, releasing,
                 priorityClosed>>

ClearSnapshot ==
  /\ clearing.pc = "snapshot"
  /\ \E s \in Snapshots : clearing' = [Resting EXCEPT !.pc = "clear", !.at = s]
  /\ UNCHANGED <<position, complete, priority, tracked, update, clearArmed, beforeTimer,
                 releasing, priorityClosed>>

ClearApply ==
  /\ clearing.pc = "clear"
  /\ clearing' = Resting /\ beforeTimer' = beforeTimer \ {"clear"}
  /\ clearOutside(clearing.at)
  /\ UNCHANGED <<position, complete, update, clearArmed, releasing, priorityClosed>>

\* Cache.Close: the library drops the torrent with its priorities, and goroutines that
\* still run find torrentPriorityAPI gone and do nothing.
ClosePriorities ==
  /\ ~priorityClosed
  /\ priorityClosed' = TRUE
  /\ tracked' = Untracked
  /\ update' = Resting /\ clearing' = Resting
  /\ clearArmed' = FALSE /\ beforeTimer' = {} /\ releasing' = {}
  /\ position' = [r \in PriorityReaders |-> -1]       \* readers.items = nil
  /\ UNCHANGED <<complete, priority>>

UpdateStep == UpdateSnapshot \/ UpdateClear \/ UpdateDesired \/ UpdateApply

ClearStep == ClearSnapshot \/ ClearApply

PrioritiesNext ==
  \/ \E r \in PriorityReaders : MoveReader(r) \/ ClosePriorityReader(r)
  \/ \E p \in PriorityPieces : PieceArrives(p) \/ ReleasePiece(p) \/ ClearReleased(p)
  \/ QueueUpdate \/ ClosePriorities
  \/ UpdateStep
  \/ ClearFires \/ ClearStep

PrioritySpec == PriorityInit /\ [][PrioritiesNext]_priorityVars

Windows == [reader : PriorityReaders, pos : Int, rah : Int, start : Int, end : Int]
Work == [pc : {"idle", "snapshot", "clear", "desired", "apply"}, at : SUBSET Windows,
         desired : [PriorityPieces -> PriorityNone .. PriorityNow]]

PriorityData ==
  /\ position \in [PriorityReaders -> PriorityPieces \cup {-1}]
  /\ complete \subseteq PriorityPieces /\ releasing \subseteq PriorityPieces
  /\ priority \in [PriorityPieces -> PriorityNone .. PriorityNow]
  /\ tracked \in [PriorityPieces -> (PriorityNone .. PriorityNow) \cup {-1}]
  /\ update \in Work /\ clearing \in Work
  /\ beforeTimer \subseteq {"update", "clear"}

PriorityTypeOK ==
  /\ PriorityData
  /\ clearArmed \in BOOLEAN /\ priorityClosed \in BOOLEAN

-----------------------------------------------------------------------------
\* A piece whose priority was raised is tracked, so that an update or the clearing will
\* find it: eviction, which untracks a piece before it tells the library, may not lose
\* one between an update's two halves (piece.go:97, cache_priority.go:351).
RaisedTracked ==
  priorityClosed \/ \A p \in PriorityPieces \ releasing :
                       priority[p] # PriorityNone => tracked[p] # -1

\* When the last reader of a torrent has gone, its pieces are no longer wanted: all
\* raised priorities fall again, although updates and clearings work on snapshots they
\* took before (cache_priority.go:502).
PrioritiesFall ==
  (openReaders = {} /\ ~priorityClosed)
    ~> (openReaders # {} \/ priorityClosed
          \/ \A p \in PriorityPieces : priority[p] = PriorityNone)

=============================================================================
