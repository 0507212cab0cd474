--------------------------- MODULE MCCacheCleanup ---------------------------
(***************************************************************************)
(* Small instances of CacheCleanup for TLC.                                *)
(***************************************************************************)
EXTENDS CacheCleanup, TLC

CONSTANTS p1, p2, p3, w1, w2

\* The reader of a memory cache comes and goes; the one of a disk cache stays
\* on the pieces being written.
ReaderWindows == [disk \in Modes |-> IF disk THEN {{p1, p2}} ELSE {{}, {p1}}]

\* Only the reads of a memory cache may have to wait for their data.
MemoryWaits == [disk \in Modes |-> IF disk THEN {} ELSE {p1}]

\* One reader of a disk cache, which may wait for a piece of its window.
DiskWindow == [disk \in Modes |-> {{p1, p2}}]
DiskWaits == [disk \in Modes |-> {p1}]
=============================================================================
