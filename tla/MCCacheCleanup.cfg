\* A memory cache with a reader that comes, goes and waits for data, or a disk
\* cache whose reader covers the pieces being written and finds its data there:
\* writers, cleanups and Close.
CONSTANTS
  p1 = p1  p2 = p2  p3 = p3  w1 = w1  w2 = w2
  Writers = {w1, w2}
  Cleaner = cleaner
  Closer = closer
  Pieces = {p1, p2, p3}
  NoThread = NoThread
  NoPiece = NoPiece
  Modes = {TRUE, FALSE}
  PieceLength = 1
  Capacities = {1, 2}
  OnDisk = {p3}
  Written = {p1, p2}
  Windows <- ReaderWindows
  Awaited <- MemoryWaits
SPECIFICATION FairSpec
INVARIANTS AccountsExact PassesSerial
PROPERTIES NoOverEviction CallsReturn
