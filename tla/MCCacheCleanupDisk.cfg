\* Disk cache over capacity: the reader waits, with its mutex held, for a piece
\* whose first write cleans up and waits for that mutex.
CONSTANTS
  p1 = p1  p2 = p2  p3 = p3  w1 = w1  w2 = w2
  Writers = {w1}
  Cleaner = cleaner
  Closer = closer
  Pieces = {p1, p2, p3}
  NoThread = NoThread
  NoPiece = NoPiece
  Modes = {TRUE}
  PieceLength = 2
  Capacities = {2}
  OnDisk = {p3}
  Written = {p1}
  Windows <- DiskWindow
  Awaited <- DiskWaits
SPECIFICATION FairSpec
PROPERTY CallsReturn
