------------------------- MODULE MCTorrentPlayback -------------------------
(***************************************************************************)
(* Instances of TorrentPlayback for TLC: one torrent, one or two clients.  *)
(***************************************************************************)
EXTENDS TorrentPlayback

CONSTANTS c1, c2

\* The invariants are proved for every set of clients; the run with the
\* liveness properties has one client beside the torrent's own goroutines.
OneClient == {c1}
TwoClients == {c1, c2}

\* Which requests the clients of a run make.
Pollers == {"stream", "poll"}
=============================================================================
