----------------------------- MODULE StreamSlots -----------------------------
(***************************************************************************)
(* What stream admission promises, with no counter in sight: which request *)
(* streams which torrent, and which requests stand in the wait queue.  A   *)
(* request is let in only while the limits of the settings it arrived with *)
(* leave room for it.  StreamAdmission, the model of                       *)
(* server/torr/stream_admission.go, is shown to implement this module.     *)
(***************************************************************************)
EXTENDS Naturals, FiniteSets

CONSTANTS
  Requests,    \* concurrent HTTP playback requests
  Keys,        \* torrent hashes
  NoTorrent,   \* what a request streams while it has no slot
  Admissions   \* the limits a request may have been given

VARIABLES
  holds,       \* holds[r]: the torrent r streams, or NoTorrent
  queue        \* the requests that stand in the wait queue

vars == <<holds, queue>>

StreamingNow == {r \in Requests : holds[r] # NoTorrent}
TorrentsNow == {holds[r] : r \in StreamingNow}

Init ==
  /\ holds = [r \in Requests |-> NoTorrent]
  /\ queue = {}

\* A request gets a slot: there is one under its own limits.
Admit(r, k, a) ==
  /\ holds[r] = NoTorrent
  /\ Cardinality(StreamingNow) < a.maxStreams
  /\ \/ a.maxUniqueTorrents = 0
     \/ k \in TorrentsNow
     \/ Cardinality(TorrentsNow) < a.maxUniqueTorrents
  /\ holds' = [holds EXCEPT ![r] = k]
  /\ UNCHANGED queue

Leave(r) ==
  /\ holds[r] # NoTorrent
  /\ holds' = [holds EXCEPT ![r] = NoTorrent]
  /\ UNCHANGED queue

Enqueue(r, a) ==
  /\ r \notin queue
  /\ holds[r] = NoTorrent
  /\ Cardinality(queue) < a.queueSize
  /\ queue' = queue \cup {r}
  /\ UNCHANGED holds

Dequeue(r) ==
  /\ r \in queue
  /\ queue' = queue \ {r}
  /\ UNCHANGED holds

Next ==
  \E r \in Requests :
    \/ \E k \in Keys, a \in Admissions : Admit(r, k, a)
    \/ \E a \in Admissions : Enqueue(r, a)
    \/ Leave(r)
    \/ Dequeue(r)

Spec == Init /\ [][Next]_vars
=============================================================================
