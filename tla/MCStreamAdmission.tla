-------------------------- MODULE MCStreamAdmission --------------------------
(* Instances of StreamAdmission for TLC. *)
EXTENDS StreamAdmission, TLC

Config(streams, torrents, queueSize, debug) ==
  [MaxConcurrentStreams |-> streams, MaxUniquePlaybackTorrents |-> torrents,
   StreamQueueSize |-> queueSize, EnableDebug |-> debug]

\* The settings change between two stream limits and queue sizes, one of them
\* left to the default of currentAdmission; one torrent at a time.
TwoConfigs == {Config(0, 1, 1, FALSE), Config(1, 1, 2, TRUE)}
=============================================================================
