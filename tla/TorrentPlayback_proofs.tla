---------------------- MODULE TorrentPlayback_proofs ----------------------
(***************************************************************************)
(* Proofs about TorrentPlayback for any number of clients, any timeouts    *)
(* and any policy.                                                         *)
(***************************************************************************)
EXTENDS TorrentPlayback, TLAPS

\* No step of quiesce, resume, Close or the watch goroutine leaves a flag of
\* the wrapper or of the library without a truth value.
LEMMA FlagsStep ==
  ASSUME TypeOK, Next
  PROVE  FlagsOK'
<1> USE DEF TypeOK, FlagsOK, wrapper, playing, network
<1>1. ASSUME NEW a, CloseForgetCache(a) PROVE FlagsOK'
  BY <1>1, Zenon DEF CloseForgetCache
<1>2. ASSUME NEW a, CloseHash(a) PROVE FlagsOK'
  BY <1>2, Zenon DEF CloseHash
<1>3. ASSUME NEW a, Drop(a) PROVE FlagsOK'
  BY <1>3, Zenon DEF Drop
<1>4. ASSUME NEW a, QuiesceDisallow(a) PROVE FlagsOK'
  BY <1>4, Zenon DEF QuiesceDisallow
<1>5. ASSUME NEW a, QuiesceMark(a) PROVE FlagsOK'
  BY <1>5, Zenon DEF QuiesceMark
<1>6. ASSUME NEW a, RemoveTorrent(a) PROVE FlagsOK'
  BY <1>6, Zenon DEF RemoveTorrent
<1>7. ASSUME NEW a, ResumeAllow(a) PROVE FlagsOK'
  BY <1>7, Zenon DEF ResumeAllow
<1>8. ASSUME NEW a, ResumeSwap(a) PROVE FlagsOK'
  BY <1>8, Zenon DEF ResumeSwap
<1>9. ASSUME NEW a, WaitInfo(a) PROVE FlagsOK'
  BY <1>9, Zenon DEF WaitInfo
<1>10. ASSUME UNCHANGED <<cacheRef, cacheOpen, torrentRef, dropped, registered, allowed, quiesced>>
      PROVE  FlagsOK'
  BY <1>10
<1> QED
  BY <1>1, <1>2, <1>3, <1>4, <1>5, <1>6, <1>7, <1>8, <1>9, <1>10
  DEF Next, Chooses, Proceeds, Resume, QuiesceSteps, Close, Watch, Api,
      ResumeSetMax, ResumeStoreMax, Quiesce, QuiesceZeroMax, QuiesceZeroLast, Shorten, CloseBegin, Acquire, GotInfo, SetWorking, NoInfo, NewReader, OpenReader, CheckLastReader, CanPreload, SetPreload, SetupPreload, PreloadEnd, Stream, StreamStat, GiveUp, Open, EnqueuePreload, ReaderOn, ReaderOff, CloseReader, PreloadTouch, WatchExpiry, WatchStat, WatchReaders, WatchDecide, UpdateRA, UpdateRASetMax, UpdateRAStoreMax, WatchEnd, ApiRemove, ApiDrop, Elapse

\* What the watch goroutine remembers of its reads (torrent_lifecycle.go:181-202)
\* stays a record of two truth values and a status.
LEMMA SeenStep ==
  ASSUME TypeOK, Next
  PROVE  SeenOK'
<1> USE DEF TypeOK, SeenOK
<1>1. CASE WatchExpiry
  <2>1. (expiry = 0) \in BOOLEAN
    OBVIOUS
  <2> QED
    BY <1>1, <2>1 DEF WatchExpiry, NothingSeen
<1>2. CASE WatchStat
  BY <1>2 DEF WatchStat
<1>3. CASE WatchReaders
  <2>1. (cacheRef /\ readers # {}) \in BOOLEAN
    BY DEF FlagsOK
  <2> QED
    BY <1>3, <2>1 DEF WatchReaders
<1>4. CASE WatchDecide
  BY <1>4 DEF WatchDecide, NothingSeen
<1>5. CASE UNCHANGED saw
  BY <1>5
<1> QED
  BY <1>1, <1>2, <1>3, <1>4, <1>5
  DEF Next, Chooses, Proceeds, Resume, QuiesceSteps, Close, Watch, Api, RemoveTorrent,
      ResumeSwap, ResumeAllow, ResumeSetMax, ResumeStoreMax, Quiesce, QuiesceDisallow, QuiesceZeroMax, QuiesceZeroLast, QuiesceMark, Shorten, CloseBegin, CloseHash, CloseForgetCache, Drop, Acquire, GotInfo, WaitInfo, SetWorking, NoInfo, NewReader, OpenReader, CheckLastReader, CanPreload, SetPreload, SetupPreload, PreloadEnd, Stream, StreamStat, GiveUp, Open, EnqueuePreload, ReaderOn, ReaderOff, CloseReader, PreloadTouch, UpdateRA, UpdateRASetMax, UpdateRAStoreMax, WatchEnd, ApiRemove, ApiDrop, Elapse

\* Type correctness is preserved by each step of the model.
LEMMA TypeStep ==
  ASSUME TypeOK, Next
  PROVE  TypeOK'
<1> FlagsOK' /\ SeenOK'
  BY FlagsStep, SeenStep
<1> USE PlaybackAssumption DEF TypeOK, Actors, ClientLabels, OtherLabels, ReturnLabels, wrapper, playing, network,
         At, Go, Call, Return, Finish, Panics, AddExpiredTime, ShortenExpiredTime,
         TouchPlaybackIntent, Idle, TrackHeld
<1>1. ASSUME NEW a \in Actors, ResumeSwap(a), TrackHeld PROVE TypeOK'
  BY <1>1 DEF ResumeSwap
<1>2. ASSUME NEW a \in Actors, ResumeAllow(a), TrackHeld PROVE TypeOK'
  BY <1>2 DEF ResumeAllow
<1>3. ASSUME NEW a \in Actors, ResumeSetMax(a), TrackHeld PROVE TypeOK'
  BY <1>3 DEF ResumeSetMax
<1>4. ASSUME NEW a \in Actors, ResumeStoreMax(a), TrackHeld PROVE TypeOK'
  BY <1>4 DEF ResumeStoreMax
<1>5. ASSUME NEW a \in Clients, Quiesce(a), TrackHeld PROVE TypeOK'
  BY <1>5 DEF Quiesce
<1>6. ASSUME NEW a \in Clients, QuiesceDisallow(a), TrackHeld PROVE TypeOK'
  BY <1>6 DEF QuiesceDisallow
<1>7. ASSUME NEW a \in Clients, QuiesceZeroMax(a), TrackHeld PROVE TypeOK'
  BY <1>7 DEF QuiesceZeroMax
<1>8. ASSUME NEW a \in Clients, QuiesceZeroLast(a), TrackHeld PROVE TypeOK'
  BY <1>8 DEF QuiesceZeroLast
<1>9. ASSUME NEW a \in Clients, QuiesceMark(a), TrackHeld PROVE TypeOK'
  BY <1>9 DEF QuiesceMark
<1>10. ASSUME NEW a \in Clients, Shorten(a), TrackHeld PROVE TypeOK'
  BY <1>10 DEF Shorten
<1>11. ASSUME NEW a \in Actors, CloseBegin(a), TrackHeld PROVE TypeOK'
  BY <1>11 DEF CloseBegin
<1>12. ASSUME NEW a \in Actors, CloseHash(a), TrackHeld PROVE TypeOK'
  BY <1>12 DEF CloseHash
<1>13. ASSUME NEW a \in Actors, CloseForgetCache(a), TrackHeld PROVE TypeOK'
  BY <1>13 DEF CloseForgetCache
<1>14. ASSUME NEW a \in Actors, Drop(a), TrackHeld PROVE TypeOK'
  BY <1>14 DEF Drop
<1>15. ASSUME NEW a \in Clients, Acquire(a), TrackHeld PROVE TypeOK'
  BY <1>15 DEF Acquire
<1>16. ASSUME NEW a \in Clients, GotInfo(a), TrackHeld PROVE TypeOK'
  BY <1>16 DEF GotInfo
<1>17. ASSUME NEW a \in Clients, WaitInfo(a), TrackHeld PROVE TypeOK'
  BY <1>17 DEF WaitInfo
<1>18. ASSUME NEW a \in Clients, SetWorking(a), TrackHeld PROVE TypeOK'
  BY <1>18 DEF SetWorking
<1>19. ASSUME NEW a \in Clients, NoInfo(a), TrackHeld PROVE TypeOK'
  BY <1>19 DEF NoInfo
<1>20. ASSUME NEW a \in Clients, NewReader(a), TrackHeld PROVE TypeOK'
  BY <1>20 DEF NewReader
<1>21. ASSUME NEW a \in Clients, OpenReader(a), TrackHeld PROVE TypeOK'
  BY <1>21 DEF OpenReader
<1>22. ASSUME NEW a \in Clients, CheckLastReader(a), TrackHeld PROVE TypeOK'
  BY <1>22 DEF CheckLastReader
<1>23. ASSUME NEW a \in Clients, CanPreload(a), TrackHeld PROVE TypeOK'
  BY <1>23 DEF CanPreload
<1>24. ASSUME NEW a \in Clients, SetPreload(a), TrackHeld PROVE TypeOK'
  BY <1>24 DEF SetPreload
<1>25. ASSUME NEW a \in Clients, SetupPreload(a), TrackHeld PROVE TypeOK'
  BY <1>25 DEF SetupPreload
<1>26. ASSUME NEW a \in Clients, PreloadEnd(a), TrackHeld PROVE TypeOK'
  BY <1>26 DEF PreloadEnd
<1>27. ASSUME NEW a \in Clients, Stream(a), TrackHeld PROVE TypeOK'
  BY <1>27 DEF Stream
<1>28. ASSUME NEW a \in Clients, StreamStat(a), TrackHeld PROVE TypeOK'
  BY <1>28 DEF StreamStat
<1>29. ASSUME NEW a \in Clients, GiveUp(a), TrackHeld PROVE TypeOK'
  BY <1>29 DEF GiveUp
<1>30. ASSUME NEW a \in Clients, Open(a), TrackHeld PROVE TypeOK'
  BY <1>30 DEF Open
<1>31. ASSUME NEW a \in Clients, EnqueuePreload(a), TrackHeld PROVE TypeOK'
  BY <1>31 DEF EnqueuePreload
<1>32. ASSUME NEW a \in Clients, ReaderOn(a), TrackHeld PROVE TypeOK'
  BY <1>32 DEF ReaderOn
<1>33. ASSUME NEW a \in Clients, ReaderOff(a), TrackHeld PROVE TypeOK'
  BY <1>33 DEF ReaderOff
<1>34. ASSUME NEW a \in Clients, CloseReader(a), TrackHeld PROVE TypeOK'
  BY <1>34 DEF CloseReader
<1>35. ASSUME NEW a \in Clients, PreloadTouch(a), TrackHeld PROVE TypeOK'
  BY <1>35 DEF PreloadTouch
<1>36. ASSUME NEW a \in {"watch", "api"}, RemoveTorrent(a), TrackHeld PROVE TypeOK'
  BY <1>36 DEF RemoveTorrent
<1>37. ASSUME WatchExpiry, TrackHeld PROVE TypeOK'
  BY <1>37 DEF WatchExpiry
<1>38. ASSUME WatchStat, TrackHeld PROVE TypeOK'
  BY <1>38 DEF WatchStat
<1>39. ASSUME WatchReaders, TrackHeld PROVE TypeOK'
  BY <1>39 DEF WatchReaders
<1>40. ASSUME WatchDecide, TrackHeld PROVE TypeOK'
  BY <1>40 DEF WatchDecide
<1>41. ASSUME UpdateRA, TrackHeld PROVE TypeOK'
  BY <1>41 DEF UpdateRA
<1>42. ASSUME UpdateRASetMax, TrackHeld PROVE TypeOK'
  BY <1>42 DEF UpdateRASetMax
<1>43. ASSUME UpdateRAStoreMax, TrackHeld PROVE TypeOK'
  BY <1>43 DEF UpdateRAStoreMax
<1>44. ASSUME WatchEnd, TrackHeld PROVE TypeOK'
  BY <1>44 DEF WatchEnd
<1>45. ASSUME ApiRemove, TrackHeld PROVE TypeOK'
  BY <1>45 DEF ApiRemove
<1>46. ASSUME ApiDrop, TrackHeld PROVE TypeOK'
  BY <1>46 DEF ApiDrop
<1>47. ASSUME Elapse, TrackHeld PROVE TypeOK'
  BY <1>47 DEF Elapse
<1> QED
  BY <1>1, <1>2, <1>3, <1>4, <1>5, <1>6, <1>7, <1>8, <1>9, <1>10, <1>11, <1>12, <1>13, <1>14, <1>15, <1>16, <1>17, <1>18, <1>19, <1>20, <1>21, <1>22, <1>23, <1>24, <1>25, <1>26, <1>27, <1>28, <1>29, <1>30, <1>31, <1>32, <1>33, <1>34, <1>35, <1>36, <1>37, <1>38, <1>39, <1>40, <1>41, <1>42, <1>43, <1>44, <1>45, <1>46, <1>47
  DEF Next, Chooses, Proceeds, Resume, QuiesceSteps, Close, Watch, Api

\* A torrent that has just got its metadata is well typed.
LEMMA TypeInit ==
  ASSUME Init
  PROVE  TypeOK
<1>1. FlagsOK
  BY Zenon DEF Init, FlagsOK
<1>2. SeenOK
  BY DEF Init, SeenOK, NothingSeen
<1> QED
  BY <1>1, <1>2, PlaybackAssumption
  DEF Init, TypeOK, Actors, ClientLabels, OtherLabels, ReturnLabels

\* THEOREM: every reachable state of the wrapper is well typed; the expiry
\* that AddExpiredTime and ShortenExpiredTime move stays within the timeout.
THEOREM TypeCorrect == Spec => []TypeOK
<1>1. Init => TypeOK
  BY TypeInit
<1>2. TypeOK /\ [Next]_vars => TypeOK'
  <2>1. CASE Next
    BY <2>1, TypeStep
  <2>2. CASE UNCHANGED vars
    BY <2>2 DEF vars, wrapper, playing, network, TypeOK, FlagsOK, SeenOK
  <2> QED
    BY <2>1, <2>2
<1> QED
  BY <1>1, <1>2, PTL DEF Spec

-----------------------------------------------------------------------------
\* Somebody is about to set the quiesce flag or to allow downloads.
Recovering == \E a \in Actors : MidQuiesce(a) \/ At(a, "allow")

\* A step that leaves the two flags alone, and moves at most one goroutine
\* that is in none of these places, keeps whoever was recovering there.
LEMMA RecoveringKept ==
  ASSUME TypeOK, Recovering, NEW a \in Actors, NEW l,
         pc' = [pc EXCEPT ![a] = l],
         pc[a] \notin {"allow", "zeroMax", "zeroLast", "markQuiesced"}
  PROVE  Recovering'
<1>1. PICK b \in Actors : MidQuiesce(b) \/ At(b, "allow")
  BY DEF Recovering
<1>2. b # a
  BY <1>1 DEF MidQuiesce, At
<1>3. pc'[b] = pc[b]
  BY <1>2 DEF TypeOK
<1> QED
  BY <1>1, <1>3 DEF Recovering, MidQuiesce, At

\* Quiesce and resume, interleaved in any order with each other and with all
\* other steps, keep a quiesced torrent resumable.
LEMMA QuiesceStep ==
  ASSUME TypeOK, QuiesceRecoverable, Next
  PROVE  QuiesceRecoverable'
<1> USE DEF QuiesceRecoverable
<1>0. QuiesceRecoverable <=> (torrentRef /\ ~allowed => quiesced \/ Recovering)
  BY DEF Recovering
<1>a. (quiesced \/ Recovering)' \/ allowed' \/ ~torrentRef' => QuiesceRecoverable'
  BY DEF Recovering
<1>b. ASSUME NEW a \in Actors, NEW l, pc' = [pc EXCEPT ![a] = l],
             pc[a] \notin {"allow", "zeroMax", "zeroLast", "markQuiesced"},
             UNCHANGED <<allowed, quiesced>>, torrentRef' => torrentRef
      PROVE  QuiesceRecoverable'
  <2>1. CASE Recovering
    BY <1>a, <1>b, <2>1, RecoveringKept
  <2>2. CASE ~Recovering
    BY <1>0, <1>a, <1>b, <2>2
  <2> QED
    BY <2>1, <2>2
<1>c. ASSUME UNCHANGED <<pc, allowed, quiesced, torrentRef>>
      PROVE  QuiesceRecoverable'
  BY <1>c DEF MidQuiesce, At
<1>1. ASSUME NEW a \in Actors, ResumeSwap(a)
      PROVE  QuiesceRecoverable'
  <2>1. CASE ~torrentRef
    BY <1>1, <1>a, <2>1 DEF ResumeSwap, wrapper
  <2>2. CASE torrentRef /\ quiesced
    <3>1. pc' = [pc EXCEPT ![a] = "allow"]
      BY <1>1, <2>2 DEF ResumeSwap, Go
    <3> QED
      BY <1>a, <3>1 DEF TypeOK, Recovering, At
  <2>3. CASE torrentRef /\ ~quiesced
    <3>1. pc' = [pc EXCEPT ![a] = "setMax"] /\ pc[a] = "swap"
      BY <1>1, <2>3 DEF ResumeSwap, Go, At
    <3>2. UNCHANGED <<allowed, torrentRef>> /\ quiesced' = FALSE
      BY <1>1, <2>3 DEF ResumeSwap, wrapper
    <3>3. quiesced' = quiesced
      BY <2>3, <3>2 DEF TypeOK, FlagsOK
    <3> QED
      BY <1>b, <3>1, <3>2, <3>3
  <2> QED
    BY <2>1, <2>2, <2>3
<1>2. ASSUME NEW a \in Actors, ResumeAllow(a)
      PROVE  QuiesceRecoverable'
  BY <1>2, <1>a DEF ResumeAllow, Panics, wrapper
<1>3. ASSUME NEW a \in Clients, QuiesceDisallow(a)
      PROVE  QuiesceRecoverable'
  <2>1. ~torrentRef' \/ pc'[a] = "zeroMax"
    BY <1>3 DEF QuiesceDisallow, Go, Panics, wrapper, TypeOK, Actors
  <2> QED
    BY <1>a, <2>1 DEF Recovering, MidQuiesce, Actors
<1>4. ASSUME NEW a \in Clients, QuiesceZeroMax(a)
      PROVE  QuiesceRecoverable'
  <2>1. ~torrentRef' \/ pc'[a] = "zeroLast"
    BY <1>4 DEF QuiesceZeroMax, Go, Panics, wrapper, TypeOK, Actors
  <2> QED
    BY <1>a, <2>1 DEF Recovering, MidQuiesce, Actors
<1>5. ASSUME NEW a \in Clients, QuiesceZeroLast(a)
      PROVE  QuiesceRecoverable'
  <2>1. pc'[a] = "markQuiesced"
    BY <1>5 DEF QuiesceZeroLast, Go, TypeOK, Actors
  <2> QED
    BY <1>a, <2>1 DEF Recovering, MidQuiesce, Actors
<1>6. ASSUME NEW a \in Clients, QuiesceMark(a)
      PROVE  QuiesceRecoverable'
  BY <1>6, <1>a DEF QuiesceMark
<1>7. ASSUME NEW a \in Actors, ResumeSetMax(a) PROVE QuiesceRecoverable'
  BY <1>7, <1>b, <1>c DEF ResumeSetMax, At, Go, Call, Return, Finish, Panics, TouchPlaybackIntent, Idle, wrapper, network, Actors
<1>8. ASSUME NEW a \in Actors, ResumeStoreMax(a) PROVE QuiesceRecoverable'
  BY <1>8, <1>b, <1>c DEF ResumeStoreMax, At, Go, Call, Return, Finish, Panics, TouchPlaybackIntent, Idle, wrapper, network, Actors
<1>9. ASSUME NEW a \in Clients, Quiesce(a) PROVE QuiesceRecoverable'
  BY <1>9, <1>b, <1>c DEF Quiesce, At, Go, Call, Return, Finish, Panics, TouchPlaybackIntent, Idle, wrapper, network, Actors
<1>10. ASSUME NEW a \in Clients, Shorten(a) PROVE QuiesceRecoverable'
  BY <1>10, <1>b, <1>c DEF Shorten, At, Go, Call, Return, Finish, Panics, TouchPlaybackIntent, Idle, wrapper, network, Actors
<1>11. ASSUME NEW a \in Actors, CloseBegin(a) PROVE QuiesceRecoverable'
  BY <1>11, <1>b, <1>c DEF CloseBegin, At, Go, Call, Return, Finish, Panics, TouchPlaybackIntent, Idle, wrapper, network, Actors
<1>12. ASSUME NEW a \in Actors, CloseHash(a) PROVE QuiesceRecoverable'
  BY <1>12, <1>b, <1>c DEF CloseHash, At, Go, Call, Return, Finish, Panics, TouchPlaybackIntent, Idle, wrapper, network, Actors
<1>13. ASSUME NEW a \in Actors, CloseForgetCache(a) PROVE QuiesceRecoverable'
  BY <1>13, <1>b, <1>c DEF CloseForgetCache, At, Go, Call, Return, Finish, Panics, TouchPlaybackIntent, Idle, wrapper, network, Actors
<1>14. ASSUME NEW a \in Actors, Drop(a) PROVE QuiesceRecoverable'
  BY <1>14, <1>b, <1>c DEF Drop, At, Go, Call, Return, Finish, Panics, TouchPlaybackIntent, Idle, wrapper, network, Actors
<1>15. ASSUME NEW a \in Clients, Acquire(a) PROVE QuiesceRecoverable'
  BY <1>15, <1>b, <1>c DEF Acquire, At, Go, Call, Return, Finish, Panics, TouchPlaybackIntent, Idle, wrapper, network, Actors
<1>16. ASSUME NEW a \in Clients, GotInfo(a) PROVE QuiesceRecoverable'
  BY <1>16, <1>b, <1>c DEF GotInfo, At, Go, Call, Return, Finish, Panics, TouchPlaybackIntent, Idle, wrapper, network, Actors
<1>17. ASSUME NEW a \in Clients, WaitInfo(a) PROVE QuiesceRecoverable'
  BY <1>17, <1>b, <1>c DEF WaitInfo, At, Go, Call, Return, Finish, Panics, TouchPlaybackIntent, Idle, wrapper, network, Actors
<1>18. ASSUME NEW a \in Clients, SetWorking(a) PROVE QuiesceRecoverable'
  BY <1>18, <1>b, <1>c DEF SetWorking, At, Go, Call, Return, Finish, Panics, TouchPlaybackIntent, Idle, wrapper, network, Actors
<1>19. ASSUME NEW a \in Clients, NoInfo(a) PROVE QuiesceRecoverable'
  BY <1>19, <1>b, <1>c DEF NoInfo, At, Go, Call, Return, Finish, Panics, TouchPlaybackIntent, Idle, wrapper, network, Actors
<1>20. ASSUME NEW a \in Clients, NewReader(a) PROVE QuiesceRecoverable'
  BY <1>20, <1>b, <1>c DEF NewReader, At, Go, Call, Return, Finish, Panics, TouchPlaybackIntent, Idle, wrapper, network, Actors
<1>21. ASSUME NEW a \in Clients, OpenReader(a) PROVE QuiesceRecoverable'
  BY <1>21, <1>b, <1>c DEF OpenReader, At, Go, Call, Return, Finish, Panics, TouchPlaybackIntent, Idle, wrapper, network, Actors
<1>22. ASSUME NEW a \in Clients, CheckLastReader(a) PROVE QuiesceRecoverable'
  BY <1>22, <1>b, <1>c DEF CheckLastReader, At, Go, Call, Return, Finish, Panics, TouchPlaybackIntent, Idle, wrapper, network, Actors
<1>23. ASSUME NEW a \in Clients, CanPreload(a) PROVE QuiesceRecoverable'
  BY <1>23, <1>b, <1>c DEF CanPreload, At, Go, Call, Return, Finish, Panics, TouchPlaybackIntent, Idle, wrapper, network, Actors
<1>24. ASSUME NEW a \in Clients, SetPreload(a) PROVE QuiesceRecoverable'
  BY <1>24, <1>b, <1>c DEF SetPreload, At, Go, Call, Return, Finish, Panics, TouchPlaybackIntent, Idle, wrapper, network, Actors
<1>25. ASSUME NEW a \in Clients, SetupPreload(a) PROVE QuiesceRecoverable'
  BY <1>25, <1>b, <1>c DEF SetupPreload, At, Go, Call, Return, Finish, Panics, TouchPlaybackIntent, Idle, wrapper, network, Actors
<1>26. ASSUME NEW a \in Clients, PreloadEnd(a) PROVE QuiesceRecoverable'
  BY <1>26, <1>b, <1>c DEF PreloadEnd, At, Go, Call, Return, Finish, Panics, TouchPlaybackIntent, Idle, wrapper, network, Actors
<1>27. ASSUME NEW a \in Clients, Stream(a) PROVE QuiesceRecoverable'
  BY <1>27, <1>b, <1>c DEF Stream, At, Go, Call, Return, Finish, Panics, TouchPlaybackIntent, Idle, wrapper, network, Actors
<1>28. ASSUME NEW a \in Clients, StreamStat(a) PROVE QuiesceRecoverable'
  BY <1>28, <1>b, <1>c DEF StreamStat, At, Go, Call, Return, Finish, Panics, TouchPlaybackIntent, Idle, wrapper, network, Actors
<1>29. ASSUME NEW a \in Clients, GiveUp(a) PROVE QuiesceRecoverable'
  BY <1>29, <1>b, <1>c DEF GiveUp, At, Go, Call, Return, Finish, Panics, TouchPlaybackIntent, Idle, wrapper, network, Actors
<1>30. ASSUME NEW a \in Clients, Open(a) PROVE QuiesceRecoverable'
  BY <1>30, <1>b, <1>c DEF Open, At, Go, Call, Return, Finish, Panics, TouchPlaybackIntent, Idle, wrapper, network, Actors
<1>31. ASSUME NEW a \in Clients, EnqueuePreload(a) PROVE QuiesceRecoverable'
  BY <1>31, <1>b, <1>c DEF EnqueuePreload, At, Go, Call, Return, Finish, Panics, TouchPlaybackIntent, Idle, wrapper, network, Actors
<1>32. ASSUME NEW a \in Clients, ReaderOn(a) PROVE QuiesceRecoverable'
  BY <1>32, <1>c DEF ReaderOn, wrapper, network
<1>33. ASSUME NEW a \in Clients, ReaderOff(a) PROVE QuiesceRecoverable'
  BY <1>33, <1>c DEF ReaderOff, wrapper, network
<1>34. ASSUME NEW a \in Clients, CloseReader(a) PROVE QuiesceRecoverable'
  BY <1>34, <1>b, <1>c DEF CloseReader, At, Go, Call, Return, Finish, Panics, TouchPlaybackIntent, Idle, wrapper, network, Actors
<1>35. ASSUME NEW a \in Clients, PreloadTouch(a) PROVE QuiesceRecoverable'
  BY <1>35, <1>b, <1>c DEF PreloadTouch, At, Go, Call, Return, Finish, Panics, TouchPlaybackIntent, Idle, wrapper, network, Actors
<1>36. ASSUME NEW a \in {"watch", "api"}, RemoveTorrent(a) PROVE QuiesceRecoverable'
  BY <1>36, <1>b DEF RemoveTorrent, At, Go, Call, network, Actors
<1>37. ASSUME WatchExpiry PROVE QuiesceRecoverable'
  BY <1>37, <1>b DEF WatchExpiry, At, Go, Panics, wrapper, network, Actors
<1>38. ASSUME WatchStat PROVE QuiesceRecoverable'
  BY <1>38, <1>b DEF WatchStat, At, Go, Panics, wrapper, network, Actors
<1>39. ASSUME WatchReaders PROVE QuiesceRecoverable'
  BY <1>39, <1>b DEF WatchReaders, At, Go, Panics, wrapper, network, Actors
<1>40. ASSUME WatchDecide PROVE QuiesceRecoverable'
  BY <1>40, <1>b DEF WatchDecide, At, Go, Panics, wrapper, network, Actors
<1>41. ASSUME UpdateRA PROVE QuiesceRecoverable'
  BY <1>41, <1>b DEF UpdateRA, At, Go, Panics, wrapper, network, Actors
<1>42. ASSUME UpdateRASetMax PROVE QuiesceRecoverable'
  BY <1>42, <1>b DEF UpdateRASetMax, At, Go, Panics, wrapper, network, Actors
<1>43. ASSUME UpdateRAStoreMax PROVE QuiesceRecoverable'
  BY <1>43, <1>b DEF UpdateRAStoreMax, At, Go, Panics, wrapper, network, Actors
<1>44. ASSUME WatchEnd PROVE QuiesceRecoverable'
  BY <1>44, <1>b DEF WatchEnd, At, Go, Panics, wrapper, network, Actors
<1>45. ASSUME ApiRemove PROVE QuiesceRecoverable'
  BY <1>45, <1>b DEF ApiRemove, At, Go, Panics, wrapper, network, Actors
<1>46. ASSUME ApiDrop PROVE QuiesceRecoverable'
  BY <1>46, <1>b DEF ApiDrop, At, Go, Panics, wrapper, network, Actors
<1>47. ASSUME Elapse PROVE QuiesceRecoverable'
  BY <1>47, <1>c DEF Elapse, At, Go, Panics, wrapper, network, Actors
<1> QED
  BY <1>1, <1>2, <1>3, <1>4, <1>5, <1>6, <1>7, <1>8, <1>9, <1>10, <1>11, <1>12, <1>13, <1>14, <1>15, <1>16, <1>17, <1>18, <1>19, <1>20, <1>21, <1>22, <1>23, <1>24, <1>25, <1>26, <1>27, <1>28, <1>29, <1>30, <1>31, <1>32, <1>33, <1>34, <1>35, <1>36, <1>37, <1>38, <1>39, <1>40, <1>41, <1>42, <1>43, <1>44, <1>45, <1>46, <1>47
  DEF Next, Chooses, Proceeds, Resume, QuiesceSteps, Close, Watch, Api, Actors

\* THEOREM: a loaded torrent whose downloads CloseReader switched off is
\* always resumable by the next request (torrent_playback.go:121-152),
\* whatever the interleaving and however many clients there are.
THEOREM QuiescedResumable == Spec => []QuiesceRecoverable
<1>1. Init => QuiesceRecoverable
  BY DEF Init, QuiesceRecoverable
<1>2. TypeOK /\ QuiesceRecoverable /\ [Next]_vars => QuiesceRecoverable'
  <2>1. CASE Next
    BY <2>1, QuiesceStep
  <2>2. CASE UNCHANGED vars
    BY <2>2 DEF vars, wrapper, network, QuiesceRecoverable, MidQuiesce, At
  <2> QED
    BY <2>1, <2>2
<1> QED
  BY <1>1, <1>2, TypeCorrect, PTL DEF Spec

-----------------------------------------------------------------------------
\* Close takes the torrent apart in one order only: the cache is closed before
\* either reference is cleared, and a closed cache has no readers.
ClosedInOrder ==
  /\ cacheOpen \/ readers = {}
  /\ cacheRef \/ ~cacheOpen
  /\ torrentRef \/ ~cacheOpen
  /\ \A a \in Actors : pc[a] \in {"forgetCache", "drop"} => ~cacheOpen

ResumeLabels == {"swap", "allow", "setMax", "storeMax"}

\* Where a client with an open reader may be.
Reading(c) == At(c, "reading") \/ (pc[c] \in ResumeLabels /\ ret[c] = "reading")

\* Where a client with an admission slot may be.
Streaming(c) ==
  \/ Reading(c)
  \/ pc[c] \in {"gotInfo", "waitInfo", "setWorking", "noInfo", "newReader",
                "openReader", "lastReader", "quiesce", "disallow", "zeroMax",
                "zeroLast", "markQuiesced", "shorten"}
  \/ pc[c] \in {"close", "closeHash", "forgetCache", "drop"} /\ ret[c] = "noInfo"

\* What a client holds says where in its request it is.
Located ==
  \A c \in Clients :
    /\ c \in readers => Reading(c)
    /\ c \in inUse => Reading(c) \/ At(c, "panicked") \/ ~cacheRef
    /\ c \in streams => Streaming(c)

\* The expiry decision, at each of its reads.
Spared ==
  /\ held \subseteq streams \cup readers
  /\ At("watch", "askStreams") /\ ~saw.readers => held \subseteq streams
  /\ At("watch", "remove") => held = {}

\* Close, and every step beside it, keeps that order.
LEMMA OrderStep ==
  ASSUME TypeOK, ClosedInOrder, Next
  PROVE  ClosedInOrder'
<1> USE PlaybackAssumption DEF TypeOK, FlagsOK, ClosedInOrder, Actors, wrapper, playing, At, Go, Call, Return, Finish, Panics, TouchPlaybackIntent, Idle, ReturnLabels
<1>1. ASSUME NEW a \in Actors, ResumeSwap(a), TrackHeld PROVE ClosedInOrder'
  BY <1>1 DEF ResumeSwap
<1>2. ASSUME NEW a \in Actors, ResumeAllow(a), TrackHeld PROVE ClosedInOrder'
  BY <1>2 DEF ResumeAllow
<1>3. ASSUME NEW a \in Actors, ResumeSetMax(a), TrackHeld PROVE ClosedInOrder'
  BY <1>3 DEF ResumeSetMax
<1>4. ASSUME NEW a \in Actors, ResumeStoreMax(a), TrackHeld PROVE ClosedInOrder'
  BY <1>4 DEF ResumeStoreMax
<1>5. ASSUME NEW a \in Clients, Quiesce(a), TrackHeld PROVE ClosedInOrder'
  BY <1>5 DEF Quiesce
<1>6. ASSUME NEW a \in Clients, QuiesceDisallow(a), TrackHeld PROVE ClosedInOrder'
  BY <1>6 DEF QuiesceDisallow
<1>7. ASSUME NEW a \in Clients, QuiesceZeroMax(a), TrackHeld PROVE ClosedInOrder'
  BY <1>7 DEF QuiesceZeroMax
<1>8. ASSUME NEW a \in Clients, QuiesceZeroLast(a), TrackHeld PROVE ClosedInOrder'
  BY <1>8 DEF QuiesceZeroLast
<1>9. ASSUME NEW a \in Clients, QuiesceMark(a), TrackHeld PROVE ClosedInOrder'
  BY <1>9 DEF QuiesceMark
<1>10. ASSUME NEW a \in Clients, Shorten(a), TrackHeld PROVE ClosedInOrder'
  BY <1>10 DEF Shorten
<1>11. ASSUME NEW a \in Actors, CloseBegin(a), TrackHeld PROVE ClosedInOrder'
  BY <1>11 DEF CloseBegin
<1>12. ASSUME NEW a \in Actors, CloseHash(a), TrackHeld PROVE ClosedInOrder'
  BY <1>12 DEF CloseHash
<1>13. ASSUME NEW a \in Actors, CloseForgetCache(a), TrackHeld PROVE ClosedInOrder'
  BY <1>13 DEF CloseForgetCache
<1>14. ASSUME NEW a \in Actors, Drop(a), TrackHeld PROVE ClosedInOrder'
  BY <1>14 DEF Drop
<1>15. ASSUME NEW a \in Clients, Acquire(a), TrackHeld PROVE ClosedInOrder'
  BY <1>15 DEF Acquire
<1>16. ASSUME NEW a \in Clients, GotInfo(a), TrackHeld PROVE ClosedInOrder'
  BY <1>16 DEF GotInfo
<1>17. ASSUME NEW a \in Clients, WaitInfo(a), TrackHeld PROVE ClosedInOrder'
  BY <1>17 DEF WaitInfo
<1>18. ASSUME NEW a \in Clients, SetWorking(a), TrackHeld PROVE ClosedInOrder'
  BY <1>18 DEF SetWorking
<1>19. ASSUME NEW a \in Clients, NoInfo(a), TrackHeld PROVE ClosedInOrder'
  BY <1>19 DEF NoInfo
<1>20. ASSUME NEW a \in Clients, NewReader(a), TrackHeld PROVE ClosedInOrder'
  BY <1>20 DEF NewReader
<1>21. ASSUME NEW a \in Clients, OpenReader(a), TrackHeld PROVE ClosedInOrder'
  BY <1>21 DEF OpenReader
<1>22. ASSUME NEW a \in Clients, CheckLastReader(a), TrackHeld PROVE ClosedInOrder'
  BY <1>22 DEF CheckLastReader
<1>23. ASSUME NEW a \in Clients, CanPreload(a), TrackHeld PROVE ClosedInOrder'
  BY <1>23 DEF CanPreload
<1>24. ASSUME NEW a \in Clients, SetPreload(a), TrackHeld PROVE ClosedInOrder'
  BY <1>24 DEF SetPreload
<1>25. ASSUME NEW a \in Clients, SetupPreload(a), TrackHeld PROVE ClosedInOrder'
  BY <1>25 DEF SetupPreload
<1>26. ASSUME NEW a \in Clients, PreloadEnd(a), TrackHeld PROVE ClosedInOrder'
  BY <1>26 DEF PreloadEnd
<1>27. ASSUME NEW a \in Clients, Stream(a), TrackHeld PROVE ClosedInOrder'
  BY <1>27 DEF Stream
<1>28. ASSUME NEW a \in Clients, StreamStat(a), TrackHeld PROVE ClosedInOrder'
  BY <1>28 DEF StreamStat
<1>29. ASSUME NEW a \in Clients, GiveUp(a), TrackHeld PROVE ClosedInOrder'
  BY <1>29 DEF GiveUp
<1>30. ASSUME NEW a \in Clients, Open(a), TrackHeld PROVE ClosedInOrder'
  BY <1>30 DEF Open
<1>31. ASSUME NEW a \in Clients, EnqueuePreload(a), TrackHeld PROVE ClosedInOrder'
  BY <1>31 DEF EnqueuePreload
<1>32. ASSUME NEW a \in Clients, ReaderOn(a), TrackHeld PROVE ClosedInOrder'
  BY <1>32 DEF ReaderOn
<1>33. ASSUME NEW a \in Clients, ReaderOff(a), TrackHeld PROVE ClosedInOrder'
  BY <1>33 DEF ReaderOff
<1>34. ASSUME NEW a \in Clients, CloseReader(a), TrackHeld PROVE ClosedInOrder'
  BY <1>34 DEF CloseReader
<1>35. ASSUME NEW a \in Clients, PreloadTouch(a), TrackHeld PROVE ClosedInOrder'
  BY <1>35 DEF PreloadTouch
<1>36. ASSUME NEW a \in {"watch", "api"}, RemoveTorrent(a), TrackHeld PROVE ClosedInOrder'
  BY <1>36 DEF RemoveTorrent
<1>37. ASSUME WatchExpiry, TrackHeld PROVE ClosedInOrder'
  BY <1>37 DEF WatchExpiry
<1>38. ASSUME WatchStat, TrackHeld PROVE ClosedInOrder'
  BY <1>38 DEF WatchStat
<1>39. ASSUME WatchReaders, TrackHeld PROVE ClosedInOrder'
  BY <1>39 DEF WatchReaders
<1>40. ASSUME WatchDecide, TrackHeld PROVE ClosedInOrder'
  BY <1>40 DEF WatchDecide
<1>41. ASSUME UpdateRA, TrackHeld PROVE ClosedInOrder'
  BY <1>41 DEF UpdateRA
<1>42. ASSUME UpdateRASetMax, TrackHeld PROVE ClosedInOrder'
  BY <1>42 DEF UpdateRASetMax
<1>43. ASSUME UpdateRAStoreMax, TrackHeld PROVE ClosedInOrder'
  BY <1>43 DEF UpdateRAStoreMax
<1>44. ASSUME WatchEnd, TrackHeld PROVE ClosedInOrder'
  BY <1>44 DEF WatchEnd
<1>45. ASSUME ApiRemove, TrackHeld PROVE ClosedInOrder'
  BY <1>45 DEF ApiRemove
<1>46. ASSUME ApiDrop, TrackHeld PROVE ClosedInOrder'
  BY <1>46 DEF ApiDrop
<1>47. ASSUME Elapse, TrackHeld PROVE ClosedInOrder'
  BY <1>47 DEF Elapse
<1> QED
  BY <1>1, <1>2, <1>3, <1>4, <1>5, <1>6, <1>7, <1>8, <1>9, <1>10, <1>11, <1>12, <1>13, <1>14, <1>15, <1>16, <1>17, <1>18, <1>19, <1>20, <1>21, <1>22, <1>23, <1>24, <1>25, <1>26, <1>27, <1>28, <1>29, <1>30, <1>31, <1>32, <1>33, <1>34, <1>35, <1>36, <1>37, <1>38, <1>39, <1>40, <1>41, <1>42, <1>43, <1>44, <1>45, <1>46, <1>47
  DEF Next, Chooses, Proceeds, Resume, QuiesceSteps, Close, Watch, Api

\* Every step keeps what clients hold in line with where they are.
LEMMA LocatedStep ==
  ASSUME TypeOK, ClosedInOrder, Located, Next
  PROVE  Located'
<1> USE PlaybackAssumption DEF TypeOK, FlagsOK, ClosedInOrder, Located, Reading, Streaming, ResumeLabels, Actors, wrapper, playing, At, Go, Call, Return, Finish, Panics, TouchPlaybackIntent, Idle
<1>1. ASSUME NEW a \in Actors, ResumeSwap(a), TrackHeld PROVE Located'
  BY <1>1 DEF ResumeSwap
<1>2. ASSUME NEW a \in Actors, ResumeAllow(a), TrackHeld PROVE Located'
  BY <1>2 DEF ResumeAllow
<1>3. ASSUME NEW a \in Actors, ResumeSetMax(a), TrackHeld PROVE Located'
  BY <1>3 DEF ResumeSetMax
<1>4. ASSUME NEW a \in Actors, ResumeStoreMax(a), TrackHeld PROVE Located'
  BY <1>4 DEF ResumeStoreMax
<1>5. ASSUME NEW a \in Clients, Quiesce(a), TrackHeld PROVE Located'
  BY <1>5 DEF Quiesce
<1>6. ASSUME NEW a \in Clients, QuiesceDisallow(a), TrackHeld PROVE Located'
  BY <1>6 DEF QuiesceDisallow
<1>7. ASSUME NEW a \in Clients, QuiesceZeroMax(a), TrackHeld PROVE Located'
  BY <1>7 DEF QuiesceZeroMax
<1>8. ASSUME NEW a \in Clients, QuiesceZeroLast(a), TrackHeld PROVE Located'
  BY <1>8 DEF QuiesceZeroLast
<1>9. ASSUME NEW a \in Clients, QuiesceMark(a), TrackHeld PROVE Located'
  BY <1>9 DEF QuiesceMark
<1>10. ASSUME NEW a \in Clients, Shorten(a), TrackHeld PROVE Located'
  BY <1>10 DEF Shorten
<1>11. ASSUME NEW a \in Actors, CloseBegin(a), TrackHeld PROVE Located'
  BY <1>11 DEF CloseBegin
<1>12. ASSUME NEW a \in Actors, CloseHash(a), TrackHeld PROVE Located'
  BY <1>12 DEF CloseHash
<1>13. ASSUME NEW a \in Actors, CloseForgetCache(a), TrackHeld PROVE Located'
  BY <1>13 DEF CloseForgetCache
<1>14. ASSUME NEW a \in Actors, Drop(a), TrackHeld PROVE Located'
  BY <1>14 DEF Drop
<1>15. ASSUME NEW a \in Clients, Acquire(a), TrackHeld PROVE Located'
  BY <1>15 DEF Acquire
<1>16. ASSUME NEW a \in Clients, GotInfo(a), TrackHeld PROVE Located'
  BY <1>16 DEF GotInfo
<1>17. ASSUME NEW a \in Clients, WaitInfo(a), TrackHeld PROVE Located'
  BY <1>17 DEF WaitInfo
<1>18. ASSUME NEW a \in Clients, SetWorking(a), TrackHeld PROVE Located'
  BY <1>18 DEF SetWorking
<1>19. ASSUME NEW a \in Clients, NoInfo(a), TrackHeld PROVE Located'
  BY <1>19 DEF NoInfo
<1>20. ASSUME NEW a \in Clients, NewReader(a), TrackHeld PROVE Located'
  BY <1>20 DEF NewReader
<1>21. ASSUME NEW a \in Clients, OpenReader(a), TrackHeld PROVE Located'
  BY <1>21 DEF OpenReader
<1>22. ASSUME NEW a \in Clients, CheckLastReader(a), TrackHeld PROVE Located'
  BY <1>22 DEF CheckLastReader
<1>23. ASSUME NEW a \in Clients, CanPreload(a), TrackHeld PROVE Located'
  BY <1>23 DEF CanPreload
<1>24. ASSUME NEW a \in Clients, SetPreload(a), TrackHeld PROVE Located'
  BY <1>24 DEF SetPreload
<1>25. ASSUME NEW a \in Clients, SetupPreload(a), TrackHeld PROVE Located'
  BY <1>25 DEF SetupPreload
<1>26. ASSUME NEW a \in Clients, PreloadEnd(a), TrackHeld PROVE Located'
  BY <1>26 DEF PreloadEnd
<1>27. ASSUME NEW a \in Clients, Stream(a), TrackHeld PROVE Located'
  BY <1>27 DEF Stream
<1>28. ASSUME NEW a \in Clients, StreamStat(a), TrackHeld PROVE Located'
  BY <1>28 DEF StreamStat
<1>29. ASSUME NEW a \in Clients, GiveUp(a), TrackHeld PROVE Located'
  BY <1>29 DEF GiveUp
<1>30. ASSUME NEW a \in Clients, Open(a), TrackHeld PROVE Located'
  BY <1>30 DEF Open
<1>31. ASSUME NEW a \in Clients, EnqueuePreload(a), TrackHeld PROVE Located'
  BY <1>31 DEF EnqueuePreload
<1>32. ASSUME NEW a \in Clients, ReaderOn(a), TrackHeld PROVE Located'
  BY <1>32 DEF ReaderOn
<1>33. ASSUME NEW a \in Clients, ReaderOff(a), TrackHeld PROVE Located'
  BY <1>33 DEF ReaderOff
<1>34. ASSUME NEW a \in Clients, CloseReader(a), TrackHeld PROVE Located'
  BY <1>34 DEF CloseReader
<1>35. ASSUME NEW a \in Clients, PreloadTouch(a), TrackHeld PROVE Located'
  BY <1>35 DEF PreloadTouch
<1>36. ASSUME NEW a \in {"watch", "api"}, RemoveTorrent(a), TrackHeld PROVE Located'
  BY <1>36 DEF RemoveTorrent
<1>37. ASSUME WatchExpiry, TrackHeld PROVE Located'
  BY <1>37 DEF WatchExpiry
<1>38. ASSUME WatchStat, TrackHeld PROVE Located'
  BY <1>38 DEF WatchStat
<1>39. ASSUME WatchReaders, TrackHeld PROVE Located'
  BY <1>39 DEF WatchReaders
<1>40. ASSUME WatchDecide, TrackHeld PROVE Located'
  BY <1>40 DEF WatchDecide
<1>41. ASSUME UpdateRA, TrackHeld PROVE Located'
  BY <1>41 DEF UpdateRA
<1>42. ASSUME UpdateRASetMax, TrackHeld PROVE Located'
  BY <1>42 DEF UpdateRASetMax
<1>43. ASSUME UpdateRAStoreMax, TrackHeld PROVE Located'
  BY <1>43 DEF UpdateRAStoreMax
<1>44. ASSUME WatchEnd, TrackHeld PROVE Located'
  BY <1>44 DEF WatchEnd
<1>45. ASSUME ApiRemove, TrackHeld PROVE Located'
  BY <1>45 DEF ApiRemove
<1>46. ASSUME ApiDrop, TrackHeld PROVE Located'
  BY <1>46 DEF ApiDrop
<1>47. ASSUME Elapse, TrackHeld PROVE Located'
  BY <1>47 DEF Elapse
<1> QED
  BY <1>1, <1>2, <1>3, <1>4, <1>5, <1>6, <1>7, <1>8, <1>9, <1>10, <1>11, <1>12, <1>13, <1>14, <1>15, <1>16, <1>17, <1>18, <1>19, <1>20, <1>21, <1>22, <1>23, <1>24, <1>25, <1>26, <1>27, <1>28, <1>29, <1>30, <1>31, <1>32, <1>33, <1>34, <1>35, <1>36, <1>37, <1>38, <1>39, <1>40, <1>41, <1>42, <1>43, <1>44, <1>45, <1>46, <1>47
  DEF Next, Chooses, Proceeds, Resume, QuiesceSteps, Close, Watch, Api

\* The reads of the expiry decision, in their order, spare whoever plays on.
LEMMA SparedStep ==
  ASSUME TypeOK, ClosedInOrder, Located, Spared, Next
  PROVE  Spared'
<1> USE PlaybackAssumption DEF TypeOK, FlagsOK, SeenOK, ClosedInOrder, Located, Reading, ResumeLabels, Spared, TrackHeld, Actors, wrapper, playing, At, Go, Call, Return, Finish, Panics, TouchPlaybackIntent, Idle, ReturnLabels
<1>1. ASSUME NEW a \in Actors, ResumeSwap(a), TrackHeld PROVE Spared'
  BY <1>1 DEF ResumeSwap
<1>2. ASSUME NEW a \in Actors, ResumeAllow(a), TrackHeld PROVE Spared'
  BY <1>2 DEF ResumeAllow
<1>3. ASSUME NEW a \in Actors, ResumeSetMax(a), TrackHeld PROVE Spared'
  BY <1>3 DEF ResumeSetMax
<1>4. ASSUME NEW a \in Actors, ResumeStoreMax(a), TrackHeld PROVE Spared'
  BY <1>4 DEF ResumeStoreMax
<1>5. ASSUME NEW a \in Clients, Quiesce(a), TrackHeld PROVE Spared'
  BY <1>5 DEF Quiesce
<1>6. ASSUME NEW a \in Clients, QuiesceDisallow(a), TrackHeld PROVE Spared'
  BY <1>6 DEF QuiesceDisallow
<1>7. ASSUME NEW a \in Clients, QuiesceZeroMax(a), TrackHeld PROVE Spared'
  BY <1>7 DEF QuiesceZeroMax
<1>8. ASSUME NEW a \in Clients, QuiesceZeroLast(a), TrackHeld PROVE Spared'
  BY <1>8 DEF QuiesceZeroLast
<1>9. ASSUME NEW a \in Clients, QuiesceMark(a), TrackHeld PROVE Spared'
  BY <1>9 DEF QuiesceMark
<1>10. ASSUME NEW a \in Clients, Shorten(a), TrackHeld PROVE Spared'
  BY <1>10 DEF Shorten
<1>11. ASSUME NEW a \in Actors, CloseBegin(a), TrackHeld PROVE Spared'
  BY <1>11 DEF CloseBegin
<1>12. ASSUME NEW a \in Actors, CloseHash(a), TrackHeld PROVE Spared'
  BY <1>12 DEF CloseHash
<1>13. ASSUME NEW a \in Actors, CloseForgetCache(a), TrackHeld PROVE Spared'
  BY <1>13 DEF CloseForgetCache
<1>14. ASSUME NEW a \in Actors, Drop(a), TrackHeld PROVE Spared'
  BY <1>14 DEF Drop
<1>15. ASSUME NEW a \in Clients, Acquire(a), TrackHeld PROVE Spared'
  BY <1>15 DEF Acquire
<1>16. ASSUME NEW a \in Clients, GotInfo(a), TrackHeld PROVE Spared'
  BY <1>16 DEF GotInfo
<1>17. ASSUME NEW a \in Clients, WaitInfo(a), TrackHeld PROVE Spared'
  BY <1>17 DEF WaitInfo
<1>18. ASSUME NEW a \in Clients, SetWorking(a), TrackHeld PROVE Spared'
  BY <1>18 DEF SetWorking
<1>19. ASSUME NEW a \in Clients, NoInfo(a), TrackHeld PROVE Spared'
  BY <1>19 DEF NoInfo
<1>20. ASSUME NEW a \in Clients, NewReader(a), TrackHeld PROVE Spared'
  BY <1>20 DEF NewReader
<1>21. ASSUME NEW a \in Clients, OpenReader(a), TrackHeld PROVE Spared'
  BY <1>21 DEF OpenReader
<1>22. ASSUME NEW a \in Clients, CheckLastReader(a), TrackHeld PROVE Spared'
  BY <1>22 DEF CheckLastReader
<1>23. ASSUME NEW a \in Clients, CanPreload(a), TrackHeld PROVE Spared'
  BY <1>23 DEF CanPreload
<1>24. ASSUME NEW a \in Clients, SetPreload(a), TrackHeld PROVE Spared'
  BY <1>24 DEF SetPreload
<1>25. ASSUME NEW a \in Clients, SetupPreload(a), TrackHeld PROVE Spared'
  BY <1>25 DEF SetupPreload
<1>26. ASSUME NEW a \in Clients, PreloadEnd(a), TrackHeld PROVE Spared'
  BY <1>26 DEF PreloadEnd
<1>27. ASSUME NEW a \in Clients, Stream(a), TrackHeld PROVE Spared'
  BY <1>27 DEF Stream
<1>28. ASSUME NEW a \in Clients, StreamStat(a), TrackHeld PROVE Spared'
  BY <1>28 DEF StreamStat
<1>29. ASSUME NEW a \in Clients, GiveUp(a), TrackHeld PROVE Spared'
  BY <1>29 DEF GiveUp
<1>30. ASSUME NEW a \in Clients, Open(a), TrackHeld PROVE Spared'
  BY <1>30 DEF Open
<1>31. ASSUME NEW a \in Clients, EnqueuePreload(a), TrackHeld PROVE Spared'
  BY <1>31 DEF EnqueuePreload
<1>32. ASSUME NEW a \in Clients, ReaderOn(a), TrackHeld PROVE Spared'
  BY <1>32 DEF ReaderOn
<1>33. ASSUME NEW a \in Clients, ReaderOff(a), TrackHeld PROVE Spared'
  BY <1>33 DEF ReaderOff
<1>34. ASSUME NEW a \in Clients, CloseReader(a), TrackHeld PROVE Spared'
  BY <1>34 DEF CloseReader
<1>35. ASSUME NEW a \in Clients, PreloadTouch(a), TrackHeld PROVE Spared'
  BY <1>35 DEF PreloadTouch
<1>36. ASSUME NEW a \in {"watch", "api"}, RemoveTorrent(a), TrackHeld PROVE Spared'
  BY <1>36 DEF RemoveTorrent
<1>37. ASSUME WatchExpiry, TrackHeld PROVE Spared'
  BY <1>37 DEF WatchExpiry
<1>38. ASSUME WatchStat, TrackHeld PROVE Spared'
  BY <1>38 DEF WatchStat
<1>39. ASSUME WatchReaders, TrackHeld PROVE Spared'
  BY <1>39 DEF WatchReaders
<1>40. ASSUME WatchDecide, TrackHeld PROVE Spared'
  BY <1>40 DEF WatchDecide, shouldExpireTorrent
<1>41. ASSUME UpdateRA, TrackHeld PROVE Spared'
  BY <1>41 DEF UpdateRA
<1>42. ASSUME UpdateRASetMax, TrackHeld PROVE Spared'
  BY <1>42 DEF UpdateRASetMax
<1>43. ASSUME UpdateRAStoreMax, TrackHeld PROVE Spared'
  BY <1>43 DEF UpdateRAStoreMax
<1>44. ASSUME WatchEnd, TrackHeld PROVE Spared'
  BY <1>44 DEF WatchEnd
<1>45. ASSUME ApiRemove, TrackHeld PROVE Spared'
  BY <1>45 DEF ApiRemove
<1>46. ASSUME ApiDrop, TrackHeld PROVE Spared'
  BY <1>46 DEF ApiDrop
<1>47. ASSUME Elapse, TrackHeld PROVE Spared'
  BY <1>47 DEF Elapse
<1> QED
  BY <1>1, <1>2, <1>3, <1>4, <1>5, <1>6, <1>7, <1>8, <1>9, <1>10, <1>11, <1>12, <1>13, <1>14, <1>15, <1>16, <1>17, <1>18, <1>19, <1>20, <1>21, <1>22, <1>23, <1>24, <1>25, <1>26, <1>27, <1>28, <1>29, <1>30, <1>31, <1>32, <1>33, <1>34, <1>35, <1>36, <1>37, <1>38, <1>39, <1>40, <1>41, <1>42, <1>43, <1>44, <1>45, <1>46, <1>47
  DEF Next, Chooses, Proceeds, Resume, QuiesceSteps, Close, Watch, Api

\* The strengthening the two properties need.
Inv == TypeOK /\ ClosedInOrder /\ Located /\ Spared

\* It holds initially and no step of any goroutine breaks it.
LEMMA InvInductive == Spec => []Inv
<1>1. Init => Inv
  <2> SUFFICES ASSUME Init PROVE ClosedInOrder /\ Located /\ Spared
    BY TypeInit DEF Inv
  <2>1. ClosedInOrder
    BY DEF Init, ClosedInOrder
  <2>2. Located
    BY DEF Init, Located
  <2>3. Spared
    BY PlaybackAssumption DEF Init, Spared, At, Actors
  <2> QED
    BY <2>1, <2>2, <2>3
<1>2. Inv /\ [Next]_vars => Inv'
  <2>1. CASE Inv /\ Next
    BY <2>1, TypeStep, OrderStep, LocatedStep, SparedStep DEF Inv
  <2>2. CASE Inv /\ UNCHANGED vars
    BY <2>2 DEF vars, wrapper, playing, network, Inv, TypeOK, FlagsOK, SeenOK,
       ClosedInOrder, Located, Reading, Streaming, Spared, At
  <2> QED
    BY <2>1, <2>2
<1> QED
  BY <1>1, <1>2, PTL DEF Spec

\* THEOREM: the expiry check of the watch goroutine (torrent_lifecycle.go:181-202)
\* never removes a torrent under somebody who has been streaming or reading
\* ever since the check began, for any number of clients.
THEOREM ExpirySpares == Spec => []ExpirySparesPlayback
<1>1. Inv => ExpirySparesPlayback
  BY DEF Inv, Spared, ExpirySparesPlayback
<1> QED
  BY <1>1, InvInductive, PTL

\* THEOREM: every way out of a request, the failures included, gives back the
\* admission slot and the reader (stream.go:48, stream_http.go:432-440).
THEOREM NothingLeaks == Spec => []IdleHoldsNothing
<1>1. Inv => IdleHoldsNothing
  BY DEF Inv, Located, Reading, Streaming, ResumeLabels, IdleHoldsNothing, Idle, At
<1> QED
  BY <1>1, InvInductive, PTL
=============================================================================
