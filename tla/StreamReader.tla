---------------------------- MODULE StreamReader ----------------------------
(***************************************************************************)
(* What a stream request reads, once it is admitted (server/torr/stream.go,*)
(* stream_http.go, stream_content.go, storage/torrstor/reader.go): the     *)
(* cache reader and its library reader, the startup warm-up, and           *)
(* http.ServeContent working through serveContentReadSeeker.  Beside the   *)
(* requests a scan of the readers (snapshotActiveReaders) demotes the ones *)
(* that have been idle and wakes the others.                               *)
(*                                                                         *)
(* One action is one section under Reader.mu; a Read, which may block with *)
(* the mutex held, is two.  Positions are counted in blocks.  Waiting times*)
(* are free: a reader may be found idle at any moment, a warm-up may time  *)
(* out at any moment.                                                      *)
(***************************************************************************)
EXTENDS Integers, FiniteSets, Sequences

CONSTANTS
  Requests,
  Mounts,           \* readers of the file-system front ends (torrfs)
  FileSize,         \* blocks of the file
  Headers,          \* Range headers: sequences of [first, last]
  Shapes,           \* the requests a client makes: header, and for playback?
  Suffix,           \* the "first" of a suffix range, whose "last" is a length
  parseRange,       \* net/http: the parts of the file a header asks for
  WarmupMaxOffset,  \* startupWarmupMaxInitialOffset
  WarmupMaxBlocks   \* startupWarmupDefaultMaxBytes, with the cache share

Readers == Requests \cup Mounts

ASSUME StreamReaderAssumption ==
  /\ Requests \cap Mounts = {} /\ IsFiniteSet(Readers)
  /\ Suffix \in Int \ Nat
  /\ FileSize \in Nat \ {0}
  /\ WarmupMaxOffset \in Nat /\ WarmupMaxBlocks \in Nat \ {0}
  /\ Headers \subseteq Seq([first : Nat \cup {Suffix}, last : Nat])
  /\ <<>> \in Headers
  /\ parseRange \in [Headers -> Seq([first : 0 .. FileSize, end : 0 .. FileSize])]
  /\ parseRange[<<>>] = <<[first |-> 0, end |-> FileSize]>>
  /\ Shapes \in [Requests -> SUBSET (Headers \X BOOLEAN)]

VARIABLES
  pc,       \* where the goroutine of each request is
  header,   \* its Range header
  playing,  \* the GET requests for playback (isPlaybackStreamRequest)
  gone,     \* the requests whose context is cancelled: the client has left
  open,     \* the readers that exist with Reader.isClosed false
  items,    \* keys of Cache.readers.items
  active,   \* Cache.readers.active
  isUse,    \* the readers with Reader.isUse
  offset,   \* Reader.offset
  under,    \* position of the library's reader
  ctx,      \* context of the library's reader
  err,      \* error of the last read of the warm-up
  warmed,   \* blocks the warm-up has read
  pos,      \* serveContentReadSeeker.pos
  virtual,  \* the ones with serveContentReadSeeker.virtual
  todo,     \* ranges ServeContent still has to send
  sent,     \* blocks sent of the first of them
  scan      \* local state of snapshotActiveReaders

request == <<header, playing, gone>>
reader == <<open, items, active, isUse, offset, under>>
warmup == <<err, warmed>>
content == <<pos, virtual, todo, sent>>
vars == <<pc, header, playing, gone, open, items, active, isUse, offset, under,
          ctx, err, warmed, pos, virtual, todo, sent, scan>>

Goto(r, label) == pc' = [pc EXCEPT ![r] = label]
NoScan == [left |-> {}, total |-> 0]

Init ==
  /\ pc = [r \in Readers |-> "idle"]
  /\ header = [r \in Readers |-> <<>>]
  /\ playing = {} /\ gone = {}
  /\ open = {}
  /\ items = {} /\ active = 0
  /\ isUse = {}
  /\ offset = [r \in Readers |-> 0] /\ under = [r \in Readers |-> 0]
  /\ ctx = [r \in Readers |-> "background"]
  /\ err = [r \in Readers |-> "none"] /\ warmed = [r \in Readers |-> 0]
  /\ pos = [r \in Readers |-> 0] /\ virtual = {}
  /\ todo = [r \in Readers |-> <<>>] /\ sent = [r \in Readers |-> 0]
  /\ scan = NoScan

-----------------------------------------------------------------------------
(* torrstor.Reader *)

\* A Read in progress holds Reader.mu; every other section is one action.
locked(r) == pc[r] \in {"warming", "sniffing", "copying"}

\* Mutant: every wake-up counts.
readerOn_recounts(r, from) ==
  /\ isUse' = isUse \cup {r}
  /\ active' = active + 1
  /\ under' = [under EXCEPT ![r] = from]

\* readerOnLocked: a demoted reader gets its position back and counts again.
readerOn(r, from) ==
  /\ isUse' = isUse \cup {r}
  /\ active' = IF r \in isUse THEN active ELSE active + 1
  /\ under' = [under EXCEPT ![r] = from]

\* Where the library's reader stands after readerOnLocked.
restored(r) == IF r \notin isUse /\ under[r] = 0 THEN offset[r] ELSE under[r]

\* readerOffLocked: the library's reader goes to the start of the file, so that
\* it keeps no piece wanted; Reader.offset remembers where it was.
readerOff(r) ==
  /\ isUse' = isUse \ {r}
  /\ active' = IF r \in isUse THEN active - 1 ELSE active
  /\ under' = [under EXCEPT ![r] = IF r \in isUse /\ offset[r] > 0 THEN 0 ELSE @]

\* Seek(target, io.SeekStart)
Seek(r, target) ==
  /\ readerOn(r, target)
  /\ offset' = [offset EXCEPT ![r] = target]
  /\ UNCHANGED <<open, items>>

\* The first half of Read: lock, wake the reader, ask the library.
readLock(r) ==
  /\ readerOn(r, restored(r))
  /\ UNCHANGED <<open, items, offset>>

\* The second half: n blocks have arrived.
readDone(r, n) ==
  /\ under' = [under EXCEPT ![r] = @ + n]
  /\ offset' = [offset EXCEPT ![r] = @ + n]
  /\ UNCHANGED <<open, items, active, isUse>>

-----------------------------------------------------------------------------
(* newReaderForRequest *)

\* requestedRangeStart and initialStreamOffset: a single range with a first
\* position inside the file; a suffix or a list of ranges starts at 0.
initialStreamOffset(h) ==
  IF Len(h) = 1 /\ h[1].first # Suffix /\ h[1].first < FileSize
    THEN h[1].first ELSE 0

\* Mutant: the reader is not bound to the request.
NewReader_unbound(r, h, play) ==
  /\ pc[r] = "idle"
  /\ <<h, play>> \in Shapes[r]
  /\ header' = [header EXCEPT ![r] = h]
  /\ playing' = IF play THEN playing \cup {r} ELSE playing
  /\ open' = open \cup {r}
  /\ items' = items \cup {r} /\ active' = active + 1
  /\ isUse' = isUse \cup {r}
  /\ Goto(r, "seek")
  /\ UNCHANGED <<gone, offset, under, ctx, warmup, content, scan>>

\* The reader is registered and bound to the context of the request.
NewReader(r, h, play) ==
  /\ pc[r] = "idle"
  /\ <<h, play>> \in Shapes[r]
  /\ header' = [header EXCEPT ![r] = h]
  /\ playing' = IF play THEN playing \cup {r} ELSE playing
  /\ open' = open \cup {r}
  /\ items' = items \cup {r} /\ active' = active + 1
  /\ isUse' = isUse \cup {r}
  /\ ctx' = [ctx EXCEPT ![r] = "request"]
  /\ Goto(r, "seek")
  /\ UNCHANGED <<gone, offset, under, warmup, content, scan>>

\* torrfs opens a file: a reader beside those of the requests, held until the
\* file is closed.
OpenFile(m) ==
  /\ pc[m] = "idle"
  /\ open' = open \cup {m}
  /\ items' = items \cup {m} /\ active' = active + 1
  /\ isUse' = isUse \cup {m}
  /\ Goto(m, "close")
  /\ UNCHANGED <<request, offset, under, ctx, warmup, content, scan>>

SeekInitial(r) ==
  /\ pc[r] = "seek"
  /\ IF offset[r] = initialStreamOffset(header[r])
       THEN UNCHANGED reader ELSE Seek(r, initialStreamOffset(header[r]))
  /\ Goto(r, "warmup")
  /\ UNCHANGED <<request, ctx, warmup, content, scan>>

-----------------------------------------------------------------------------
(* warmupPlaybackStartup: read ahead from the start offset, under a context *)
(* of its own that times out, then go back.                                *)

\* playbackStartupWarmupTargetBytes
warmupTarget(start) ==
  IF WarmupMaxBlocks > FileSize - start THEN FileSize - start ELSE WarmupMaxBlocks

\* Mutant: the warm-up reads under the context of the request, without a limit.
StartWarmup_unlimited(r) ==
  /\ pc[r] = "warmup"
  /\ r \in playing /\ offset[r] <= WarmupMaxOffset
  /\ warmupTarget(offset[r]) > 0
  /\ Goto(r, "warm")
  /\ UNCHANGED <<request, reader, ctx, warmup, content, scan>>

\* decidePlaybackStartupWarmup; whether a preload has satisfied the target
\* already is a free choice.
StartWarmup(r) ==
  /\ pc[r] = "warmup"
  /\ r \in playing /\ offset[r] <= WarmupMaxOffset
  /\ warmupTarget(offset[r]) > 0
  /\ ctx' = [ctx EXCEPT ![r] = "warmup"]
  /\ Goto(r, "warm")
  /\ UNCHANGED <<request, reader, warmup, content, scan>>

SkipWarmup(r) ==
  /\ pc[r] = "warmup"
  /\ Goto(r, "serve")
  /\ UNCHANGED <<request, reader, ctx, warmup, content, scan>>

\* The start offset is a local variable of the warm-up; the initial offset is
\* what it was read from.
warmupStart(r) == initialStreamOffset(header[r])

WarmupRead(r) ==
  /\ pc[r] = "warm"
  /\ readLock(r)
  /\ Goto(r, "warming")
  /\ UNCHANGED <<request, ctx, warmup, content, scan>>

\* The loop of readPlaybackStartupWarmup ends with its target or an error (or an
\* empty read, which the library does not return).
WarmupReadDone(r, n, e) ==
  /\ pc[r] = "warming"
  /\ warmed[r] + n <= warmupTarget(warmupStart(r))
  /\ readDone(r, n)
  /\ warmed' = [warmed EXCEPT ![r] = @ + n]
  /\ err' = [err EXCEPT ![r] = e]
  /\ Goto(r, IF e = "none" /\ n > 0 /\ warmed[r] + n < warmupTarget(warmupStart(r))
               THEN "warm" ELSE "rebind")
  /\ UNCHANGED <<request, ctx, content, scan>>

\* Mutant: the reader keeps the context of the warm-up.
RebindContext_forgets(r) ==
  /\ pc[r] = "rebind"
  /\ Goto(r, "restore")
  /\ UNCHANGED <<request, reader, ctx, warmup, content, scan>>

RebindContext(r) ==
  /\ pc[r] = "rebind"
  /\ ctx' = [ctx EXCEPT ![r] = "request"]
  /\ Goto(r, "restore")
  /\ UNCHANGED <<request, reader, warmup, content, scan>>

\* Back to the start offset.  A timeout and the end of the file are no reason
\* to give up; a cancelled request and any other error are.
RestoreOffset(r) ==
  /\ pc[r] = "restore"
  /\ Seek(r, warmupStart(r))
  /\ Goto(r, IF r \in gone \/ err[r] = "failed" THEN "close" ELSE "serve")
  /\ warmed' = [warmed EXCEPT ![r] = 0] /\ err' = [err EXCEPT ![r] = "none"]
  /\ UNCHANGED <<request, ctx, content, scan>>

-----------------------------------------------------------------------------
(* http.ServeContent on a serveContentReadSeeker.  The calls it makes are  *)
(* the library's; what they do is stream_content.go.                       *)

\* newServeContentReadSeeker takes the position of the reader; then the
\* preconditions of the request may end it, or its type has to be sniffed.
ServeContent(r) ==
  /\ pc[r] = "serve"
  /\ pos' = [pos EXCEPT ![r] = offset[r]]
  /\ virtual' = virtual \ {r}
  /\ \E next \in {"close", "sniff", "probe"} : Goto(r, next)
  /\ UNCHANGED <<request, reader, ctx, warmup, todo, sent, scan>>

Sniff(r) ==
  /\ pc[r] = "sniff"
  /\ readLock(r)
  /\ Goto(r, "sniffing")
  /\ UNCHANGED <<request, ctx, warmup, content, scan>>

SniffDone(r, n) ==
  /\ pc[r] = "sniffing"
  /\ readDone(r, n)
  /\ pos' = [pos EXCEPT ![r] = @ + n]
  /\ Goto(r, "rewind")
  /\ UNCHANGED <<request, ctx, warmup, virtual, todo, sent, scan>>

\* seekReal of serveContentReadSeeker
seekReal(r, target) ==
  /\ Seek(r, target)
  /\ pos' = [pos EXCEPT ![r] = target]
  /\ virtual' = virtual \ {r}

\* Seek(0, io.SeekStart) after the sniff: nothing is virtual yet.
Rewind(r) ==
  /\ pc[r] = "rewind"
  /\ seekReal(r, 0)
  /\ Goto(r, "probe")
  /\ UNCHANGED <<request, ctx, warmup, todo, sent, scan>>

\* Seek(0, io.SeekEnd), Seek(0, io.SeekStart): the probe for the size does not
\* reach the reader.  No part to send means "range not satisfiable"; a HEAD
\* request ends here too.
Probe(r) ==
  /\ pc[r] = "probe"
  /\ pos' = [pos EXCEPT ![r] = 0]
  /\ virtual' = virtual \cup {r}
  /\ todo' = [todo EXCEPT ![r] = parseRange[header[r]]]
  /\ \/ Goto(r, "close")
     \/ /\ parseRange[header[r]] # <<>>
        /\ Goto(r, IF header[r] = <<>> THEN "copy" ELSE "part")
  /\ sent' = [sent EXCEPT ![r] = 0]
  /\ UNCHANGED <<request, reader, ctx, warmup, scan>>

\* Mutant: a seek that follows another part stays virtual without marking it.
SeekPart_lazy(r) ==
  /\ pc[r] = "part"
  /\ pos' = [pos EXCEPT ![r] = todo[r][1].first]
  /\ Goto(r, "copy")
  /\ UNCHANGED <<request, reader, ctx, warmup, virtual, todo, sent, scan>>

\* Seek(first, io.SeekStart): virtual after the probe, real afterwards.
SeekPart(r) ==
  /\ pc[r] = "part"
  /\ IF r \in virtual
       THEN pos' = [pos EXCEPT ![r] = todo[r][1].first] /\ UNCHANGED <<reader, virtual>>
       ELSE seekReal(r, todo[r][1].first)
  /\ Goto(r, "copy")
  /\ UNCHANGED <<request, ctx, warmup, todo, sent, scan>>

\* serveContentReadSeeker.Read: a virtual position becomes real first.
CopySeek(r) ==
  /\ pc[r] = "copy" /\ r \in virtual
  /\ seekReal(r, pos[r])
  /\ UNCHANGED <<pc, request, ctx, warmup, todo, sent, scan>>

CopyRead(r) ==
  /\ pc[r] = "copy" /\ r \notin virtual
  /\ readLock(r)
  /\ Goto(r, "copying")
  /\ UNCHANGED <<request, ctx, warmup, content, scan>>

\* n blocks go to the client; an error before the part is complete ends the
\* response (io.CopyN).
CopyDone(r, n, e) ==
  LET length == todo[r][1].end - todo[r][1].first
      finished == sent[r] + n = length
  IN  /\ pc[r] = "copying"
      /\ sent[r] + n <= length
      /\ readDone(r, n)
      /\ pos' = [pos EXCEPT ![r] = @ + n]
      /\ sent' = [sent EXCEPT ![r] = IF finished THEN 0 ELSE @ + n]
      /\ todo' = [todo EXCEPT ![r] = IF finished THEN Tail(@) ELSE @]
      /\ Goto(r, IF (e # "none" /\ ~finished) \/ (finished /\ Len(todo[r]) = 1) THEN "close"
                 ELSE IF finished THEN "part" ELSE "copy")
      /\ UNCHANGED <<request, ctx, warmup, virtual, scan>>

-----------------------------------------------------------------------------
(* The library answers a Read: with data, with the last of it and io.EOF,  *)
(* when the context it was given ends, or because the torrent is closed.   *)

answer(r, n, e) ==
  \/ WarmupReadDone(r, n, e)
  \/ SniffDone(r, n)
  \/ CopyDone(r, n, e)

ReadData(r, n) == under[r] + n <= FileSize /\ answer(r, n, "none")
ReadEOF(r, n) == under[r] + n = FileSize /\ answer(r, n, "eof")
ReadFails(r) == answer(r, 0, "failed")
ReadCancelled(r) == r \in gone /\ ctx[r] # "background" /\ answer(r, 0, "failed")
ReadTimesOut(r) == ctx[r] = "warmup" /\ answer(r, 0, "deadline")

\* The client leaves: the context of its request is cancelled.
ClientLeaves(r) ==
  /\ pc[r] # "idle" /\ r \notin gone
  /\ gone' = gone \cup {r}
  /\ UNCHANGED <<pc, header, playing, reader, ctx, warmup, content, scan>>

\* A write to a client that has left fails.
WriteFails(r) ==
  /\ pc[r] = "copy" /\ r \in gone
  /\ Goto(r, "close")
  /\ UNCHANGED <<request, reader, ctx, warmup, content, scan>>

\* What a request has kept for itself is gone with it.
forget(r) ==
  /\ header' = [header EXCEPT ![r] = <<>>]
  /\ playing' = playing \ {r} /\ gone' = gone \ {r}
  /\ offset' = [offset EXCEPT ![r] = 0] /\ under' = [under EXCEPT ![r] = 0]
  /\ ctx' = [ctx EXCEPT ![r] = "background"]
  /\ pos' = [pos EXCEPT ![r] = 0] /\ virtual' = virtual \ {r}
  /\ todo' = [todo EXCEPT ![r] = <<>>] /\ sent' = [sent EXCEPT ![r] = 0]

\* Mutant: the count drops whether or not the reader was in use.
CloseReader_always(r) ==
  /\ pc[r] = "close"
  /\ items' = items \ {r}
  /\ open' = open \ {r}
  /\ active' = active - 1
  /\ isUse' = isUse \ {r}
  /\ forget(r)
  /\ Goto(r, "idle")
  /\ UNCHANGED <<warmup, scan>>

\* The deferred calls of Stream: CloseReader takes the reader out of the cache
\* and closes it.
CloseReader(r) ==
  /\ pc[r] = "close"
  /\ items' = items \ {r}
  /\ open' = open \ {r}
  /\ active' = IF r \in isUse THEN active - 1 ELSE active
  /\ isUse' = isUse \ {r}
  /\ forget(r)
  /\ Goto(r, "idle")
  /\ UNCHANGED <<warmup, scan>>

-----------------------------------------------------------------------------
(* snapshotActiveReaders: copy the readers, then check one after another.  *)

CopyReaders ==
  /\ scan.left = {} /\ items # {}
  /\ scan' = [left |-> items, total |-> Cardinality(items)]
  /\ UNCHANGED <<pc, request, reader, ctx, warmup, content>>

\* checkReader: with other readers about, one that has been idle is demoted;
\* otherwise it is woken.  A closed one is left alone.
checkReader(r) ==
  /\ r \in scan.left
  /\ ~locked(r)
  /\ \/ r \notin open /\ UNCHANGED reader
     \/ /\ r \in open /\ scan.total > 1
        /\ readerOff(r)
        /\ UNCHANGED <<open, items, offset>>
     \/ r \in open /\ readLock(r)
  /\ scan' = [scan EXCEPT !.left = @ \ {r}]
  /\ UNCHANGED <<pc, request, ctx, warmup, content>>

-----------------------------------------------------------------------------
Step(r) ==
  \/ SeekInitial(r) \/ StartWarmup(r) \/ SkipWarmup(r)
  \/ WarmupRead(r) \/ RebindContext(r) \/ RestoreOffset(r)
  \/ ServeContent(r) \/ Sniff(r) \/ Rewind(r) \/ Probe(r)
  \/ SeekPart(r) \/ CopySeek(r) \/ CopyRead(r) \/ CloseReader(r)

Answer(r) ==
  \/ \E n \in 1 .. FileSize : ReadData(r, n) \/ ReadEOF(r, n)
  \/ ReadFails(r) \/ ReadCancelled(r) \/ ReadTimesOut(r)

Next ==
  \/ \E r \in Requests :
       \/ \E h \in Headers, play \in BOOLEAN : NewReader(r, h, play)
       \/ Step(r) \/ Answer(r)
       \/ ClientLeaves(r) \/ WriteFails(r)
  \/ \E m \in Mounts : OpenFile(m) \/ CloseReader(m)
  \/ \E r \in Readers : checkReader(r)
  \/ CopyReaders

Spec == Init /\ [][Next]_vars

\* The goroutine of a request runs; a Read returns when its context ends.  No
\* data need ever arrive.
Fairness ==
  \A r \in Requests :
    /\ WF_vars(Step(r)) /\ WF_vars(WriteFails(r))
    /\ WF_vars(ReadCancelled(r)) /\ WF_vars(ReadTimesOut(r))

FairSpec == Spec /\ Fairness

-----------------------------------------------------------------------------
(* Properties. *)

PC == {"idle", "seek", "warmup", "warm", "warming", "rebind", "restore", "serve",
       "sniff", "sniffing", "rewind", "probe", "part", "copy", "copying", "close"}

\* Every variable has its type.
TypeOK ==
  /\ pc \in [Readers -> PC]
  /\ header \in [Readers -> Headers]
  /\ playing \subseteq Readers /\ gone \subseteq Readers
  /\ open \subseteq Readers /\ isUse \subseteq Readers
  /\ items \subseteq Readers /\ active \in Nat
  /\ offset \in [Readers -> 0 .. FileSize] /\ under \in [Readers -> 0 .. FileSize]
  /\ ctx \in [Readers -> {"background", "request", "warmup"}]
  /\ err \in [Readers -> {"none", "eof", "deadline", "failed"}]
  /\ warmed \in [Readers -> 0 .. FileSize]
  /\ pos \in [Readers -> 0 .. FileSize] /\ virtual \subseteq Readers
  /\ todo \in [Readers -> Seq([first : 0 .. FileSize, end : 0 .. FileSize])]
  /\ sent \in [Readers -> 0 .. FileSize]
  /\ scan.left \subseteq Readers /\ scan.total \in Nat

\* What the library is asked for, for the client, is the next block of the part
\* being sent: neither the warm-up, nor the size probe, nor a demotion while the
\* client paused has moved the reader away.
ServesRequestedRange ==
  \A r \in Requests :
    pc[r] = "copying" => under[r] = todo[r][1].first + sent[r]

\* A read for the client runs under the context of the request: the deadline of
\* the warm-up cannot cut playback off.
ReadsUnderRequest == \A r \in Requests : pc[r] = "copying" => ctx[r] = "request"

\* What is read for the client is what it asked for, and for as long as it asks.
ServesRequest == ServesRequestedRange /\ ReadsUnderRequest

\* Cache.readers.active, on which quiesce, readahead and expiry depend, is the
\* number of readers in use, however demotions, wake-ups and closes interleave.
ActiveExact == active = Cardinality(isUse)

\* A request whose client has left ends, even if no data ever arrives.
CancelledEnds == \A r \in Requests : r \in gone ~> pc[r] = "idle"

\* The warm-up delays a stream, it never keeps it: it ends without any data.
WarmupEnds == \A r \in Requests : pc[r] = "warm" ~> pc[r] \notin {"warm", "warming"}

\* Nobody reads for ever: neither for a client that left nor to warm up.
ReadsEnd == CancelledEnds /\ WarmupEnds
=============================================================================
