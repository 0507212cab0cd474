------------------------ MODULE StreamReader_proofs ------------------------
(***************************************************************************)
(* For every number of readers, every file and every Range header: a       *)
(* request sends what it was asked for, under its own context, and the     *)
(* count of active readers is exact.                                       *)
(***************************************************************************)
EXTENDS StreamReader, FiniteSetTheorems, SequenceTheorems, TLAPS

Block == 0 .. FileSize
Part == [first : Block, end : Block]

(* The types, with active an integer: that it is no less than 0 follows    *)
(* from its being a count.                                                 *)
Types ==
  /\ pc \in [Readers -> PC]
  /\ header \in [Readers -> Headers]
  /\ playing \subseteq Readers /\ gone \subseteq Readers
  /\ open \subseteq Readers /\ isUse \subseteq Readers
  /\ items \subseteq Readers /\ active \in Int
  /\ offset \in [Readers -> Block] /\ under \in [Readers -> Block]
  /\ ctx \in [Readers -> {"background", "request", "warmup"}]
  /\ err \in [Readers -> {"none", "eof", "deadline", "failed"}]
  /\ warmed \in [Readers -> Block]
  /\ pos \in [Readers -> Block] /\ virtual \subseteq Readers
  /\ todo \in [Readers -> Seq(Part)]
  /\ sent \in [Readers -> Block]
  /\ scan.left \subseteq Readers /\ scan.total \in Nat

(* Where the library's reader stands: at Reader.offset while the reader is *)
(* in use, at the start of the file while it is demoted.                   *)
Placed(r) ==
  /\ r \in isUse => under[r] = offset[r]
  /\ r \notin isUse => under[r] = 0
  /\ locked(r) => r \in isUse
  /\ pc[r] = "idle" => offset[r] = 0 /\ r \notin isUse /\ r \notin open

(* What serveContentReadSeeker knows of the position, and where that is    *)
(* relative to the part being sent.                                        *)
Cursor(r) ==
  /\ pc[r] \in {"sniff", "sniffing", "rewind", "copying"} => r \notin virtual
  /\ pc[r] \in {"sniff", "sniffing", "part", "copy", "copying"} /\ r \notin virtual
       => pos[r] = offset[r]
  /\ pc[r] \in {"part", "copy", "copying"} => todo[r] # <<>>
  /\ pc[r] = "part" => sent[r] = 0
  /\ pc[r] \in {"copy", "copying"} => pos[r] = todo[r][1].first + sent[r]

(* Whose context the library's reader has.                                 *)
Bound(r) ==
  pc[r] \in {"seek", "warmup", "restore", "serve", "sniff", "sniffing", "rewind",
             "probe", "part", "copy", "copying"} => ctx[r] = "request"

Local(r) == Placed(r) /\ Cursor(r) /\ Bound(r)

Inv ==
  /\ Types
  /\ \A r \in Readers : Local(r)

-----------------------------------------------------------------------------
(* The numbers among the constants. *)
LEMMA Sizes ==
  /\ FileSize \in Nat /\ FileSize > 0
  /\ WarmupMaxOffset \in Nat /\ WarmupMaxBlocks \in Nat
  BY StreamReaderAssumption

LEMMA Blocks == 0 \in Block /\ Block \subseteq Nat
  BY Sizes DEF Block

(* The first offset of a request lies in the file. *)
LEMMA InitialOffsetInFile ==
  ASSUME NEW h \in Headers PROVE initialStreamOffset(h) \in Block
  <1> DEFINE S == [first : Nat \cup {Suffix}, last : Nat]
  <1>1. h \in Seq(S)
    BY StreamReaderAssumption, Zenon
  <1>2. Len(h) = 1 => h[1] \in S
    <2> HIDE DEF S
    <2> QED  BY <1>1
  <1>3. Len(h) = 1 /\ h[1].first # Suffix => h[1].first \in Nat
    BY <1>2
  <1> QED
    BY <1>3, Sizes DEF initialStreamOffset, Block

(* The warm-up wants no more than the file holds. *)
LEMMA TargetInFile ==
  ASSUME NEW start \in Block PROVE warmupTarget(start) \in Block
  BY Sizes DEF warmupTarget, Block

(* A header asks for a sequence of parts of the file. *)
LEMMA PartsInFile ==
  ASSUME NEW h \in Headers PROVE parseRange[h] \in Seq(Part)
  BY StreamReaderAssumption, Zenon DEF Part, Block

(* Inv holds at the start. *)
LEMMA InitInv == Init => Inv
  <1> SUFFICES ASSUME Init PROVE Inv
    OBVIOUS
  <1>1. Types
    BY StreamReaderAssumption, EmptySeq, Blocks DEF Init, Types, PC, NoScan
  <1>2. ASSUME NEW r \in Readers PROVE Local(r)
    BY <1>2 DEF Init, Local, Placed, Cursor, Bound, locked
  <1> QED
    BY <1>1, <1>2 DEF Inv

(* The first part of a non-empty list, and the rest of the list. *)
LEMMA FirstPart ==
  ASSUME NEW t \in Seq(Part), t # <<>>
  PROVE  /\ t[1].first \in Block /\ t[1].end \in Block
         /\ Tail(t) \in Seq(Part)
         /\ Len(t) # 1 => Tail(t) # <<>>
  <1>1. t[1] \in Part /\ Tail(t) \in Seq(Part) /\ (Len(t) # 1 => Tail(t) # <<>>)
    <2>1. Len(t) \in Nat /\ Len(t) # 0
      BY EmptySeq
    <2>2. t[1] \in Part
      BY <2>1, ElementOfSeq
    <2>3. Tail(t) \in Seq(Part) /\ Len(Tail(t)) = Len(t) - 1
      BY HeadTailProperties
    <2> QED
      BY <2>1, <2>2, <2>3
  <1> QED
    BY <1>1 DEF Part

(* The steps of the goroutine of a request, except the last, keep Inv. *)
LEMMA StepInv ==
  ASSUME Inv, NEW r \in Requests, Step(r), ~CloseReader(r) PROVE Inv'
  <1>r. r \in Readers
    BY DEF Readers
  <1>t. Types /\ \A q \in Readers : Local(q)
    BY DEF Inv
  <1>a. initialStreamOffset(header[r]) \in Block
    BY <1>r, <1>t, InitialOffsetInFile DEF Types
  <1>b. restored(r) = offset[r]
    BY <1>r, <1>t DEF Types, Local, Placed, restored
  <1>c. parseRange[header[r]] \in Seq(Part)
    BY <1>r, <1>t, PartsInFile DEF Types
  <1>d. pc[r] = "part" => todo[r][1].first \in Block
    BY <1>r, <1>t, FirstPart DEF Types, Local, Cursor
  <1> USE <1>r, <1>t, <1>a, <1>b, <1>c, <1>d, Blocks
      DEF request, reader, warmup, content, Goto, Seek, seekReal, readLock, readerOn
  <1>1. CASE SeekInitial(r)
    <2>1. Types'
      <3>1. CASE offset[r] = initialStreamOffset(header[r])
        BY <1>1, <3>1 DEF SeekInitial, Types, PC
      <3>2. CASE Seek(r, initialStreamOffset(header[r]))
        BY <1>1, <3>2 DEF SeekInitial, Types, PC
      <3> QED  BY <1>1, <3>1, <3>2 DEF SeekInitial
    <2>2. ASSUME NEW q \in Readers PROVE Local(q)'
      BY <1>1 DEF SeekInitial, Types, Local, Placed, Cursor, Bound, locked
    <2> QED  BY <2>1, <2>2 DEF Inv
  <1>2. CASE StartWarmup(r)
    <2>1. Types'
      BY <1>2 DEF StartWarmup, Types, PC
    <2>2. ASSUME NEW q \in Readers PROVE Local(q)'
      BY <1>2 DEF StartWarmup, Types, Local, Placed, Cursor, Bound, locked
    <2> QED  BY <2>1, <2>2 DEF Inv
  <1>3. CASE SkipWarmup(r)
    <2>1. Types'
      BY <1>3 DEF SkipWarmup, Types, PC
    <2>2. ASSUME NEW q \in Readers PROVE Local(q)'
      BY <1>3 DEF SkipWarmup, Types, Local, Placed, Cursor, Bound, locked
    <2> QED  BY <2>1, <2>2 DEF Inv
  <1>4. CASE WarmupRead(r)
    <2>1. Types'
      BY <1>4 DEF WarmupRead, Types, PC
    <2>2. ASSUME NEW q \in Readers PROVE Local(q)'
      BY <1>4 DEF WarmupRead, Types, Local, Placed, Cursor, Bound, locked
    <2> QED  BY <2>1, <2>2 DEF Inv
  <1>5. CASE RebindContext(r)
    <2>1. Types'
      BY <1>5 DEF RebindContext, Types, PC
    <2>2. ASSUME NEW q \in Readers PROVE Local(q)'
      BY <1>5 DEF RebindContext, Types, Local, Placed, Cursor, Bound, locked
    <2> QED  BY <2>1, <2>2 DEF Inv
  <1>6. CASE RestoreOffset(r)
    <2>1. Types'
      BY <1>6 DEF RestoreOffset, Types, PC, warmupStart
    <2>2. ASSUME NEW q \in Readers PROVE Local(q)'
      BY <1>6 DEF RestoreOffset, Types, Local, Placed, Cursor, Bound, locked, warmupStart
    <2> QED  BY <2>1, <2>2 DEF Inv
  <1>7. CASE ServeContent(r)
    <2>1. Types'
      BY <1>7 DEF ServeContent, Types, PC
    <2>2. ASSUME NEW q \in Readers PROVE Local(q)'
      BY <1>7 DEF ServeContent, Types, Local, Placed, Cursor, Bound, locked
    <2> QED  BY <2>1, <2>2 DEF Inv
  <1>8. CASE Sniff(r)
    <2>1. Types'
      BY <1>8 DEF Sniff, Types, PC
    <2>2. ASSUME NEW q \in Readers PROVE Local(q)'
      BY <1>8 DEF Sniff, Types, Local, Placed, Cursor, Bound, locked
    <2> QED  BY <2>1, <2>2 DEF Inv
  <1>9. CASE Rewind(r)
    <2>1. Types'
      BY <1>9 DEF Rewind, Types, PC
    <2>2. ASSUME NEW q \in Readers PROVE Local(q)'
      BY <1>9 DEF Rewind, Types, Local, Placed, Cursor, Bound, locked
    <2> QED  BY <2>1, <2>2 DEF Inv
  <1>10. CASE Probe(r)
    <2>1. /\ pc' \in [Readers -> PC]
          /\ pc'[r] \in {"close", "copy", "part"}
          /\ \A q \in Readers \ {r} : pc'[q] = pc[q]
      BY <1>10 DEF Probe, Types, PC
    <2>2. pc'[r] = "copy" => header[r] = <<>>
      BY <1>10 DEF Probe, Types
    <2>3. pc'[r] \in {"copy", "part"} => parseRange[header[r]] # <<>>
      BY <1>10 DEF Probe, Types
    <2>4. header[r] = <<>> => parseRange[header[r]][1].first = 0
      BY StreamReaderAssumption
    <2>5. Types'
      BY <1>10, <2>1 DEF Probe, Types
    <2>6. Local(r)'
      BY <1>10, <2>1, <2>2, <2>3, <2>4 DEF Probe, Types, Local, Placed, Cursor, Bound, locked
    <2>7. ASSUME NEW q \in Readers \ {r} PROVE Local(q)'
      BY <1>10, <2>1 DEF Probe, Types, Local, Placed, Cursor, Bound, locked
    <2> QED  BY <2>5, <2>6, <2>7 DEF Inv
  <1>11. CASE SeekPart(r)
    <2>0. pc[r] = "part" /\ sent[r] = 0 /\ todo[r][1].first + 0 = todo[r][1].first
      <3>1. pc[r] = "part"
        BY <1>11 DEF SeekPart
      <3>2. todo[r][1].first \in Nat
        BY <3>1
      <3> QED  BY <3>1, <3>2 DEF Local, Cursor
    <2>1. CASE r \in virtual
      <3>1. Types'
        BY <1>11, <2>1 DEF SeekPart, Types, PC
      <3>2. Local(r)'
        BY <1>11, <2>0, <2>1 DEF SeekPart, Types, Local, Placed, Cursor, Bound, locked
      <3>3. ASSUME NEW q \in Readers \ {r} PROVE Local(q)'
        BY <1>11, <2>1 DEF SeekPart, Types, Local, Placed, Cursor, Bound, locked
      <3> QED  BY <3>1, <3>2, <3>3 DEF Inv
    <2>2. CASE r \notin virtual
      <3> DEFINE target == todo[r][1].first
      <3>1. /\ pc[r] = "part" /\ Goto(r, "copy") /\ seekReal(r, target)
            /\ UNCHANGED <<request, ctx, warmup, todo, sent, scan>>
        BY <1>11, <2>2 DEF SeekPart
      <3>2. target \in Block
        BY <3>1
      <3>3. Types'
        <4> HIDE DEF target
        <4> QED  BY <3>1, <3>2 DEF Types, PC
      <3>4. pos'[r] = target /\ offset'[r] = target /\ under'[r] = target
        <4> HIDE DEF target
        <4> QED  BY <3>1 DEF Types
      <3>5. Local(r)'
        BY <3>1, <3>4, <2>0 DEF Types, Local, Placed, Cursor, Bound, locked
      <3>6. ASSUME NEW q \in Readers \ {r} PROVE Local(q)'
        <4> HIDE DEF target
        <4> QED  BY <3>1 DEF Types, Local, Placed, Cursor, Bound, locked
      <3> QED  BY <3>3, <3>5, <3>6 DEF Inv
    <2> QED  BY <2>1, <2>2 DEF Inv
  <1>12. CASE CopySeek(r)
    <2>1. Types'
      BY <1>12 DEF CopySeek, Types, PC
    <2>2. ASSUME NEW q \in Readers PROVE Local(q)'
      BY <1>12 DEF CopySeek, Types, Local, Placed, Cursor, Bound, locked
    <2> QED  BY <2>1, <2>2 DEF Inv
  <1>13. CASE CopyRead(r)
    <2>1. Types'
      BY <1>13 DEF CopyRead, Types, PC
    <2>2. ASSUME NEW q \in Readers PROVE Local(q)'
      BY <1>13 DEF CopyRead, Types, Local, Placed, Cursor, Bound, locked
    <2> QED  BY <2>1, <2>2 DEF Inv
  <1> QED
    BY <1>1, <1>2, <1>3, <1>4, <1>5, <1>6, <1>7, <1>8, <1>9, <1>10, <1>11, <1>12, <1>13 DEF Step

(* An answer of the library keeps Inv; it brings no more than the file has. *)
LEMMA AnswerInv ==
  ASSUME Inv, NEW r \in Requests, NEW n \in Block,
         NEW e \in {"none", "eof", "deadline", "failed"},
         n > 0 => under[r] + n <= FileSize,
         answer(r, n, e)
  PROVE  Inv'
  <1>r. r \in Readers
    BY DEF Readers
  <1>t. Types /\ \A q \in Readers : Local(q)
    BY DEF Inv
  <1>a. warmupTarget(warmupStart(r)) \in Block
    BY <1>r, <1>t, InitialOffsetInFile, TargetInFile DEF Types, warmupStart
  <1>b. locked(r) => under[r] = offset[r] /\ under[r] + n \in Block
    BY <1>r, <1>t, Sizes DEF Block, Types, Local, Placed
  <1> USE <1>r, <1>t, Blocks DEF request, reader, warmup, content, Goto, readDone
  <1>1. CASE WarmupReadDone(r, n, e)
    <2>1. warmed[r] + n \in Block
      BY <1>1, <1>a, Sizes DEF WarmupReadDone, Types, Block
    <2>2. Types'
      BY <1>1, <1>b, <2>1 DEF WarmupReadDone, Types, PC, locked
    <2>3. ASSUME NEW q \in Readers PROVE Local(q)'
      BY <1>1, <1>b DEF WarmupReadDone, Types, Local, Placed, Cursor, Bound, locked
    <2> QED  BY <2>2, <2>3 DEF Inv
  <1>2. CASE SniffDone(r, n)
    <2>1. Types'
      BY <1>2, <1>b DEF SniffDone, Types, PC, locked, Local, Cursor
    <2>2. ASSUME NEW q \in Readers PROVE Local(q)'
      BY <1>2, <1>b DEF SniffDone, Types, Local, Placed, Cursor, Bound, locked
    <2> QED  BY <2>1, <2>2 DEF Inv
  <1>3. CASE CopyDone(r, n, e)
    <2>1. /\ todo[r][1].first \in Block /\ todo[r][1].end \in Block
          /\ Tail(todo[r]) \in Seq(Part)
          /\ Len(todo[r]) # 1 => Tail(todo[r]) # <<>>
      BY <1>3, FirstPart DEF CopyDone, Types, Local, Cursor
    <2>2. sent[r] + n \in Block
      <3>1. sent[r] + n <= todo[r][1].end - todo[r][1].first
        BY <1>3 DEF CopyDone
      <3>2. sent[r] \in Block
        BY DEF Types
      <3> QED  BY <3>1, <3>2, <2>1, Sizes DEF Block
    <2>3. pos[r] = offset[r]
      BY <1>3 DEF CopyDone, Local, Cursor
    <2>4. Types'
      BY <1>3, <1>b, <2>1, <2>2, <2>3 DEF CopyDone, Types, PC, locked
    <2>5. Local(r)'
      <3> DEFINE finished == sent[r] + n = todo[r][1].end - todo[r][1].first
      <3>1. /\ pc[r] = "copying" /\ r \in isUse /\ r \notin virtual
            /\ pos[r] = todo[r][1].first + sent[r] /\ todo[r] # <<>>
            /\ ctx[r] = "request"
        BY <1>3 DEF CopyDone, Local, Placed, Cursor, Bound, locked
      <3>2. /\ under'[r] = under[r] + n /\ offset'[r] = offset[r] + n
            /\ pos'[r] = pos[r] + n
            /\ isUse' = isUse /\ virtual' = virtual /\ ctx' = ctx
        BY <1>3 DEF CopyDone, Types
      <3>3. /\ pc'[r] \in {"close", "part", "copy"}
            /\ pc'[r] = "part" => finished /\ Len(todo[r]) # 1
            /\ pc'[r] = "copy" => ~finished
        BY <1>3 DEF CopyDone, Types
      <3>4. /\ finished => sent'[r] = 0 /\ todo'[r] = Tail(todo[r])
            /\ ~finished => sent'[r] = sent[r] + n /\ todo'[r] = todo[r]
        BY <1>3 DEF CopyDone, Types
      <3>5. under[r] = offset[r]
        BY <1>b, <3>1 DEF locked
      <3>6. Placed(r)'
        BY <3>1, <3>2, <3>3, <3>5 DEF Placed, locked
      <3>7. pc'[r] = "copy" => pos'[r] = todo'[r][1].first + sent'[r]
        <4>1. sent[r] \in Nat /\ todo[r][1].first \in Nat
          BY <2>1 DEF Types
        <4> QED  BY <3>1, <3>2, <3>3, <3>4, <4>1
      <3>8. Cursor(r)'
        <4> HIDE DEF finished
        <4> QED  BY <2>1, <2>3, <3>1, <3>2, <3>3, <3>4, <3>7 DEF Cursor
      <3>9. Bound(r)'
        BY <3>1, <3>2 DEF Bound
      <3> QED  BY <3>6, <3>8, <3>9 DEF Local
    <2>6. ASSUME NEW q \in Readers \ {r} PROVE Local(q)'
      BY <1>3 DEF CopyDone, Types, Local, Placed, Cursor, Bound, locked
    <2> QED  BY <2>4, <2>5, <2>6 DEF Inv
  <1> QED
    BY <1>1, <1>2, <1>3 DEF answer

(* Every step keeps Inv. *)
LEMMA NextInv == Inv /\ [Next]_vars => Inv'
  <1> SUFFICES ASSUME Inv, [Next]_vars PROVE Inv'
    OBVIOUS
  <1>t. Types /\ \A q \in Readers : Local(q)
    BY DEF Inv
  <1>s. Requests \subseteq Readers /\ Mounts \subseteq Readers
    BY DEF Readers
  <1> USE <1>t, <1>s DEF request, reader, warmup, content, Goto
  <1>1. ASSUME NEW r \in Requests, NEW h \in Headers, NEW play \in BOOLEAN,
               NewReader(r, h, play)
        PROVE  Inv'
    <2>1. Types'
      BY <1>1 DEF NewReader, Types, PC
    <2>2. ASSUME NEW q \in Readers PROVE Local(q)'
      BY <1>1 DEF NewReader, Types, Local, Placed, Cursor, Bound, locked
    <2> QED  BY <2>1, <2>2 DEF Inv
  <1>2. ASSUME NEW r \in Readers, CloseReader(r) PROVE Inv'
    <2>1. Types'
      BY <1>2, StreamReaderAssumption, EmptySeq, Blocks DEF CloseReader, forget, Types, PC
    <2>2. ASSUME NEW q \in Readers PROVE Local(q)'
      BY <1>2 DEF CloseReader, forget, Types, Local, Placed, Cursor, Bound, locked
    <2> QED  BY <2>1, <2>2 DEF Inv
  <1>3. ASSUME NEW r \in Requests, Answer(r) PROVE Inv'
    <2>1. ASSUME NEW n \in 1 .. FileSize, ReadData(r, n) \/ ReadEOF(r, n) PROVE Inv'
      <3>1. n \in Block /\ under[r] + n <= FileSize
        BY <2>1, Sizes DEF ReadData, ReadEOF, Block
      <3>2. CASE ReadData(r, n)
        BY <3>1, <3>2, AnswerInv DEF ReadData
      <3>3. CASE ReadEOF(r, n)
        BY <3>1, <3>3, AnswerInv DEF ReadEOF
      <3> QED  BY <2>1, <3>2, <3>3
    <2>2. ASSUME NEW e \in {"none", "eof", "deadline", "failed"}, answer(r, 0, e)
          PROVE  Inv'
      BY <2>2, AnswerInv, Blocks
    <2> QED
      BY <1>3, <2>1, <2>2 DEF Answer, ReadFails, ReadCancelled, ReadTimesOut
  <1>4. ASSUME NEW r \in Requests, ClientLeaves(r) \/ WriteFails(r) PROVE Inv'
    <2>1. Types'
      BY <1>4 DEF ClientLeaves, WriteFails, Types, PC
    <2>2. ASSUME NEW q \in Readers PROVE Local(q)'
      BY <1>4 DEF ClientLeaves, WriteFails, Types, Local, Placed, Cursor, Bound, locked
    <2> QED  BY <2>1, <2>2 DEF Inv
  <1>5. ASSUME NEW m \in Mounts, OpenFile(m) PROVE Inv'
    <2>1. Types'
      BY <1>5 DEF OpenFile, Types, PC
    <2>2. ASSUME NEW q \in Readers PROVE Local(q)'
      BY <1>5 DEF OpenFile, Types, Local, Placed, Cursor, Bound, locked
    <2> QED  BY <2>1, <2>2 DEF Inv
  <1>6. ASSUME NEW r \in Readers, checkReader(r) PROVE Inv'
    <2>1. restored(r) = offset[r]
      BY <1>6 DEF Types, Local, Placed, restored
    <2>2. CASE r \notin open /\ UNCHANGED reader
      BY <1>6, <2>2 DEF checkReader, Inv, Types, Local, Placed, Cursor, Bound, locked
    <2>3. CASE r \in open /\ readerOff(r) /\ UNCHANGED <<open, items, offset>>
      <3>1. Types'
        BY <1>6, <2>3, Blocks DEF checkReader, readerOff, Types
      <3>2. Local(r)'
        BY <1>6, <2>3, Blocks DEF checkReader, readerOff, Types, Local, Placed, Cursor,
                                  Bound, locked
      <3>3. ASSUME NEW q \in Readers \ {r} PROVE Local(q)'
        BY <1>6, <2>3 DEF checkReader, readerOff, Types, Local, Placed, Cursor, Bound, locked
      <3> QED  BY <3>1, <3>2, <3>3 DEF Inv
    <2>4. CASE r \in open /\ readLock(r)
      <3>1. Types'
        BY <1>6, <2>1, <2>4 DEF checkReader, readLock, readerOn, Types
      <3>2. ASSUME NEW q \in Readers PROVE Local(q)'
        BY <1>6, <2>1, <2>4 DEF checkReader, readLock, readerOn, Types, Local, Placed,
                                Cursor, Bound, locked
      <3> QED  BY <3>1, <3>2 DEF Inv
    <2> QED  BY <1>6, <2>2, <2>3, <2>4 DEF checkReader
  <1>7. CASE CopyReaders
    <2>1. IsFiniteSet(items)
      BY StreamReaderAssumption, FS_Subset DEF Types
    <2>2. Cardinality(items) \in Nat
      BY <2>1, FS_CardinalityType
    <2>3. Types'
      BY <1>7, <2>2 DEF CopyReaders, Types
    <2>4. ASSUME NEW q \in Readers PROVE Local(q)'
      BY <1>7 DEF CopyReaders, Local, Placed, Cursor, Bound, locked
    <2> QED  BY <2>3, <2>4 DEF Inv
  <1>8. CASE UNCHANGED vars
    BY <1>8 DEF vars, Inv, Types, Local, Placed, Cursor, Bound, locked
  <1> QED
    BY <1>1, <1>2, <1>3, <1>4, <1>5, <1>6, <1>7, <1>8, StepInv DEF Next, Readers

-----------------------------------------------------------------------------
(* A step leaves the readers in use alone, or one reader is woken, or one  *)
(* is demoted or closed; the count follows.                                *)
Woken(r) ==
  /\ isUse' = isUse \cup {r}
  /\ active' = IF r \in isUse THEN active ELSE active + 1

Retired(r) ==
  /\ isUse' = isUse \ {r}
  /\ active' = IF r \in isUse THEN active - 1 ELSE active

(* Every step is of one of the three kinds. *)
LEMMA UseChanges ==
  ASSUME Inv, [Next]_vars
  PROVE  \/ UNCHANGED <<isUse, active>>
         \/ \E r \in Readers : Woken(r) \/ Retired(r)
  <1> DEFINE Goal == \/ UNCHANGED <<isUse, active>>
                     \/ \E r \in Readers : Woken(r) \/ Retired(r)
  <1> USE DEF reader, Readers
  <1>1. ASSUME NEW r \in Readers, isUse' = isUse \cup {r}, active' = active + 1, pc[r] = "idle"
        PROVE  Goal
    BY <1>1 DEF Inv, Local, Placed, Woken
  <1>2. ASSUME NEW r \in Requests, NEW h \in Headers, NEW play \in BOOLEAN,
               NewReader(r, h, play)
        PROVE  Goal
    BY <1>1, <1>2 DEF NewReader
  <1>3. ASSUME NEW m \in Mounts, OpenFile(m) PROVE Goal
    BY <1>1, <1>3 DEF OpenFile
  <1>4. ASSUME NEW r \in Readers, CloseReader(r) PROVE Goal
    BY <1>4 DEF CloseReader, Retired
  <1>5. ASSUME NEW r \in Requests, Step(r), ~CloseReader(r) PROVE Goal
    <2> USE DEF Seek, seekReal, readLock, readerOn, Woken
    <2>1. CASE SeekInitial(r) \/ RestoreOffset(r) \/ Rewind(r) \/ SeekPart(r) \/ CopySeek(r)
      BY <2>1 DEF SeekInitial, RestoreOffset, Rewind, SeekPart, CopySeek
    <2>2. CASE WarmupRead(r) \/ Sniff(r) \/ CopyRead(r)
      BY <2>2 DEF WarmupRead, Sniff, CopyRead
    <2>3. CASE StartWarmup(r) \/ SkipWarmup(r) \/ RebindContext(r) \/ ServeContent(r) \/ Probe(r)
      BY <2>3 DEF StartWarmup, SkipWarmup, RebindContext, ServeContent, Probe
    <2> QED
      BY <1>5, <2>1, <2>2, <2>3 DEF Step
  <1>6. ASSUME NEW r \in Requests, NEW n, NEW e, answer(r, n, e) PROVE Goal
    BY <1>6 DEF answer, WarmupReadDone, SniffDone, CopyDone, readDone
  <1>7. ASSUME NEW r \in Requests, Answer(r) PROVE Goal
    BY <1>6, <1>7 DEF Answer, ReadData, ReadEOF, ReadFails, ReadCancelled, ReadTimesOut
  <1>8. ASSUME NEW r \in Requests, ClientLeaves(r) \/ WriteFails(r) PROVE Goal
    BY <1>8 DEF ClientLeaves, WriteFails
  <1>9. ASSUME NEW r \in Readers, checkReader(r) PROVE Goal
    BY <1>9 DEF checkReader, readLock, readerOn, readerOff, Woken, Retired
  <1>10. ASSUME CopyReaders \/ UNCHANGED vars PROVE Goal
    BY <1>10 DEF CopyReaders, vars
  <1> HIDE DEF Goal
  <1>11. Goal
    <2>1. ASSUME NEW r \in Requests, Step(r) PROVE Goal
      BY <1>4, <1>5, <2>1
    <2>2. ASSUME NEW m \in Mounts, CloseReader(m) PROVE Goal
      BY <1>4, <2>2
    <2> HIDE DEF Readers, reader
    <2> QED
      BY <1>2, <1>3, <1>7, <1>8, <1>9, <1>10, <2>1, <2>2, Zenon DEF Next
  <1> QED
    BY <1>11 DEF Goal

(* The count stays exact. *)
LEMMA CountKept == Inv /\ ActiveExact /\ [Next]_vars => ActiveExact'
  <1> SUFFICES ASSUME Inv, ActiveExact, [Next]_vars PROVE ActiveExact'
    OBVIOUS
  <1>1. IsFiniteSet(isUse) /\ active = Cardinality(isUse)
    BY StreamReaderAssumption, FS_Subset DEF Inv, Types, ActiveExact
  <1>2. ASSUME NEW r \in Readers, Woken(r) PROVE ActiveExact'
    <2>1. Cardinality(isUse \cup {r})
            = IF r \in isUse THEN Cardinality(isUse) ELSE Cardinality(isUse) + 1
      BY <1>1, FS_AddElement
    <2> QED
      BY <1>1, <1>2, <2>1 DEF Woken, ActiveExact
  <1>3. ASSUME NEW r \in Readers, Retired(r) PROVE ActiveExact'
    <2>1. Cardinality(isUse \ {r})
            = IF r \in isUse THEN Cardinality(isUse) - 1 ELSE Cardinality(isUse)
      BY <1>1, FS_RemoveElement
    <2> QED
      BY <1>1, <1>3, <2>1 DEF Retired, ActiveExact
  <1>4. CASE UNCHANGED <<isUse, active>>
    BY <1>1, <1>4 DEF ActiveExact
  <1> QED
    BY <1>2, <1>3, <1>4, UseChanges

(* Inv and the exact count together are an invariant. *)
LEMMA Invariance == Spec => [](Inv /\ ActiveExact)
  <1>1. Init => ActiveExact
    BY FS_EmptySet DEF Init, ActiveExact
  <1> QED
    BY <1>1, InitInv, NextInv, CountKept, PTL DEF Spec

-----------------------------------------------------------------------------
(* Every variable keeps its type; in particular the count of active        *)
(* readers never falls below 0, whatever the order of demotions and closes.*)
THEOREM TypeCorrect == Spec => []TypeOK
  <1>1. Inv /\ ActiveExact => TypeOK
    <2> SUFFICES ASSUME Inv, ActiveExact PROVE TypeOK
      OBVIOUS
    <2>1. active \in Nat
      BY StreamReaderAssumption, FS_Subset, FS_CardinalityType DEF Inv, Types, ActiveExact
    <2> QED
      BY <2>1 DEF Inv, Types, TypeOK, Block, Part
  <1> QED
    BY <1>1, Invariance, PTL

(* ServeContent sends the blocks the Range header asks for, through        *)
(* warm-up, size probe, virtual seeks and demotions, and no read for the   *)
(* client is left under the deadline of the warm-up: for every file size,  *)
(* header and number of readers.                                           *)
THEOREM ServesRange == Spec => []ServesRequest
  <1>1. Inv => ServesRequestedRange
    BY DEF Inv, Local, Placed, Cursor, locked, Readers, ServesRequestedRange
  <1>2. Inv => ReadsUnderRequest
    BY DEF Inv, Local, Bound, Readers, ReadsUnderRequest
  <1> QED
    BY <1>1, <1>2, Invariance, PTL DEF ServesRequest

(* Cache.readers.active is the number of readers in use, for any number of *)
(* them.                                                                   *)
THEOREM ActiveCount == Spec => []ActiveExact
  BY Invariance, PTL
=============================================================================
