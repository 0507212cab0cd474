--------------------------- MODULE ManagementClient ---------------------------
(***************************************************************************)
(* torrctl, the command line client (internal/cliapp, internal/apiclient):  *)
(* the file of contexts that several invocations share, the requests to the *)
(* management API, the resolution of a torrent's name against the list of   *)
(* the server, and the upload of a torrent file by two goroutines with a    *)
(* pipe between them.  The server answers, refuses, or its answer is lost;  *)
(* behind the address there may also be another service.                    *)
(***************************************************************************)
EXTENDS Integers, Sequences, SequencesExt, FiniteSets, TLC

CONSTANTS
  Ctls,            \* processes that run one command after the other
  CtlTorrents,     \* torrents the server knows at the start: a sequence of hashes
  NewTorrent,      \* the torrent that add and upload bring
  CtlTitles,       \* [word -> torrents whose title has it]; a hash can be a word too
  CtlIdentifiers,  \* ways to name a torrent: [kind: "index", "hash" or "title", value]
  CtlContexts,     \* [name -> "torrserver", "other" or "bad": what its address leads to]
  ContextNames,    \* names that commands use
  VersionDocs,     \* version documents that servers of all times give
  FileParts,       \* parts in which the torrent file goes through the pipe
  MaxCtlCommands   \* bound: commands

ASSUME ClientAssumption ==
  /\ \A id \in CtlIdentifiers : /\ id.kind \in {"index", "hash", "title"}
                                /\ id.kind # "index" => id.value \in DOMAIN CtlTitles
  /\ \A word \in DOMAIN CtlTitles : IsFiniteSet(CtlTitles[word])

VARIABLES
  contextFile,     \* the file of contexts
  ctl,             \* [process -> its command]
  upload,          \* [process -> the state of its upload]
  serverTorrents,  \* the server's list
  effects,         \* ghost: [process -> what the server did for its command]
  ctlCommands

clientVars == <<contextFile, ctl, upload, serverTorrents, effects, ctlCommands>>

-----------------------------------------------------------------------------
(* Contexts.  A file is missing, whole, truncated, or a mixture.            *)
-----------------------------------------------------------------------------
defaultContextConfig == [current |-> "local", contexts |-> ("local" :> "torrserver")]
\* Two contents that are not JSON.
Truncated == [current |-> "", contexts |-> <<>>]
Mixed == [current |-> "?", contexts |-> <<>>]

normalizeContextConfig(cfg) ==
  LET all == IF "local" \in DOMAIN cfg.contexts THEN cfg.contexts
             ELSE cfg.contexts @@ defaultContextConfig.contexts
  IN  [current |-> IF cfg.current \in DOMAIN all THEN cfg.current ELSE "local", contexts |-> all]

\* Changes of contextAdd, contextUse and contextRemove, and when each is refused.
contextAllowed(cfg, change, name) ==
  \/ change = "add"
  \/ change = "use" /\ name \in DOMAIN cfg.contexts
  \/ change = "remove" /\ name # "local" /\ name \in DOMAIN cfg.contexts

contextChanged(cfg, change, name) ==
  CASE change = "add" -> [cfg EXCEPT !.contexts = (name :> CtlContexts[name]) @@ @]
    [] change = "use" -> [cfg EXCEPT !.current = name]
    [] change = "remove" ->
         [current |-> IF cfg.current = name THEN "local" ELSE cfg.current,
          contexts |-> [n \in DOMAIN cfg.contexts \ {name} |-> cfg.contexts[n]]]

-----------------------------------------------------------------------------
(* Commands.                                                                *)
-----------------------------------------------------------------------------
command(op, arg) == [op |-> op, arg |-> arg]

\* resolveTorrentAddOptions and validateTorrentUploadFile: exactly one source, and a
\* local one is a regular file that is neither empty nor too large.
AddSources == {"none", "several", "link", "file", "missing file", "no regular file", "empty file", "large file"}
addOptions(source) ==
  CASE source = "link" -> "add"
    [] source = "file" -> "upload"
    [] OTHER -> "refused"

ContextCommands == [op : {"context"}, arg : [change : {"add", "use", "remove"}, name : ContextNames]]
ReadOperations == {command("version", "none"), command("list", "none")} \cup [op : {"get"}, arg : CtlIdentifiers]
WriteOperations == [op : {"rem", "drop"}, arg : CtlIdentifiers] \cup {command("wipe", "none")}
AddCommands == {command(addOptions(s), "none") : s \in AddSources}

\* Operations that take no document from the answer: whatever a status below 400 comes with.
UndecodedOperations == {"rem", "drop", "wipe"}
ResolvedOperations == {"get", "rem", "drop"}
\* What confirmCommand asks for.
ConfirmedOperations == {"wipe"}

NoCommand == [pc |-> "idle", op |-> "none", arg |-> "none", confirmed |-> FALSE, cfg |-> Truncated,
              service |-> "none", listed |-> <<>>, target |-> 0, answer |-> "none", result |-> "none"]
NoUpload == [writer |-> "none", parts |-> 0, boundary |-> FALSE, readerOpen |-> FALSE,
             fileOpen |-> FALSE, answer |-> "none"]

ClientInit ==
  /\ contextFile = defaultContextConfig
  /\ ctl = [c \in Ctls |-> NoCommand]
  /\ upload = [c \in Ctls |-> NoUpload]
  /\ serverTorrents = CtlTorrents
  /\ effects = [c \in Ctls |-> {}]
  /\ ctlCommands = 0

CtlAt(c, pc) == ctl[c].pc = pc
Ends(c, result) == ctl' = [ctl EXCEPT ![c].pc = "idle", ![c].result = result, ![c].cfg = Truncated, ![c].answer = "none"]

\* Run: the arguments, then the confirmation or the contexts.
StartCommand(c) ==
  /\ CtlAt(c, "idle") /\ ctlCommands < MaxCtlCommands
  /\ \E cmd \in ContextCommands \cup ReadOperations \cup WriteOperations \cup AddCommands :
       ctl' = [ctl EXCEPT ![c] =
                 [NoCommand EXCEPT !.op = cmd.op, !.arg = cmd.arg,
                    !.pc = CASE cmd.op = "refused" -> "idle"
                             [] cmd.op \in ConfirmedOperations -> "confirm"
                             [] OTHER -> "load",
                    !.result = IF cmd.op = "refused" THEN "error" ELSE "none"]]
  /\ upload' = [upload EXCEPT ![c] = NoUpload]
  /\ effects' = [effects EXCEPT ![c] = {}]
  /\ ctlCommands' = ctlCommands + 1
  /\ UNCHANGED <<contextFile, serverTorrents>>

\* --yes or the word at the prompt; anything else cancels.
ConfirmCommand(c) ==
  /\ CtlAt(c, "confirm")
  /\ \/ ctl' = [ctl EXCEPT ![c].pc = "load", ![c].confirmed = TRUE]
     \/ Ends(c, "error")
  /\ UNCHANGED <<contextFile, upload, serverTorrents, effects, ctlCommands>>

\* applyContextToOptions: the name given with --context, or else the current one.
chosenContexts(cfg) == {cfg.current} \cup ContextNames

\* New: an address that normalizeBaseURL refuses makes no client.
validBaseURL(address) == address # "bad"

\* fileContextStore.Load; a remote command goes on with its context and New.
LoadContexts(c) ==
  /\ CtlAt(c, "load")
  /\ IF contextFile \in {Truncated, Mixed} THEN Ends(c, "error")
     ELSE LET cfg == normalizeContextConfig(contextFile)
          IN  IF ctl[c].op = "context"
              THEN ctl' = [ctl EXCEPT ![c].pc = "change", ![c].cfg = cfg]
              ELSE \E name \in chosenContexts(cfg) :
                     IF ~(name \in DOMAIN cfg.contexts /\ validBaseURL(cfg.contexts[name]))
                     THEN Ends(c, "error")
                     ELSE ctl' = [ctl EXCEPT ![c].service = cfg.contexts[name],
                                    ![c].pc = CASE ctl[c].op = "upload" -> "open"
                                                [] ctl[c].op \in ResolvedOperations -> "resolve"
                                                [] OTHER -> "request"]
  /\ UNCHANGED <<contextFile, upload, serverTorrents, effects, ctlCommands>>

ChangeContexts(c) ==
  /\ CtlAt(c, "change")
  /\ LET change == ctl[c].arg.change
         name == ctl[c].arg.name
     IN  IF contextAllowed(ctl[c].cfg, change, name)
         THEN ctl' = [ctl EXCEPT ![c].pc = "truncate",
                        ![c].cfg = normalizeContextConfig(contextChanged(@, change, name))]
         ELSE Ends(c, "error")
  /\ UNCHANGED <<contextFile, upload, serverTorrents, effects, ctlCommands>>

\* os.WriteFile opens with truncation and then writes from the start; what another process
\* has written in between keeps its tail if it was longer.
TruncateContexts(c) ==
  /\ CtlAt(c, "truncate")
  /\ contextFile' = Truncated
  /\ ctl' = [ctl EXCEPT ![c].pc = "write"]
  /\ UNCHANGED <<upload, serverTorrents, effects, ctlCommands>>

WriteContexts(c) ==
  /\ CtlAt(c, "write")
  /\ \/ contextFile' = ctl[c].cfg
     \/ contextFile \notin {Truncated, ctl[c].cfg} /\ contextFile' = Mixed
  /\ Ends(c, "ok")
  /\ UNCHANGED <<upload, serverTorrents, effects, ctlCommands>>

-----------------------------------------------------------------------------
(* Requests: doJSON.                                                        *)
-----------------------------------------------------------------------------
\* What a TorrServer does that answers 200.  Started with --rdb it answers a removal as
\* always, and removes nothing.
outcomes(op, target) ==
  {<<op, target>>} \cup IF op \in {"rem", "wipe"} THEN {<<"ignored", target>>} ELSE {}

\* The server's list after an operation; a wipe removes all it finds, in one step here.
afterOperation(op, target) ==
  CASE op = "rem" -> SelectSeq(serverTorrents, LAMBDA h : h # target)
    [] op = "wipe" -> <<>>
    [] op \in {"add", "upload"} ->
         IF NewTorrent \in Range(serverTorrents) THEN serverTorrents ELSE Append(serverTorrents, NewTorrent)
    [] OTHER -> serverTorrents

\* The server performs the request of c, or what the request asks for is nothing to it.
Performs(c, op, target) ==
  \E done \in outcomes(op, target) :
    /\ serverTorrents' = afterOperation(done[1], target)
    /\ effects' = [effects EXCEPT ![c] = @ \cup {done}]

\* readAndCloseResponse: an answer that does not come, or not within the limit, is an error.
readBounded(answer) == answer \notin {"lost", "long"}

\* So is a status of 400 and more, and, where a document is wanted, a body that is none;
\* an empty body is never one.
doJSON(answer, op) ==
  /\ readBounded(answer) /\ answer # "refused"
  /\ answer \in {"ok", "empty"} \/ op \in UndecodedOperations

\* external: TorrServer answers after the operation or instead of it; another service
\* refuses, or answers with a page or with nothing under status 200.
Answers(service) ==
  {"refused", "lost", "long"} \cup IF service = "torrserver" THEN {"ok"} ELSE {"page", "empty"}

Request(c) ==
  /\ CtlAt(c, "request")
  /\ \E answer \in Answers(ctl[c].service) :
       /\ ctl' = [ctl EXCEPT ![c].pc = "answered", ![c].answer = answer]
       /\ \/ /\ ctl[c].service = "torrserver" /\ answer # "refused"
             /\ Performs(c, ctl[c].op, ctl[c].target)
          \/ /\ ctl[c].service # "torrserver" \/ answer \in {"refused", "lost"}
             /\ UNCHANGED <<serverTorrents, effects>>
  /\ UNCHANGED <<contextFile, upload, ctlCommands>>

\* The version document: the product, the API version, the application's version and the
\* capability, or the document of an old server that is known not to have them.
isRecognizedLegacyVersion(doc) ==
  doc.product = "" /\ doc.application = "" /\ ~doc.capable /\ doc.current = "v1" /\ doc.legacy
normalizeAndValidateVersion(doc) ==
  \/ isRecognizedLegacyVersion(doc)
  \/ doc.product = "torrserver" /\ doc.current = "v1" /\ doc.application # "" /\ doc.capable

\* What is left of the document when the body was empty.
EmptyVersion == [product |-> "", current |-> "", application |-> "", capable |-> FALSE, legacy |-> FALSE]

\* Why a server cannot be used (classifyCompatibilityError).
classifyCompatibilityError(answer) ==
  CASE answer = "refused" -> {"endpoint missing", "authentication", "server"}
    [] answer \in {"page", "long"} -> {"malformed"}
    [] OTHER -> {"transport"}

Answered(c) ==
  /\ CtlAt(c, "answered")
  /\ IF ctl[c].op = "version" /\ ctl[c].answer \in {"ok", "empty"}
     THEN \E doc \in IF ctl[c].answer = "ok" THEN VersionDocs ELSE {EmptyVersion} :
            Ends(c, IF normalizeAndValidateVersion(doc) THEN "ok" ELSE "error")
     ELSE IF ctl[c].op = "version"
     THEN \E kind \in classifyCompatibilityError(ctl[c].answer) : Ends(c, "error")
     ELSE Ends(c, IF doJSON(ctl[c].answer, ctl[c].op) THEN "ok" ELSE "error")
  /\ UNCHANGED <<contextFile, upload, serverTorrents, effects, ctlCommands>>

\* Torrents that an identifier means in a list: a position, a hash or part of a title, as
\* which a hash that is not in the list is taken too.
resolveTorrentID(list, id) ==
  CASE id.kind = "index" -> {list[i] : i \in {id.value} \cap DOMAIN list}
    [] id.kind = "hash" /\ id.value \in Range(list) -> {id.value}
    [] OTHER -> CtlTitles[id.value] \cap Range(list)

\* A mutant: of several torrents with the title the first one is taken.
Resolve_first(c) ==
  /\ CtlAt(c, "resolve")
  /\ \/ LET meant == resolveTorrentID(serverTorrents, ctl[c].arg)
        IN  /\ ctl[c].service = "torrserver" /\ meant # {}
            /\ \E h \in meant :
                 ctl' = [ctl EXCEPT ![c].pc = "request", ![c].target = h, ![c].listed = serverTorrents]
     \/ Ends(c, "error")
  /\ UNCHANGED <<contextFile, upload, serverTorrents, effects, ctlCommands>>

\* The list is asked for (and may fail to come); the identifier has to mean exactly one
\* torrent in it.
Resolve(c) ==
  /\ CtlAt(c, "resolve")
  /\ \/ LET meant == resolveTorrentID(serverTorrents, ctl[c].arg)
        IN  /\ ctl[c].service = "torrserver" /\ Cardinality(meant) = 1
            /\ \E h \in meant :
                 ctl' = [ctl EXCEPT ![c].pc = "request", ![c].target = h, ![c].listed = serverTorrents]
     \/ Ends(c, "error")
  /\ UNCHANGED <<contextFile, upload, serverTorrents, effects, ctlCommands>>

-----------------------------------------------------------------------------
(* The upload: doMultipartFile and the goroutine writeMultipartFile.        *)
-----------------------------------------------------------------------------
OpenUpload(c) ==
  /\ CtlAt(c, "open")
  /\ \/ Ends(c, "error") /\ UNCHANGED upload
     \/ /\ ctl' = [ctl EXCEPT ![c].pc = "do"]
        /\ upload' = [upload EXCEPT ![c] = [NoUpload EXCEPT !.writer = "content", !.readerOpen = TRUE,
                                                            !.fileOpen = TRUE]]
  /\ UNCHANGED <<contextFile, serverTorrents, effects, ctlCommands>>

\* The transport reads the pipe: the writer gets rid of a part, or of the last boundary,
\* which multipartWriter.Close writes after a failure as well; then the pipe is closed with
\* the error, if any, and the result is sent.
PipeTakes(c) ==
  /\ upload[c].readerOpen
  /\ \/ /\ upload[c].writer = "content" /\ upload[c].parts < FileParts
        /\ upload' = [upload EXCEPT ![c].parts = @ + 1]
     \/ /\ upload[c].writer \in {"written", "failed"}
        /\ upload' = [upload EXCEPT ![c].boundary = TRUE,
                        ![c].writer = IF @ = "written" THEN "done" ELSE "error"]
  /\ UNCHANGED <<contextFile, ctl, serverTorrents, effects, ctlCommands>>

FileFails(c) ==
  /\ upload[c].writer = "content" /\ upload[c].parts < FileParts
  /\ upload' = [upload EXCEPT ![c].writer = "failed", ![c].fileOpen = FALSE]
  /\ UNCHANGED <<contextFile, ctl, serverTorrents, effects, ctlCommands>>

\* What the writer does by itself: the content is complete, or nobody reads the pipe.
WriterStep(c) ==
  /\ \/ /\ upload[c].writer = "content" /\ upload[c].parts = FileParts
        /\ upload' = [upload EXCEPT ![c].writer = "written", ![c].fileOpen = FALSE]
     \/ /\ upload[c].writer = "content" /\ upload[c].parts < FileParts /\ ~upload[c].readerOpen
        /\ upload' = [upload EXCEPT ![c].writer = "failed", ![c].fileOpen = FALSE]
     \/ /\ upload[c].writer \in {"written", "failed"} /\ ~upload[c].readerOpen
        /\ upload' = [upload EXCEPT ![c].writer = "error"]
  /\ UNCHANGED <<contextFile, ctl, serverTorrents, effects, ctlCommands>>

\* TorrServer takes the form when it has seen the boundary, and may refuse it before.
UploadAnswered(c) ==
  /\ CtlAt(c, "do") /\ upload[c].answer = "none"
  /\ \/ /\ ctl[c].service = "torrserver" /\ upload[c].boundary
        /\ upload' = [upload EXCEPT ![c].answer = "ok"]
        /\ Performs(c, "upload", upload[c].parts)
     \/ /\ \E answer \in Answers(ctl[c].service) \ {"ok", "lost", "long"} :
             upload' = [upload EXCEPT ![c].answer = answer]
        /\ UNCHANGED <<serverTorrents, effects>>
  /\ UNCHANGED <<contextFile, ctl, ctlCommands>>

\* http.Do: the answer, or the timeout, a lost connection or the error of the pipe.
UploadReturns(c) ==
  /\ CtlAt(c, "do")
  /\ \/ /\ upload[c].answer # "none"
        /\ \E answer \in {upload[c].answer, "lost", "long"} :
             ctl' = [ctl EXCEPT ![c].pc = "finish", ![c].answer = answer]
     \/ ctl' = [ctl EXCEPT ![c].pc = "finish", ![c].answer = "lost"]
  /\ UNCHANGED <<contextFile, upload, serverTorrents, effects, ctlCommands>>

\* A mutant: the result is awaited with the pipe left open.
FinishUpload_open(c) ==
  /\ CtlAt(c, "finish")
  /\ ctl' = [ctl EXCEPT ![c].pc = "wait"]
  /\ UNCHANGED <<contextFile, upload, serverTorrents, effects, ctlCommands>>

\* finishMultipartUpload: the reader's end of the pipe is closed, then the result awaited.
FinishUpload(c) ==
  /\ CtlAt(c, "finish")
  /\ ctl' = [ctl EXCEPT ![c].pc = "wait"]
  /\ upload' = [upload EXCEPT ![c].readerOpen = FALSE]
  /\ UNCHANGED <<contextFile, serverTorrents, effects, ctlCommands>>

UploadEnds(c) ==
  /\ CtlAt(c, "wait") /\ upload[c].writer \in {"done", "error"}
  /\ Ends(c, IF doJSON(ctl[c].answer, "upload") /\ upload[c].writer = "done" THEN "ok" ELSE "error")
  /\ UNCHANGED <<contextFile, upload, serverTorrents, effects, ctlCommands>>

\* The process is killed.
CtlDies(c) ==
  /\ ~CtlAt(c, "idle")
  /\ ctl' = [ctl EXCEPT ![c] = NoCommand]
  /\ upload' = [upload EXCEPT ![c] = NoUpload]
  /\ effects' = [effects EXCEPT ![c] = {}]
  /\ UNCHANGED <<contextFile, serverTorrents, ctlCommands>>

\* What the process does by itself, timeouts included.
CtlStep(c) ==
  \/ LoadContexts(c) \/ ChangeContexts(c) \/ TruncateContexts(c) \/ WriteContexts(c)
  \/ Request(c) \/ Answered(c) \/ Resolve(c)
  \/ OpenUpload(c) \/ UploadReturns(c) \/ FinishUpload(c) \/ UploadEnds(c)

ClientNext ==
  \E c \in Ctls : \/ StartCommand(c) \/ ConfirmCommand(c) \/ CtlStep(c) \/ WriterStep(c)
                  \/ PipeTakes(c) \/ FileFails(c) \/ UploadAnswered(c) \/ CtlDies(c)

ClientSpec == ClientInit /\ [][ClientNext]_clientVars

-----------------------------------------------------------------------------
\* A command that reports success has had its effect: the server did exactly what was
\* asked, to the one torrent that the name meant in the list the command had read,
\* whatever other clients did to the list since; an uploaded file arrived whole; a wipe
\* was confirmed.  (Another service than TorrServer may answer 200 with nothing, or with a
\* page where client.go wants no document: then a wipe, an addition or the list is reported
\* although nothing was done, but never a command that names a torrent, nor the version.
\* A TorrServer in read-only mode says that it has removed what it keeps.)
\* No command does more than it was asked for, even if it failed, and none leaves its
\* writer or its file behind.
CommandsHonest ==
  \A c \in Ctls :
    LET done == CtlAt(c, "idle")
        ok == done /\ ctl[c].result = "ok"
        asked == IF ctl[c].op = "upload" THEN FileParts ELSE ctl[c].target
    IN  /\ (ok /\ ctl[c].service = "torrserver") =>
             \E e \in outcomes(ctl[c].op, asked) : effects[c] = {e}
        /\ (ok /\ ctl[c].service = "other") => ctl[c].op \notin ResolvedOperations \cup {"version"}
        /\ \A e \in effects[c] :
             /\ e \in outcomes(ctl[c].op, e[2])
             /\ ctl[c].op = "wipe" => ctl[c].confirmed
             /\ ctl[c].op \in ResolvedOperations =>
                  resolveTorrentID(ctl[c].listed, ctl[c].arg) = {e[2]}
        /\ done => upload[c].writer \in {"none", "done", "error"} /\ ~upload[c].fileOpen

\* Every command that is past its confirmation comes to an end: the timeout ends the
\* request, and closing the pipe ends the writer (finishMultipartUpload).
CommandsEnd == \A c \in Ctls : ctl[c].pc \notin {"idle", "confirm"} ~> CtlAt(c, "idle")
=============================================================================
