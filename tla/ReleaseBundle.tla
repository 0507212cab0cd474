----------------------------- MODULE ReleaseBundle -----------------------------
(***************************************************************************)
(* The release directory (internal/releasebundle): CreateAll packs the      *)
(* collected binaries into one archive per platform and writes the checksum *)
(* manifest, each file through a temporary file and a rename, while the     *)
(* machine may fail or the process die between any two steps; VerifyAll     *)
(* decides later whether the directory is the release of a version and a    *)
(* commit.  A file is its content, a checksum is the content itself.        *)
(***************************************************************************)
EXTENDS Integers, Sequences, SequencesExt, FiniteSets

CONSTANTS
  ReleaseTargets,      \* releaseTargets: a sequence of [platform, zip]
  ValidVersions,       \* versions that match versionPattern
  ReleaseVersion,      \* the version asked for
  ReleaseCommit,       \* the commit asked for; not blank
  BuiltVersions,       \* versions that binaries are stamped with
  BuiltCommits,        \* commits (with build time and tree state) that binaries are stamped with
  LongerVersions,      \* version stamps whose text starts with that of ReleaseVersion
  LongerCommits,       \* commit stamps whose text starts with that of ReleaseCommit
  MaxMembers,          \* maxArchiveMembers
  MaxReleaseChanges    \* bound: changes others make to the directory

\* A bundle has four members; a text starts with itself.
ASSUME ReleaseAssumption ==
  /\ ReleaseVersion \in LongerVersions /\ ReleaseCommit \in LongerCommits
  /\ ReleaseTargets \in Seq([platform : STRING, zip : BOOLEAN]) /\ ReleaseTargets # <<>>
  /\ MaxMembers \in Nat /\ MaxMembers >= 4

Products == {"torrserver", "torrctl"}
TargetSet == Range(ReleaseTargets)

VARIABLES
  releaseDir,      \* [name of a file in the directory -> content]
  releaseConfig,   \* server/config/config.yml
  creator,         \* what CreateAll is doing
  temps,           \* temporary files in the directory
  releaseChanges, creatorDied, sinceCreated   \* ghosts

releaseVars == <<releaseDir, releaseConfig, creator, temps, releaseChanges, creatorDied, sinceCreated>>

-----------------------------------------------------------------------------
(* Names and contents (model.go).                                           *)
-----------------------------------------------------------------------------
validateVersion(v) == v \in ValidVersions
binaryAsset(product, t) == <<t.platform, product>>
bundleName(t) == <<t.platform, IF t.zip THEN "zip" ELSE "tar">>
ManifestName == <<"all", "SHA256SUMS">>
Assets == {binaryAsset(p, t) : p \in Products, t \in TargetSet} \cup {bundleName(t) : t \in TargetSet}

\* Three names for every target; the order stands for the sorted one.
expectedAssetNames ==
  [i \in 1 .. 3 * Len(ReleaseTargets) |->
     LET t == ReleaseTargets[(i + 2) \div 3]
     IN  <<binaryAsset("torrserver", t), binaryAsset("torrctl", t), bundleName(t)>>[((i + 2) % 3) + 1]]

Binary(product, version, commit) ==
  [kind |-> "binary", product |-> product, version |-> version, commit |-> commit]
EmptyFile == [kind |-> "empty"]
Link == [kind |-> "link"]          \* not a regular file
Garbage == [kind |-> "garbage"]    \* a regular file that is no archive
Config(debug) == [kind |-> "config", debug |-> debug]
Archive(members) == [kind |-> "archive", members |-> members]
Manifest(lines) == [kind |-> "manifest", lines |-> lines]

validateRegularFile(name) ==
  name \in DOMAIN releaseDir /\ releaseDir[name].kind \notin {"empty", "link"}

-----------------------------------------------------------------------------
(* CreateAll (create.go).                                                   *)
-----------------------------------------------------------------------------
member(name, mode, isDir, data) == [name |-> name, mode |-> mode, directory |-> isDir, data |-> data]

\* The entries of a bundle, sorted by name.
bundleEntries(t, config) ==
  <<member("top", 755, TRUE, EmptyFile), member("config", 644, FALSE, config),
    member("torrctl", 755, FALSE, releaseDir[binaryAsset("torrctl", t)]),
    member("torrserver", 755, FALSE, releaseDir[binaryAsset("torrserver", t)])>>

Creating(pc) == creator.pc = pc
NotCreating == [pc |-> "idle", next |-> 1, config |-> EmptyFile, content |-> EmptyFile]
Publishes(name, content) == [n \in DOMAIN releaseDir \cup {name} |-> IF n = name THEN content ELSE releaseDir[n]]

ReleaseInit ==
  /\ releaseDir = [n \in {binaryAsset(p, t) : p \in Products, t \in TargetSet} |->
                     Binary(n[2], ReleaseVersion, ReleaseCommit)]
  /\ \E debug \in BOOLEAN : releaseConfig = Config(debug)
  /\ creator = NotCreating /\ temps = 0
  /\ releaseChanges = 0 /\ creatorDied = FALSE /\ sinceCreated = {"never"}

\* The version, and the example configuration.
CreateAll ==
  /\ Creating("idle")
  /\ creator' = IF validateVersion(ReleaseVersion)
                THEN [NotCreating EXCEPT !.pc = "validate", !.config = releaseConfig]
                ELSE NotCreating
  /\ sinceCreated' = {"never"}
  /\ UNCHANGED <<releaseDir, releaseConfig, temps, releaseChanges, creatorDied>>

\* No bundle is there yet, and every binary is.
validCreateInputs ==
  \A t \in TargetSet : /\ bundleName(t) \notin DOMAIN releaseDir
                       /\ \A p \in Products : validateRegularFile(binaryAsset(p, t))

ValidateCreateInputs ==
  /\ Creating("validate")
  /\ creator' = IF validCreateInputs THEN [creator EXCEPT !.pc = "read"] ELSE NotCreating
  /\ UNCHANGED <<releaseDir, releaseConfig, temps, releaseChanges, creatorDied, sinceCreated>>

\* createBundle reads the two binaries of the next target; after the last target
\* writeChecksumManifest reads every asset.
ReadBundle ==
  /\ Creating("read") /\ creator.next \in DOMAIN ReleaseTargets
  /\ LET t == ReleaseTargets[creator.next]
     IN  creator' = IF \A p \in Products : validateRegularFile(binaryAsset(p, t))
                    THEN [creator EXCEPT !.pc = "write", !.content = Archive(bundleEntries(t, creator.config))]
                    ELSE NotCreating
  /\ UNCHANGED <<releaseDir, releaseConfig, temps, releaseChanges, creatorDied, sinceCreated>>

ReadChecksums ==
  /\ Creating("read") /\ creator.next \notin DOMAIN ReleaseTargets
  /\ creator' = IF \A n \in Assets : n \in DOMAIN releaseDir
                THEN [creator EXCEPT !.pc = "write",
                        !.content = Manifest([i \in DOMAIN expectedAssetNames |->
                          <<expectedAssetNames[i], releaseDir[expectedAssetNames[i]]>>])]
                ELSE NotCreating
  /\ UNCHANGED <<releaseDir, releaseConfig, temps, releaseChanges, creatorDied, sinceCreated>>

\* writeAtomic: a temporary file, written, flushed, synced and closed; a failure removes it.
WriteTemporary ==
  /\ Creating("write")
  /\ \/ creator' = [creator EXCEPT !.pc = "publish"] /\ temps' = temps + 1
     \/ creator' = NotCreating /\ UNCHANGED temps
  /\ UNCHANGED <<releaseDir, releaseConfig, releaseChanges, creatorDied, sinceCreated>>

\* The rename; the manifest is the last.
Publish ==
  /\ Creating("publish")
  /\ temps' = temps - 1
  /\ \/ /\ creator.next \in DOMAIN ReleaseTargets
        /\ releaseDir' = Publishes(bundleName(ReleaseTargets[creator.next]), creator.content)
        /\ creator' = [creator EXCEPT !.pc = "read", !.next = @ + 1]
        /\ UNCHANGED sinceCreated
     \/ /\ creator.next \notin DOMAIN ReleaseTargets
        /\ releaseDir' = Publishes(ManifestName, creator.content)
        /\ creator' = NotCreating
        /\ sinceCreated' = sinceCreated \ {"never"}
     \/ \* The rename fails; the temporary file is removed.
        creator' = NotCreating /\ UNCHANGED <<releaseDir, sinceCreated>>
  /\ UNCHANGED <<releaseConfig, releaseChanges, creatorDied>>

CreatorDies ==
  /\ ~Creating("idle") /\ ~creatorDied
  /\ creator' = NotCreating /\ creatorDied' = TRUE
  /\ UNCHANGED <<releaseDir, releaseConfig, temps, releaseChanges, sinceCreated>>

-----------------------------------------------------------------------------
(* What others do to the directory: a binary is collected again, an archive *)
(* is packed by hand, the checksums are computed anew.                      *)
-----------------------------------------------------------------------------
handMade(members) ==
  {Tail(members), Append(members, Last(members)), Append(members, member("other", 644, FALSE, EmptyFile)),
   [members EXCEPT ![2].mode = 755], [members EXCEPT ![1].directory = FALSE],
   Reverse(members), members \o members \o members}

\* A file is replaced.
Touch(name, content) ==
  /\ releaseChanges < MaxReleaseChanges /\ releaseChanges' = releaseChanges + 1
  /\ releaseDir' = Publishes(name, content)
  /\ sinceCreated' = sinceCreated \cup {"touched"}
  /\ UNCHANGED <<releaseConfig, creator, temps, creatorDied>>

CollectAgain ==
  \E p \in Products, t \in TargetSet :
    \E content \in {EmptyFile, Link, Garbage}
                     \cup {Binary(p, v, c) : v \in BuiltVersions, c \in BuiltCommits} :
      Touch(binaryAsset(p, t), content)

PackByHand ==
  \E t \in TargetSet :
    /\ bundleName(t) \in DOMAIN releaseDir /\ releaseDir[bundleName(t)].kind = "archive"
    /\ Len(releaseDir[bundleName(t)].members) >= 2
    /\ \/ \E ms \in handMade(releaseDir[bundleName(t)].members) : Touch(bundleName(t), Archive(ms))
       \/ Touch(bundleName(t), Garbage)

ChecksumsByHand ==
  /\ Assets \subseteq DOMAIN releaseDir
  /\ LET lines == [i \in DOMAIN expectedAssetNames |->
                     <<expectedAssetNames[i], releaseDir[expectedAssetNames[i]]>>]
     IN  \E ls \in {lines, Tail(lines), Reverse(lines), Append(lines, Last(lines))} :
           Touch(ManifestName, Manifest(ls))

ReleaseNext ==
  \/ CreateAll \/ ValidateCreateInputs \/ ReadBundle \/ ReadChecksums \/ WriteTemporary \/ Publish
  \/ CreatorDies
  \/ CollectAgain \/ PackByHand \/ ChecksumsByHand

ReleaseSpec == ReleaseInit /\ [][ReleaseNext]_releaseVars

-----------------------------------------------------------------------------
(* VerifyAll (verify.go).                                                   *)
-----------------------------------------------------------------------------
\* Every line names the next expected asset and has its checksum.
verifyChecksumManifest(dir) ==
  /\ ManifestName \in DOMAIN dir
  /\ LET lines == dir[ManifestName].lines
     IN  /\ Len(lines) = Len(expectedAssetNames)
         /\ \A i \in DOMAIN lines : /\ lines[i][1] = expectedAssetNames[i]
                                    /\ lines[i][1] \in DOMAIN dir
                                    /\ lines[i][2] = dir[lines[i][1]]

\* readTarGZ and readZIP.
readArchive(content) == content.kind = "archive" /\ Len(content.members) <= MaxMembers

expectedMembers ==
  [top |-> [mode |-> 755, directory |-> TRUE], config |-> [mode |-> 644, directory |-> FALSE],
   torrctl |-> [mode |-> 755, directory |-> FALSE], torrserver |-> [mode |-> 755, directory |-> FALSE]]

\* The package a binary was built from, and strings.Contains of its linker flags: nothing
\* has to end where the version or the commit asked for ends.
inspectBuildInfo(content, product) ==
  /\ content.kind = "binary" /\ content.product = product
  /\ content.version \in LongerVersions /\ content.commit \in LongerCommits

\* The i-th member of an archive: its name is expected and new, its type and its mode are
\* the expected ones, a binary is the right one, the configuration keeps debug off.
verifyArchiveMember(members, i) ==
  LET m == members[i]
  IN  /\ \A j \in 1..(i - 1) : members[j].name # m.name
      /\ m.name \in DOMAIN expectedMembers
      /\ m.directory = expectedMembers[m.name].directory
      /\ m.mode = expectedMembers[m.name].mode
      /\ m.name \in Products => inspectBuildInfo(m.data, m.name)
      /\ m.name = "config" => ~m.data.debug

\* A mutant: nothing is missing if everything that is there is expected.
verifyExpectedMembers_none(members) == TRUE

verifyExpectedMembers(members) ==
  Cardinality({members[i].name : i \in DOMAIN members}) = Cardinality(DOMAIN expectedMembers)

verifyBundle(content) ==
  /\ readArchive(content)
  /\ \A i \in DOMAIN content.members : verifyArchiveMember(content.members, i)
  /\ verifyExpectedMembers(content.members)

VerifyAll(dir) ==
  /\ validateVersion(ReleaseVersion)
  /\ verifyChecksumManifest(dir)
  /\ \A t \in TargetSet : verifyBundle(dir[bundleName(t)])

-----------------------------------------------------------------------------
\* A binary of a product with a version and a commit that start as those asked for.
Stamped(data, product) ==
  /\ data.kind = "binary" /\ data.product = product
  /\ data.version \in LongerVersions /\ data.commit \in LongerCommits

\* What a member of a bundle is to be.
GoodMember(m) ==
  \/ m = member("top", 755, TRUE, EmptyFile)
  \/ m = member("config", 644, FALSE, Config(FALSE))
  \/ \E p \in Products : m = member(p, 755, FALSE, m.data) /\ Stamped(m.data, p)
GoodBundle(content) ==
  /\ content.kind = "archive" /\ Len(content.members) = 4
  /\ {content.members[i].name : i \in DOMAIN content.members} = {"top", "config"} \cup Products
  /\ \A i \in DOMAIN content.members : GoodMember(content.members[i])

\* A directory that VerifyAll accepts holds for every platform a bundle of exactly the
\* directory, a configuration with debug off and one binary of each product, stamped with
\* a version and a commit that start as those asked for, whoever packed it and however
\* creation was interrupted.  A creation that ended well, from such inputs and with nobody
\* else at work in the directory, is accepted; and only a creator that died leaves a
\* temporary file.
ReleaseExact ==
  /\ VerifyAll(releaseDir) => \A t \in TargetSet : GoodBundle(releaseDir[bundleName(t)])
  /\ (sinceCreated = {} /\ releaseConfig = Config(FALSE) /\ releaseChanges = 0) => VerifyAll(releaseDir)
  /\ (Creating("idle") /\ ~creatorDied) => temps = 0

\* What VERSIONING.md promises: no release is made of binaries whose embedded metadata
\* differ, so whatever VerifyAll accepts has one version and one commit in all its bundles.
\* False: a pre-release of the commit starts with the version of the release.
OneBuild ==
  VerifyAll(releaseDir) =>
    \A t, u \in TargetSet :
      \A i \in DOMAIN releaseDir[bundleName(t)].members, j \in DOMAIN releaseDir[bundleName(u)].members :
        LET m == releaseDir[bundleName(t)].members[i]
            n == releaseDir[bundleName(u)].members[j]
        IN  m.name \in Products /\ n.name \in Products =>
              m.data.version = n.data.version /\ m.data.commit = n.data.commit
=============================================================================
