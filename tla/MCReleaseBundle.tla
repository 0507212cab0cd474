---------------------------- MODULE MCReleaseBundle ----------------------------
(***************************************************************************)
(* The release directory with two platforms, one of each kind of archive,   *)
(* and binaries of the release, of its last pre-release, which was made     *)
(* from the same commit, and of another commit.                             *)
(***************************************************************************)
EXTENDS ReleaseBundle

MCReleaseTargets == <<[platform |-> "linux", zip |-> FALSE], [platform |-> "windows", zip |-> TRUE]>>
=============================================================================
