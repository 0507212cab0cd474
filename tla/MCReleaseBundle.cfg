\* A creation is over when its manifest is there, and the directory may be left alone.
SPECIFICATION ReleaseSpec
CONSTANTS
  ReleaseTargets <- MCReleaseTargets
  ValidVersions = {"1.2.3", "1.2.3-rc.1"}
  ReleaseVersion = "1.2.3"
  ReleaseCommit = "this commit"
  BuiltVersions = {"1.2.3", "1.2.3-rc.1"}
  BuiltCommits = {"this commit", "another commit"}
  LongerVersions = {"1.2.3", "1.2.3-rc.1"}
  LongerCommits = {"this commit"}
  MaxMembers = 8
  MaxReleaseChanges = 1
INVARIANTS OneBuild
CHECK_DEADLOCK FALSE
