SPECIFICATION FairSpec
CONSTANTS
  Classes <- MCClasses
  Root = "root"
  Apps <- MCApps
  Versions <- MCVersions
  NoVersion = NoVersion
  Throws = Throws
  MaxTransforms = 1
  Jobs <- AllJobs
  Inputs <- MCInputs
INVARIANTS
  TypeOK
  DefinesReachable
  DDLSucceeds
  ReplaysAsTransformed
  NormalizeMerges
  FiltersCompose
  PluckChainsNest
PROPERTY
  StartEnds
CHECK_DEADLOCK FALSE
