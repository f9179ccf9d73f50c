\* Starts, migrations, stops and crashes of the process under many configurations.
SPECIFICATION FairSpec
CONSTANTS
  Unset = Unset
  Malformed = Malformed
  NaN = NaN
  Inf = Inf
  NoConfig = NoConfig
  Environments <- SomeEnvironments
  CommandLines <- SomeCommandLines
INVARIANTS
  TypeOK
  VersionTruthful
  StartNeverDoomed
  WritersJoined
  EndsOnlyWhenTold
  SettingsSound
PROPERTIES
  StopsInTheEnd
