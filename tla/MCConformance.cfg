SPECIFICATION SuiteSpec
CONSTANTS
  Forms <- SuiteForms
  ModuleExports <- SuiteExports
  ModuleClasses <- SuiteClasses
  Manifests <- SuiteManifests
  BlobSize <- SuiteBlobSize
  Worlds <- SuiteWorlds
  Scripts <- SuiteScripts
  Contracts <- SuiteContracts
  Subjects <- SuiteSubjects
  Lag = 1
  k1 = k1
  k2 = k2
  k3 = k3
  MaxLost = 1
  MaxTouches = 1
  MaxUploads = 2
INVARIANT ConformancePasses
CHECK_DEADLOCK FALSE
