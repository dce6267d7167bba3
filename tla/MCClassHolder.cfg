SPECIFICATION Spec
CONSTANTS
  Forms <- MCForms
  ModuleExports <- MCExports
  ModuleClasses <- MCClasses
  Manifests <- MCManifests
  BlobSize <- MCBlobSize
  Worlds <- ClassWorlds
  k1 = k1
  k2 = k2
  k3 = k3
  MaxLost = 1
  MaxTouches = 1
  MaxUploads = 2
INVARIANT LaterDeploymentLands
CHECK_DEADLOCK FALSE
