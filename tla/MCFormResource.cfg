SPECIFICATION LaneSpec
CONSTANTS
  Forms <- MCForms
  ModuleExports <- MCExports
  ModuleClasses <- MCClasses
  Manifests <- MCManifests
  BlobSize <- MCBlobSize
  Worlds <- MCWorlds
  k1 = k1
  k2 = k2
  k3 = k3
  MaxLost = 1
  MaxTouches = 1
  MaxUploads = 2
SYMMETRY Symmetry
INVARIANTS DanglesOnlyWhenLost SuccessIsLive CommittedStaysWhole StateIsOurs OneMutationAtATime
  IndexIsExact RenderingIsCurrent AttachmentsAreServed HoldsStayExclusive
  DeadLettersEnd TrafficStaysWithinItsService
PROPERTIES OperationsKeepTheirTarget ChangesAreReviewed ActsInOneTenant DropsOnlyWhatIsGone
  RevisionTellsEveryChange LedgersOnlyGrow
CHECK_DEADLOCK FALSE
