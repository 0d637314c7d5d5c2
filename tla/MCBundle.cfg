\* Every role, inputs declared by the program and by bundles, frames of one and two
\* patches; layouts, templates and documents of small size.
CONSTANTS
  Unset = Unset
  MaxInputs = 2
  Paths <- MCPaths
  Values <- MCValues
  Identities <- MCIdentities
  SpecSets <- MCSpecSets
  Frames <- MCFrames
  KeyOrder <- MCKeyOrder
  Letters = {"a"}
  Digits = {"0"}
  VisualKinds = {"media.webcam"}
  AudioKinds = {"media.mic"}
  Aliases = {"cam", "mic"}
  Bundles <- MCBundles
  Used <- InputDocs
  Peers <- HashDocs
  Scoped <- MCScoped
SPECIFICATION BundleSpec
INVARIANTS StoreWithinSpec WithinReach CaptureAgrees BindsResolve HashIdentifies StoreWithinBundle
PROPERTY AllOrNothing
CHECK_DEADLOCK FALSE
