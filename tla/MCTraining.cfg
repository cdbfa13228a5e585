SPECIFICATION Spec
CONSTANTS
  NoFile = NoFile
  None = None
  Zero = Zero
  Side = 2
  Programs <- MCPrograms
  Directories <- MCDirectories
  Epochs = 2
  BatchSize = 2
  EvalBatch = 2
  MaxSamples = 1
CHECK_DEADLOCK FALSE
INVARIANTS
  LoadedIsWhatFilesHold
  EachSampleOncePerEpoch
  FollowsGradientDescent
PROPERTY MlpGetsToTheEnd
