SPECIFICATION Spec
CONSTANTS
  Tasks <- TasksToTry
  Names <- SomeNames
  Sources <- SomeSources
  KindOf <- SomeKinds
  Deep <- DeepSources
  Standard <- StandardMounts
  Scratch <- ScratchPaths
  BINDS_MAX = 2
  ARGC_MAX = 2
  ARGV_MAX = 3
  ENVC_MAX = 2
  ENV_MAX = 3
  RESERVE = 2
  PATH = 2
INVARIANTS
  TypeOK
  NoMountOutlivesTask
  DeathIsOfItsOwn
  TaskDataFits
PROPERTY SourcesKept
CHECK_DEADLOCK FALSE
