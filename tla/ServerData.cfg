SPECIFICATION AllSpec
CONSTANTS
  None = None
  Dir = Dir
  X = X
INVARIANTS PropertiesRead  PluginsDeployed PacksServed PlansHold
PROPERTY FilesAgree
CHECK_DEADLOCK FALSE
