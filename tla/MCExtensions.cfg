SPECIFICATION Spec
CHECK_DEADLOCK FALSE
CONSTANTS
  x = x
  y = y
  a1 = a1
  a2 = a2
  nx = nx
  ny = ny
  clash = clash
  before = before
  after = after
  NoFile = NoFile
  Ext = {x, y}
  MaxVersion = 2
  Agent = {a1, a2}
  SkillMode = {a2}
  Name = {nx, ny, clash}
  Priority = {0, 1, 2}
  Provides <- MCProvides
  Primary <- MCPrimary
  HookEvents <- MCHookEvents
  MaxOps = 3
  MaxEdits = 1
INVARIANTS
  CommandsFollowRegistry
  HooksFollowExtensions
  ConfigNeverDestroyed
PROPERTIES
  RollbackRestores
  ImplementsExtensionSet
