SPECIFICATION Spec
CHECK_DEADLOCK FALSE
CONSTANTS
  p = p
  q = q
  r = r
  spec = spec
  sync = sync
  own = own
  core = core
  extension = extension
  overrides = overrides
  a1 = a1
  a2 = a2
  NoFile = NoFile
  EmptySkill = EmptySkill
  NoLayer = NoLayer
  Preset = {p, q, r}
  Rank <- MCRank
  Name = {spec, sync, own}
  Provides <- MCProvides
  ByName <- MCByName
  ExtCommand = {sync}
  ExtByName = {}
  CoreCommand = {spec}
  HasScripts = {core, r}
  Override = overrides
  Extension = extension
  Core = core
  Agent = {a1, a2}
  CommandAgent = a1
  SkillAgent = a2
  Priority = {0, 1, 2}
  MaxOps = 4
INVARIANTS
  FilesFollowStack
  ResolversAgree
  CompositionNests
