SPECIFICATION Spec
CHECK_DEADLOCK FALSE
CONSTANTS
  a = a
  b = b
  c = c
  a1 = a1
  a2 = a2
  b1 = b1
  b2 = b2
  c1 = c1
  skills = skills
  CommandFile = {a1, a2, b1, b2, c1}
  SharedFile = {template}
  template = template
  NoFile = NoFile
  User = User
  NoManifest = NoManifest
  Integration = {a, b, c}
  Safe = {a, b}
  Option <- MCOption
  Unset = Unset
  MaxVersion = 2
  Provides <- MCProvides
  Sep <- MCSep
  Context <- MCContext
  None = None
  Text = {"text", "fence", "always", "never"}
  Fence = "fence"
  Always = "always"
  Never = "never"
  Mdc = {b, c}
  MaxOps = 3
  MaxEdits = 1
INVARIANTS
  DescriptionsAgree
  NoOrphans
  SharedFollowsDefault
PROPERTIES
  EditsKept
  ContextTextKept
