SPECIFICATION AllSpec
CONSTANTS
  CallOfEach <- OneOfEach
  ModeOf <- Modes
  RunCalls = {"job", "batch"}
  RunChildren = {"h1", "h3", "h4"}
  RunScoped = {"h4"}
  KeepCalls = {"kept", "batch"}
  KeepChildren = {"h2", "h3", "h4"}
  Slots = 2
  NoField = NoField
  Refused <- NoCatalog
  CatalogIds = {"p", "q", "r"}
  CatalogNames = {"fish", "other", "read_image"}
  CatalogInputs <- Tried
  Writers = {"w1", "w2", "w3"}
  Fields = {"f", "g"}
  Settings = {"unset", "on"}
  MaxRevision = 3
  PresetAgents = {"a", "b"}
  MaxBoots = 3
  MaxEdits = 2
  Ids = {"c1", "c2"}
  Mains = {"m1", "m2"}
  Kids = {"k1", "k2"}
  Edges <- EdgesDef
  Tools = {"read", "write", "exec", "delegate"}
  Allow <- AllowDef
  MaxDepth = 2
  MaxChanges = 1
  MaxDamage = 2
INVARIANTS ChildrenAccounted RecordsStay GenerationsSound CatalogSound
PROPERTIES AuthorityHolds DraftsKept
CHECK_DEADLOCK FALSE
