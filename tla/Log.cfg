\* Two users and the listener, a logger that is configured, one that the users
\* change, and the root.
SPECIFICATION Spec
CONSTANTS
  u1 = u1
  u2 = u2
  loader = loader
  root = root
  web = web
  db = db
  Users = {u1, u2}
  Loader = loader
  Root = root
  Managed = {web}
  Manual = {db}
  Nodes <- MCNodes
  Documents <- MCDocuments
  NameOrder <- MCNameOrder
  Formats <- MCFormats
  DefaultFormat <- Good
  NoFormat = NoFormat
  Absent = Absent
  Spare = 1
  MaxAppenders = 6
  MaxCalls = 1
  MaxLoads = 2
  Nobody = Nobody
  Keys = {"m"}
  Strangers = {"x"}
  Others = {"."}
  MaxPattern = 5
INVARIANTS TypeOK WalkStable NoEventLost DefinesApplied Inherits NoDeadlock FormatterParses DefinesReload
