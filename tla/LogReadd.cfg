\* A user takes an appender out of a logger and adds it again: violates AlwaysInherits.
SPECIFICATION Spec
CONSTANTS
  u1 = u1
  u2 = u2
  loader = loader
  root = root
  web = web
  db = db
  Users = {u1}
  Loader = loader
  Root = root
  Managed = {web}
  Manual = {db}
  Nodes <- MCNodes
  Documents <- RepositoryDocuments
  NameOrder <- MCNameOrder
  Formats <- MCFormats
  DefaultFormat <- Good
  NoFormat = NoFormat
  Absent = Absent
  Spare = 1
  MaxAppenders = 6
  MaxCalls = 4
  MaxLoads = 0
  Nobody = Nobody
  Keys = {"m"}
  Strangers = {"x"}
  Others = {"."}
  MaxPattern = 5
INVARIANTS AlwaysInherits
