\* A user logs while the repository's own configuration is loaded.
SPECIFICATION Spec
CONSTANTS
  u1 = u1
  u2 = u2
  loader = loader
  root = root
  web = web
  db = db
  Users = {u1}
  Loader = loader
  Root = root
  Managed = {web}
  Manual = {db}
  Nodes <- MCNodes
  Documents <- RepositoryDocuments
  NameOrder <- MCNameOrder
  Formats <- MCFormats
  DefaultFormat <- Good
  NoFormat = NoFormat
  Absent = Absent
  Spare = 1
  MaxAppenders = 6
  MaxCalls = 1
  MaxLoads = 1
  Nobody = Nobody
  Keys = {"m"}
  Strangers = {"x"}
  Others = {"."}
  MaxPattern = 5
INVARIANTS AlwaysWritten
