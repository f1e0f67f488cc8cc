SPECIFICATION Spec
CONSTANTS
  FoldOf <- MCFoldOf
  Root = ""
  RowId = "rowid"
  NoSynonym = "-"
  Types = {"INT64"}
  Int64 = "INT64"
  Unsupported = "TIME"
  Exprs = {"e"}
  NoExpr = ""
  Builtins <- SysNames
  Vocabularies <- MCVocabularies
  q1 = q1 q2 = q2 g = g s = s m = m f = f p1 = p1
  Definitions = {d1}
  Rejected = bad
INVARIANTS SchemaInv TableIdentity ViewOrderListsViews
PROPERTIES ObjectsKeepTheirPlace
\* A script ends when it is built or a statement failed.
CHECK_DEADLOCK FALSE
