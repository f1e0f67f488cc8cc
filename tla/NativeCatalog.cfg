SPECIFICATION BuildSpec
CONSTANTS
  Views <- MCViews
  Base = {"t"}
  Names = {"a", "b", "c", "missing"}
  Keys = {"a", "b", "c", "gone"}
  Sorted <- MCSorted
  Orders <- MCOrders
  NoError = "nil"
  Schemas <- MCSchemas
  LowerCase <- MCLower
  Nothing = Nothing
  Convertible = {"int64", "string"}
  Expression <- MCExpression
  Messages = {"p.Msg"}
  Enums = {"p.Color"}
  Inputs <- MCInputs
  Unreadable = Unreadable
  Blank = ""
  Stripped = ""
INVARIANTS ResolutionInv NativeCatalogIsSound TypesSurvive PoolInv TakenIffConsistent
PROPERTIES RefinesFixpoint BuildEnds
\* Building ends.
CHECK_DEADLOCK FALSE
