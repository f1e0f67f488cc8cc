SPECIFICATION Spec
CONSTANTS
  LowerOf <- MCLowerOf
  ExportedOf <- MCExportedOf
  Files <- MCFiles
  NotIdentifiers <- MCNotIdentifiers
  NotDates <- MCNotDates
  Packages <- MCPackages
  QueryCalls <- MCQueryCalls
  RowLists <- MCRowLists
  MaxVariants = 4
  ExportIdent <- MCExportIdent
  PathOf <- MCPathOf
  Begins <- MCBegins
  Ends <- MCEnds
  SafeParamOf <- MCSafeParamOf
  FederatedInputs <- MCFederated
  DatasetInputs <- MCDatasets
  StatementInputs <- MCStatements
  PlanBindings <- MCBindings
  Templates <- MCTemplates
INVARIANTS DeletesUsePrimaryKey
CHECK_DEADLOCK FALSE
