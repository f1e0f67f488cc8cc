SPECIFICATION Spec
CONSTANTS
  LowerOf <- MCLowerOf
  ExportedOf <- MCExportedOf
  Files <- MCFiles
  NotIdentifiers <- MCNotIdentifiers
  NotDates <- MCNotDates
  Packages <- MCPackages
  QueryCalls <- MCQueryCalls
  RowLists <- MCRowLists
  MaxVariants = 4
  ExportIdent <- MCExportIdent
  SafeParamOf <- MCSafeParamOf
  PathOf <- MCPathOf
  Begins <- MCBegins
  Ends <- MCEnds
  FederatedInputs <- MCFederated
  DatasetInputs <- MCDatasets
  StatementInputs <- MCStatements
  PlanBindings <- MCBindings
  Templates <- MCTemplates
INVARIANTS ExternalDataIsTold FederatedQueriesCompose PlanIsTrue SchemaMatchesParser GeneratedFileCompiles StructsHold OptionalSQLIsVerified FindersAreExact
PROPERTIES CallsAnswer
\* Every topic ends.
CHECK_DEADLOCK FALSE
