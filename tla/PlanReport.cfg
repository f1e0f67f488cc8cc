SPECIFICATION MCSpec
CONSTANTS
  Trimmed <- MCTrimmed
  LowerCased <- MCLowerCased
  Identifiers = {"c", "d"}
  TargetIDs = {"query/A", "query/B#inner", "query/Z"}
  Mentions <- MCMentions
  Catalog <- MCCatalog
  CommonMetadata <- MCCommonMetadata
  BeginsWith <- MCBeginsWith
  TargetIds = {"query/A", "query/B#inner", "query/C"}
  CatalogNames = {"spanner", "plain", "bigquery"}
  SpannerOnes = {"spanner", "plain"}
  WithProtos = {"spanner"}
  Plans <- MCPlans
  Options <- MCOptions
  MaxEdits = 1
  ContractFiles <- MCFilesOfContracts
  ReportInputs <- MCReportInputs
  RawPlans <- MCRawPlans
  Patterns <- MCPatterns
  Checks <- MCChecks
INVARIANTS ReportInv PassedCheckIsEarned OnlyInputsAreRefused FilesFitSchema EntriesAgree ReportsVouch FindingsStand CheckedVocabularyIsEarned
PROPERTIES Ends
CHECK_DEADLOCK FALSE
