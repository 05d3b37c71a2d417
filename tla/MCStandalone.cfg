SPECIFICATION StandaloneSpec
CONSTANTS
  Unset = Unset
  NoAnswer = NoAnswer
  Cfgs <- MCCfgs
  Sites <- MCSites
  MaxDrift = 2
  Needs <- MCNeeds
  Quotes <- MCQuotes
  Plans <- MCPlans
  Prices <- MCPrices
  Budgets = {0, 10000, 200000}
  Amounts = {5, 2000}
  MaxChanges = 2
  Lookups <- AllLookups
  Sizes = {0, 1, 25, 60, 300, 600}
  Published <- MCPublished
  SortedSpaces <- MCSpaces
  DefaultSpaces = {"default", "yage-dev"}
  SortedKinds <- MCKinds
  BuiltIn = {"events", "secrets"}
  Keys <- MCKeys
  Backups <- MCBackups
  Fields <- MCFields
  Contents <- MCContents
  Standing <- MCStanding
  MaxMissed = 1
  MaxEvents = 4
INVARIANTS CreatedFits RoundTrip RecommendationIsAffordable BillCountsThePlan QuotedWhereItRuns LargerDatabaseCostsMore
PROPERTIES LoadNeverHelps VerdictsAreMonotone BillsAreMonotone DearerIsNotCheaper
CHECK_DEADLOCK FALSE
