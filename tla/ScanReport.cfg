SPECIFICATION Spec
CONSTANTS
    Nodes <- MCNodes
    Depth <- MCDepth
    Lower <- MCLower
    Finds <- MCFinds
    Captures <- MCCaptures
    NoGroup = NoGroup
    Partial = Partial
    NotText = NotText
    NotList = NotList
    Now = 5
    STANDARD_TIERS <- MCTiers
    FLAT_PRICES <- MCPrices
    Volume = 20
    Rules <- MCRules
    Conditions <- Bags
    Buckets <- MCBuckets
    Overrides <- MCOverrides
    KeyOrder <- MCKeyOrder
INVARIANTS LoadedRulesRun SelectsWhatItMeans MoreConditionsSelectLess FinerGroupsKeepMore SavingsAreMarginal
CHECK_DEADLOCK FALSE
