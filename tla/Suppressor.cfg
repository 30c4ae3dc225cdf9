\* Both goroutines, with and without a state file, crashes and failed saves.
CONSTANTS
  Keys <- MCKeys
  Rules <- MCRules
  RuleOf <- MCRuleOf
  CategoryOf <- MCCategoryOf
  Cooldown <- MCCooldown
  Rate = 1
  Burst = 1
  EvictEvery = 2
  Failures = {"crash", "save"}
  MaxStale = 1
  MaxTime = 5
  MaxEmits = 1
SPECIFICATION SuppressorSpec
INVARIANTS  RateLimited
CHECK_DEADLOCK FALSE
