CONSTANTS
  Policies <- TieredPolicies
  Tags = {"motion", "objects"}
  Sizes = {1, 2}
  Capacity = 5
  Batch = 2
  MaxSegments = 3
  MaxDays = 2
  MaxFaults = 1
  MaxDamaged = 1
SPECIFICATION Spec
INVARIANTS GoalsReached OldestAndNoMore TagsNeverShorten
PROPERTY PassesConverge
