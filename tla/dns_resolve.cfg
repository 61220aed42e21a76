\* The lookups on all that servers may reply, and the cache while that changes.
SPECIFICATION Spec
CONSTANTS
    Servers <- TwoServers
    SearchList <- WithDomain
    MaxIterations = 3
    FirstZones <- AllZones
    Zones <- FewZones
    Lists <- SomeLists
    MaxChanges = 2
INVARIANTS
    TypeOK
    SearchOutcomeSound
    AliasesFollowed
    LastGoodAnswer
