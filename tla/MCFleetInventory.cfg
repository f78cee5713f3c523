SPECIFICATION MCSpec
CONSTANTS
    old = old
    new = new
    api = api
    web = web
    spare = spare
    NoService = NoService
    NoGroup = NoGroup
    Container <- Both
    Name = {web, spare}
    ServiceOf <- OfApi
    FirstName <- Named
    GroupOf <- Ungrouped
    Publishing = {old}
    Grace = 1
    Horizon = 1
    MaxChanges = 2
    MaxOps = 1
    MaxFaults = 1
INVARIANTS
    AbsentIsGone
    OneCurrentName
    MissingIsOverdue
PROPERTIES
    InventoryConverges
