SPECIFICATION Spec
CONSTANTS
    MaxOwners = 2
    Followers = {f1}
    EventBytes <- MCEventBytes
    PageLimit = 2
    PageBytes = 3
    MaxPlain = 1
    MaxEpoch = 2
    MaxDrops = 1
    None = None
INVARIANTS DeliveriesAreIdempotent
PROPERTIES ImplementsFeed FollowersCatchUp
CHECK_DEADLOCK FALSE
