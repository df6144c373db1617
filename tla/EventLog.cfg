SPECIFICATION FairSpec
CONSTANTS
    order = order
    cart = cart
    all = all
    orders = orders
    s1 = s1
    s2 = s2
    r1 = r1
    r2 = r2
    Nothing = Nothing
    Stopped = Stopped
    Aggregate = {order, cart}
    Session = {s1, s2}
    Runner = {r1, r2}
    Subscription = {all, orders}
    Setups <- SetupsOf
    Types <- TypesOf
    Threshold = 1
    MaxSchema = 2
CHECK_DEADLOCK FALSE
INVARIANTS
    DecidedOnStoredState
    SnapshotMatchesStream
PROPERTIES
    ImplementsFeed
