SPECIFICATION FairSpec
CONSTANTS
    c1 = c1
    c2 = c2
    c3 = c3
    NoCleanUp = NoCleanUp
    NoPart = NoPart
    StartError = StartError
    Gateways <- TwoGateways
    orders = orders
    stock = stock
    broker = broker
    relay = relay
    Broker = broker
    Relay = relay
    Part = {orders, stock, broker, relay}
    Closer = {c1, c2, c3}
    SelfCloser = {c1, c2}
    MaxRuns = 2
    MaxFaults = 3
CHECK_DEADLOCK FALSE
INVARIANTS
    DrainedBeforeBroker
    FailuresReportedOnce
PROPERTIES
    StartedIsStopped
