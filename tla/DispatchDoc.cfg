SPECIFICATION Spec
CONSTANTS
    d1 = d1
    d2 = d2
    other = other
    agg = agg
    i = i
    j = j
    Event = {d1, d2, other}
    Aggregate = {agg}
    CommandId = {i, j}
    NoId = NoId
    NoDispatch = NoDispatch
    Id <- MCId
    Target <- MCTarget
    Pipelines <- MCDocumentedOrder
CHECK_DEADLOCK FALSE
INVARIANTS
    HandlerRunsOncePerId
