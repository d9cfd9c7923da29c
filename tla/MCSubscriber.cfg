SPECIFICATION FairSpec
CONSTANTS
    Binance = {b1, b2}
    Kis = {}
    News = {n1}
    Ack = Ack
    None = None
INVARIANTS DispatchedInOrder
PROPERTIES NoHandlerAfterStop LosesOnlyWhileSubscribing WaitingIsHandled Resubscribes StopReturns
