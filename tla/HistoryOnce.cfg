SPECIFICATION Spec
CONSTANTS
    Requests = {1, 2, 3}
    Messages = {"a"}
    Responses = {}
    RequestOf <- NoneAnswered
    Page = "page"
    Wake = "wake"
    PausedLimit = 5
    MaxServed = 2
    MaxEvents = 2
INVARIANT HistoryOnce
CHECK_DEADLOCK FALSE
