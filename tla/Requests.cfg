SPECIFICATION Spec
CONSTANTS
    Requests = {1, 2}
    Messages = {"a", "r"}
    Responses = {"r"}
    RequestOf <- FirstAnswered
    Page = "page"
    Wake = "wake"
    PausedLimit = 0
    MaxServed = 2
    MaxEvents = 2
PROPERTY EveryRequestEnds
INVARIANTS AnsweredIsSaved HeardWhole CompleteIsClosed
CHECK_DEADLOCK FALSE
