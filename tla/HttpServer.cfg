CONSTANTS
    Request <- MCRequest
    MaxRequests = 2
    Largest = 24
SPECIFICATION FairSpec
PROPERTIES
    ImplementsHttpService
    RequestsAreAnswered
CHECK_DEADLOCK FALSE
