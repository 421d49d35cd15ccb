CONSTANTS
  MaxRetries = 1
  Generations = {1, 2, 3}
  RequestIds = {"r1"}
  MaxRequests = 1
  NoTask = NoTask
SPECIFICATION FairSpec
PROPERTY StaleEventsDropped
