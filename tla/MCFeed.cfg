SPECIFICATION FeedSpec
CONSTANTS
  Id = {a, b}
  Type = {"click", "view"}
  Payload <- Paths
  MaxEvents = 3
  MaxReceived = 4
INVARIANTS InspectionFollowsEvent MostCommonTrue
CHECK_DEADLOCK FALSE
