CONSTANTS
  Channels = {"a1", "a2", "b", "b0"}
  TopicOf <- MCTopicOf
  Offers = {{"a1", "b0"}}
  Unsupported = {"b0"}
  Publishers = {"p"}
  MaxCalls = 2
  MaxEvents = 2
  MaxDrops = 1
SPECIFICATION Spec
CHECK_DEADLOCK FALSE
INVARIANTS
  TypeOK
  SubscriptionsKept
  ServerAgrees
PROPERTIES
  AssetsSettle
  Settles
