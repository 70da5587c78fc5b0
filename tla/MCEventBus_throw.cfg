\* A handler that throws cuts the handlers after it off: expected violation.
CONSTANTS
  e1 = e1  e2 = e2  e3 = e3  a1 = a1  a2 = a2  b1 = b1
  mouse = mouse  notify = notify
  Events <- MCEvents
  Subscriptions <- MCSubscriptions
  Topics <- MCTopics
  EventTopic <- MCEventTopic
  SubTopic <- MCSubTopic
  MayThrow <- MCMayThrow
  ThreadCount = 2
SPECIFICATION Spec
INVARIANTS
  ThrowDoesNotSkip
