\* The bus: three events on two topics, three subscriptions.
CONSTANTS
  e1 = e1  e2 = e2  e3 = e3  a1 = a1  a2 = a2  b1 = b1
  mouse = mouse  notify = notify
  Events <- MCEvents
  Subscriptions <- MCSubscriptions
  Topics <- MCTopics
  EventTopic <- MCEventTopic
  SubTopic <- MCSubTopic
  MayThrow <- MCMayThrow
  ThreadCount = 2
SPECIFICATION FairSpec
INVARIANT NoSubscriberMissed
PROPERTIES
  LoopUndisturbed
  DispatchCompletes
  SubscribeCompletes
