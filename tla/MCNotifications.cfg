\* Three notifications, handlers on two workers.
CONSTANTS
  MaxNotifications = 3
  ThreadCount = 2
SPECIFICATION FairSpec
INVARIANTS
  NoneLost
PROPERTY
  ShownGoesAway
