SPECIFICATION FairSpec

CONSTANTS
  image = image
  album = album
  job = job
  notice = notice
  stray = stray
  noTopic = noTopic
  Topics <- MCTopics
  mid = mid
  struct = struct
  chain = chain
  bad = bad
  deep = deep
  Bodies = {job, notice, stray}
  Reloads <- MCReloads
  TopicOf <- MCTopicOf
  OnSuccess <- MCOnSuccess
  Concurrency <- MCConcurrency
  Uid <- MCUid6
  StartExpire = 1
  RetryDelay = 1
  Timely = TRUE
  MaxPublish = 1
  MaxCrashes = 1
  MaxFaults = 1
  MaxRetries = 0

CONSTRAINT CrashOrFault

INVARIANT TypeInvariant
INVARIANT NoMessageLost
INVARIANT OneHandler
INVARIANT HandlerOwnsRow
PROPERTY EveryMessageSettles
