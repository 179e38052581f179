SPECIFICATION Spec

CONSTANTS
  image = image
  album = album
  job = job
  notice = notice
  stray = stray
  noTopic = noTopic
  Topics <- MCTopics
  mid = mid
  struct = struct
  chain = chain
  bad = bad
  deep = deep
  Bodies = {job, notice, stray}
  Reloads <- MCReloads
  TopicOf <- MCTopicOf
  OnSuccess <- MCOnSuccess
  Concurrency <- MCConcurrency
  Uid <- MCUid6
  StartExpire = 1
  RetryDelay = 1
  Timely = FALSE
  MaxPublish = 2
  MaxCrashes = 0
  MaxFaults = 0
  MaxRetries = 0

INVARIANT NoMessageLost
