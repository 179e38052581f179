SPECIFICATION Spec

CONSTANTS
  image = image
  album = album
  job = job
  notice = notice
  stray = stray
  noTopic = noTopic
  Topics <- MCTopics
  mid = mid
  struct = struct
  chain = chain
  bad = bad
  deep = deep
  Bodies = {job, notice, struct, mid, chain, bad, deep, stray}
  Reloads <- MCReloads
  TopicOf <- MCTopicOf
  OnSuccess <- MCOnSuccess
  Concurrency <- MCConcurrency
  Uid <- MCUid6
  StartExpire = 1
  RetryDelay = 1
  Timely = TRUE
  MaxPublish = 2
  MaxCrashes = 1
  MaxFaults = 1
  MaxRetries = 1

INVARIANT FollowUpsPublished
PROPERTY KeepsPromise
PROPERTY RefusedForPayload
INVARIANT IdsFollowPublication
INVARIANT PollerNeverBlocks
PROPERTY ProcessedOnce
CONSTRAINT StepCases
