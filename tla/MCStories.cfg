SPECIFICATION StoriesFairSpec
CONSTANTS
    StoryIds = {s1, s2}
    MediaIds = {m1}
    Viewers = {v1}
    Jobs = {j1, j2}
    NoStory = NoStory
    Lifetime = 1
    BatchSize = 1
    MaxNow = 2
    MaxFaults = 1
CHECK_DEADLOCK FALSE
INVARIANTS StoriesTypeOK
PROPERTIES CleanupIsExact ExpiredGoAway
