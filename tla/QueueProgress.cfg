\* Two jobs of every kind on one worker: no failure may stop it.
CONSTANTS
  j1 = j1
  j2 = j2
  v1 = v1
  v2 = v2
  w1 = w1
  w2 = w2
  NoJob = NoJob
  NoVideo = NoVideo
  NoDocument = NoDocument
  Jobs = {j1, j2}
  Workers = {w1}
  Videos = {v1, v2}
  Modes = {"video", "channel", "enrichment", "channels"}
SPECIFICATION FairSpec
PROPERTY EveryJobEnds
