\* One streamed run of up to four events, whose caller may leave and be cancelled.
SPECIFICATION FairSpec
CONSTANTS
  MaxEvents = 4
INVARIANTS
  StoredBeforeTold
  NoOrphanRun
PROPERTIES
  StreamSpec
  EveryStreamEnds
