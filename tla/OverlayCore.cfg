CONSTANTS
  foo = foo
  bar = bar
  baz = baz
  long = long
  Names <- MCNames
  Long = {long}
  Hash <- MCHash
  Bucket <- MCBucket
  HeaderSize <- MCHeaderSize
  NodeSize = 2
  DictEnd = 13
SPECIFICATION FairSpec
INVARIANTS BucketsNewestFirst ChainsInStep MarkersExact FindsNewest
PROPERTIES ImplementsWordList LoopsEnd
CHECK_DEADLOCK FALSE
