SPECIFICATION FairSpec
CONSTANTS
  KeepAlives <- MCKeepAlives
  Second = 4
  MaxLag = 5
  MaxServe = 3
INVARIANT PunctualStays
PROPERTY VanishedNoticed
