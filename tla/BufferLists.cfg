\* A buffer of four groups and five pushes, so that samples of up to two groups
\* leave holes everywhere in the lists and the buffer also becomes full.
CONSTANTS
  MaxSize = 4
  Versions = {0, 1, 2}
  Counts = {1, 2}
  MaxAge = 1
  MaxArrivals = 5
SPECIFICATION ListsSpec
PROPERTY ImplementsBuffer
