\* Two processes that may write two objects, at once or in turn, and die in
\* the middle of a write and retry.
SPECIFICATION StoreSpec
CONSTANTS
  Writer = {w1, w2}
  Id = {o1, o2}
  NChunks = 3
  MaxCrashes = 2
INVARIANTS LoneWritesWhole 
PROPERTY ImplementsContentStore
