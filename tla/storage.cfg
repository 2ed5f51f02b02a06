CONSTANTS
  size_max = 5
  item_size = 2
  Offsets <- SomeOffsets
  List = {"waiting", "ready"}
SPECIFICATION StoreSpec
INVARIANTS FreeListIsChain ListsScanBothWays UnlistedIsUnlinked
PROPERTIES StoreIsStackAndSequences
