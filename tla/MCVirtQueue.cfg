\* Three descriptors, an index that wraps after two rounds of the ring.
CONSTANTS
  N = 3
  IdxMod = 6
SPECIFICATION Spec
INVARIANTS TypeOK TakesOnlyPosted ChainsDisjoint
PROPERTY ImplementsQueue
