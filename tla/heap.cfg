SPECIFICATION HeapSpec
CONSTANT Items = {1, 2, 3, 4, 5, 6, 7}
INVARIANTS HeapTypeOK HeapOrdered HoldsMembers IndexRight
