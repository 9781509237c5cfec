SPECIFICATION Spec
CONSTANTS
    NKeys = 7
INVARIANTS
    RedBlack
    LinksExact
PROPERTIES
    ImplementsOrderedMap
