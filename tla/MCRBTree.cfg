SPECIFICATION Spec
CONSTANTS
    N = 8
    Same = 2
    Root = {r1}
    Nil = Nil
    Node <- MCNode
    Val <- MCVal
INVARIANTS TypeOK LinksOK NoNullDeref RedBlack SearchFinds BackwardsIsReverse
PROPERTY IsOrderedBag
