\* Three inserters (heights 3, 2 and 1; two nodes share a key) and one
\* finder looking the shared key up twice; kMaxHeight = 3.
CONSTANTS
    n1 = n1
    n2 = n2
    n3 = n3
    g1 = g1
    HeadNode = HeadNode
    Nil = Nil
    Nodes = {n1, n2, n3}
    NKey <- MCKey
    NHeight <- MCHeight
    MaxH = 3
    Finders = {g1}
    FindKeys = {2}
    MaxFinds = 2
SPECIFICATION Spec
INVARIANT FindNewest
PROPERTIES Refines InsertCompletes
