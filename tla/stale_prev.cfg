CONSTANTS
    Nodes = {n1, n2, n3, n4}
    QueueIds = {1, 2}
    SortedIds = {1}
    Keys = {1, 2}
SYMMETRY NodeSymmetry
SPECIFICATION Spec
PROPERTIES
    RemoveNodeUnlinks
