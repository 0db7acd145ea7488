CONSTANTS
    User = {u1, u2}
    Agent = {a1, a2}
    Competition = {c1}
    Transaction = {t1, t2, t3}
    NoAgent = NoAgent
SYMMETRY Symmetry
SPECIFICATION Spec
INVARIANTS TypeOK RingsNeedDeletion
