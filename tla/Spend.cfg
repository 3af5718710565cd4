SPECIFICATION Spec
CONSTANTS
    first = first
    second = second
    named = named
    athome = athome
    worker = worker
    owner = owner
    op1 = op1
    Runs = {first, second, athome}
    Members = {worker, owner}
    HomeMember = owner
    By <- MCBy
    Named <- MCNamed
    Unnamed = Unnamed
    NoOp = NoOp
    MaxApproves = 2
    MaxControls = 1
SYMMETRY Symmetric
INVARIANTS
    OneOperation
    
PROPERTIES
    LostAnswerIsFound
CHECK_DEADLOCK FALSE
