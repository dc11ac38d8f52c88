SPECIFICATION Spec
CONSTANTS
    Name = {n1, n2}
    Ip = {i1}
    Port = {1, 2}
    None = None
    Odd = Odd
    MaxSubs = 2
    MaxForwards = 2
    MaxEdits = 1
INVARIANTS TypeOK ShownIsRun AgentAccepts SaveBackKeeps
