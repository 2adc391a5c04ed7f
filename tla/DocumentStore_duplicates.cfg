SPECIFICATION Spec
CONSTANTS
    Urls = {u1, u2, u3}
    Contents = {c1}
    Pages = {p1}
    NoJob = NoJob
    MaxChanges = 0
    MaxAborts = 0
INVARIANT DuplicatesFlagged
