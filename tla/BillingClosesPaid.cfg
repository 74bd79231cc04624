SPECIFICATION Spec
CONSTANTS
    Invoices = {i1}
    Handlers = {p1}
    Day = 1
    Period = 1
    Trial = 1
    Grace = 0
    Horizon = 2
    EditedStatus = {"active"}
    Never = Never
PROPERTY ClosesAfterWindow
CHECK_DEADLOCK FALSE
