\* One list: a doubt that a second change under way takes back.
CONSTANTS
    Lists = {r1}
    Queries = {}
    Commands = {}
    Copies = copies
    NoRes = none
    Ids = {u1}
    NoId = NoId
    Pages = {1}
    MaxEpoch = 1
    MaxTicket = 4
    MaxSent = 4
SPECIFICATION Spec
PROPERTIES DoubtBlocks
CHECK_DEADLOCK FALSE
