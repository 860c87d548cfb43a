\* Whether the double keeps the mailbox's promises when two waiters and two
\* receipts share one cid: a registration replaced, a stored receipt
\* overwritten, close at any point.
CONSTANTS
    w1 = w1  w2 = w2  w3 = w3  r1 = r1  r2 = r2  r3 = r3
    c1 = c1  c2 = c2  c3 = c3
    None = None  Success = Success
    Waiters = {w1, w2, w3}
    Responders = {r1, r2, r3}
    Cids = {c1, c2}
    WaitCid <- SharedTwoWaitCid
    RespCid <- SharedTwoRespCid
SPECIFICATION MWSpec
PROPERTY ImplementsMailbox
CHECK_DEADLOCK FALSE
