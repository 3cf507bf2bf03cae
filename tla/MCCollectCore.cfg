SPECIFICATION Spec
CONSTANTS
    b1 = b1
    b2 = b2
    v1 = v1
    v2 = v2
    m1 = m1
    m2 = m2
    m3 = m3
    Uuids = {b1, b2}
    Uids = {v1, v2}
    VisitorFacts <- MCVisitorFacts
    ArrivalMargin = 5
    Mails = {m1, m2, m3}
    MailFacts <- MCMailFacts
    ShowGroups <- MCShowGroups
    Lines <- MCLines
    MaxAggregate = 2
    MaxRaw = 2
    MaxItems = 2
    MaxPages = 2
    MaxPageItems = 2
    MaxMail = 3
    MaxUid = 9
    BatchCount = 2
    BatchBytes = 4
    MaxLoopBatches = 2
    MaxRunBatches = 2
    MaxCollects = 2
INVARIANTS
    AskedExactlyOnce
    FailuresHeeded
PROPERTIES
    KeepsPromise
CHECK_DEADLOCK FALSE
