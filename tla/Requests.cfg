SPECIFICATION RequestsSpec
CONSTANTS
    Creator = c
    Ally = {}
    Target = {t1, t2}
    Admin = admin
    Date = {1, 3}
    Expire = 2
    Retention = 1
    MaxAge = 4
    Session = {s1}
    None = None
    Worker = {w1, w2}
    Person = {a, b, c}
    Null = Null
    Account = {p, q}
    Name = {kim, KIM, lee}
    kim = kim
    KIM = KIM
    lee = lee
    Fold <- MCFold
    BeforeTag <- MCBeforeTag
    Pictured = {p1, p2}
    File = {f1, f2, f3}
    Attached = {f3}
    User = {u1, u2}
    Token = {k1, k2, k3}
    Version = {v1, v2, v3}
    Seed = {v1, v2}
    First = v1
    Guest = {g1, g2}
    Operator = {g1}
    Doc = {d1, d2}
    Comment = {m}
    Mark = {4}
    Day = {0}
    Start = 4
    End = 5
    MaxItems = 3
    Limit = 1
    NoValue = NoValue
SYMMETRY MCSymmetry
INVARIANTS RequestsTypeOK OneFace AdminRemains NamesUnambiguous TokensRotate ActiveRegistered FilesExist NothingSkipped StatsAgree
PROPERTIES NothingIsLost TrashKeepsTime AgreedNeverExpires IsLifecycle
CHECK_DEADLOCK FALSE
