SPECIFICATION SpecCache
CONSTANTS
    m = m
    n = n
    a = a
    b = b
    computer = computer
    zerg = zerg
    Member = {m, n}
    Kind = {computer}
    Name = {a, b}
    Tag <- MCTag
    Race = {zerg}
    Outcome = {"team1"}
    Lineup <- MCLineup
    Day = {0}
    Moment = {20}
    Match = {g1}
    LastTwin = 2
    LastManual = 1
    MaxKept = 1
    MaxWrites = 3
    None = None
PROPERTIES NobodyRegisteredTwice
