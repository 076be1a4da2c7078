SPECIFICATION SpecCache
CONSTANTS
    m = m
    n = n
    a = a
    b = b
    computer = computer
    zerg = zerg
    Member = {m, n}
    Kind = {computer}
    Name = {a, b}
    Tag <- MCTag
    Race = {zerg}
    Outcome = {"team1", "draw"}
    Lineup <- MCLineup
    Day = {0, 1}
    Moment = {20}
    Match = {g1, g2}
    LastTwin = 2
    LastManual = 1
    MaxKept = 2
    MaxWrites = 3
    None = None
SYMMETRY MCMatchSymmetry
INVARIANTS CacheTypeOK NumbersDistinct NumberTellsTheDate ReplayNamedAfterMatch AnswersAreFresh OneEntryPerList
PROPERTIES NumbersSettle MembersKeepTheirNames NamedMembersReadBack
