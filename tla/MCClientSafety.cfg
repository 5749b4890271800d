SPECIFICATION MCSpec
CONSTANTS
    Callers = {c1, c2}
    ClientSessions = {s1, s2}
    ClientTokens = {t1, t2, t3}
    PushEnabled = TRUE
    Nothing = Nothing
    MaxNotes = 4
    PageSize = 1
    MaxLoads = 2
    Changes = {g1, g2}
    MaxScheduleLoads = 2
    song1 = song1
    LibrarySongs = {song1, song2}
    MaxVersion = 2
    MaxChanges = 2
    Found = {song1}
    blank = blank
    FormValues = {blank, v1, v2}
    NoValue = NoValue
    PageSongs = {s1, s2}
    Tones = 3
    MaxOpened = 2
    NoSong = NoSong
    letterA = letterA
    letterB = letterB
    Letters = {letterA, letterB}
    Break = Break
    ChordNames = {"C", "G"}
    Texts <- MCTexts
    Sheets <- MCSheets
    MaxSize = 4
    HistoryLimit = 2
    MaxEdits = 3
    MaxOutside = 1
    r1 = r1
    r2 = r2
    b1 = b1
    Requests = {r1, r2}
    Builds = {b1, b2}
    None = None
    Source = Source
    MaxDeaths = 1
SYMMETRY Symmetry
INVARIANTS
    ClientTypes
    
    InboxShownOnce
    SpinnersMatchLoads
    
    ChordsFollowTheirLetters
    
PROPERTIES
    
    StrandedByLateSavesOnly
    StripSpec
    AnswersAreTrue
CHECK_DEADLOCK FALSE
