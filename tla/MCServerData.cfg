SPECIFICATION MCSpec
CONSTANTS
    Challenges = {x, y}
    ResetRequests = {r1, r2, r3}
    MaxTries = 2
    NoChallenge = NoChallenge
    c1 = c1
    c2 = c2
    People = {a, b}
    Churches = {c1, c2}
    Logins = {x, y}
    AdminRequests = {r1, r2}
    UserChanges <- MCChanges
    FirstAdmin = a
    NoChurch = NoChurch
    Nobody = Nobody
    Grants = {x, y}
    SupportSessions = {s1, s2}
    SupportUses = {r1, r2, r3}
    Unbound = Unbound
    Members = {a}
    Ministries = {x, y}
    Managers = {r1, r2}
    NotMember = NotMember
    Unsaved = Unsaved
    Services = {1, 2}
    Tunes = {t}
    SongSaves = {r1, r2}
    Songs = {p, q}
    text = text
    Contents = {text, otherText}
    Imports = {r3}
    Invites = {i1, i2, i3}
    Emails = {x, y}
    Joins = {r1, r2}
    NoInvite = NoInvite
SYMMETRY Symmetry
INVARIANTS
    ServerTypes
    ChallengeWorksOnce
    GrantServesOneSession
    PermissionsAreOneSave
    RegeneratedCodesAdmitNobody
PROPERTIES
    GuessesAreCounted
    NewerChallengeSurvives
    
    SongsAreOneSave
    
    
CHECK_DEADLOCK FALSE
