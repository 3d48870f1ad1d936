SPECIFICATION Spec
CONSTANTS
    Events = {e1}
    Users = {u1}
    Letters = {l1}
    Workers = {w1, w2}
    MaxRetries = 1
    MaxLosses = 1
    MaxDeaths = 1
    NoCount = NoCount
INVARIANTS NoticeSentOnce LettersRarelyRepeat NothingForgotten
PROPERTIES BadgeSettles MailDrains
