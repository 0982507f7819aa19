CONSTANTS
    Urls = {"page", "moved", "loop", "error", "plain", "bad"}
    BadUrls = {"bad"}
    OkUrls = {"page", "plain"}
    Response <- MCResponse
    Number <- MCNumber
    Texts <- MCTexts
    Data <- MCData
    Files = {f1, f2}
    Socks = {s1, s2}
    BufSize = 4
    Parts = 2
    None = None
    MaxRequests = 2
SPECIFICATION FairSpec
INVARIANTS  NoSocketLost
PROPERTIES AnswersAreObeyed ExitEnds
CHECK_DEADLOCK FALSE
