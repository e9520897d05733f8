SPECIFICATION Spec
CONSTANTS
    Word = 65536
    RangeBuf = 12
    Received <- MCReceived
    FreeTexts <- MCFreeTexts
    Numbers <- MCNumbers
    RangeArgs <- MCRangeArgs
    Exts <- MCExts
    MimeExts <- MCMimeExts
    Cookies <- MCCookies
    SetCookies <- MCSetCookies
    Challenges <- MCChallenges
    AuthArgs <- MCAuthArgs
    Methods <- MCMethods
    Passwords <- MCPasswords
    Others <- MCOthers
    MaxHeads = 2
    MaxText = 12
INVARIANTS
    TypeOK
    OneLine
    RangesReadBack
    NumbersReadBack
    ChallengeReadBack
    CheckAuthExact
    CookiesFound
CHECK_DEADLOCK FALSE
