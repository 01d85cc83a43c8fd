SPECIFICATION MCSpec
CONSTANTS
    Chat = {p, q}
    Webhook = {c1, c2}
    ChatSession = {s1, s2}
    DefaultTitle <- Default
    GivenTitle <- Given
    Socket = {k1, k2}
    WebSession = {main, sub}
    Broadcast = all
    Push = {m1, m2}
    BacklogSize = 1
SYMMETRY Symmetry
INVARIANTS
    MessagesStayInTheirChat
    AnswersReachTheirChat
    BoundClientsMissNothing
    OrphansReachTheParent
CHECK_DEADLOCK FALSE
