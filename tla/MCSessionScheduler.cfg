SPECIFICATION Spec
CONSTANTS
    Session = {s1, s2}
    Worker = {w1, w2}
    None = None
    MaxSubmit = 3
    Event <- RuntimeEvent
INVARIANTS
    TypeOK
    InflightIsOneTurn
    MailboxQuietDuringTurn
    NoStrandedMessage
    WakeupFlagIsHonest
PROPERTIES
    ImplementsInbox
