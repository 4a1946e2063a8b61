SPECIFICATION MCSpec
CONSTANTS
    MaxEvents = 3
    ChanSize = 2
    UpSize = 1
    MaxSaid = 3
    MaxTurns = 1
INVARIANTS
    TypesOK
    OutcomeIsSound
    SuccessIsEarned
    EndingIsSound
    SessionIsSound
PROPERTIES
    LoopsEnd
