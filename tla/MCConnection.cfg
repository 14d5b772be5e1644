SPECIFICATION EitherSpec
CONSTANTS
    SUB_CAP = 2
    PREFIX_CAP = 2
    CTX_CAP = 1
    MaxSent = 5
    Accepted <- MCAccepted
    Topics <- PubTopics
    Streams <- MCStreams
    RadioStreams <- MCRadioStreams
    GROUP_CAP = 2
    NAME_CAP = 1
    Groups <- MCGroups
INVARIANTS
    HandshakeOrder
    WelcomeMeansAccepted
    EstablishedRightly
    RejectedStaysRejected
    SubscriptionsFollowFrames
    PongsAnswerPings
    MembersAreServed
PROPERTY
    OnlyToMembers
