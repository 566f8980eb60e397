SPECIFICATION MCSpec
CONSTANTS
    None = None
    MaxSockets = 3
    LoopIds = {1, 2, 3}
    Calls = {1}
    Window = 3
    MaxChunks = 5
    Sources <- MCSources
    PullSize = 2
    MaxCredits = 4
    Conns = {1, 2}
    MaxBody = 2
    MaxUpload = 4
    MaxTotal = 4
    MaxEntries = 3
    Concurrency = 2
    Middlewares = 1
    Subscribers = {1, 2, 3}
    HighWaterMark = 1
    MaxPublished = 2
    MaxRefused = 1
INVARIANTS
    ConnectionSound CallsEnd CreditsBalance BlobsSound
    GatewaySound ResponseSound CallSound SubscriptionsSound
CHECK_DEADLOCK FALSE
