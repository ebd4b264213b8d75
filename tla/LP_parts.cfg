\* The processes of a lane's speech and media, a WAV file, and the lane's own start:
\* bounds under which every fault comes once, alone and after another one.
SPECIFICATION FairSpec
CONSTANTS
    Subjects = {"stt", "whisper", "voice", "loop", "calls", "device", "pcm", "sink", "wav", "lane"}
    MinSpeech = 2
    SilenceHang = 1
    MaxWindow = 4
    PreRoll = 1
    FrameSize = 2
    MaxSound = 5
    MaxBadDecodes = 1
    Ports = {"p1", "p2"}
    Attempts = 3
    Budget = 3
    MaxTurns = 2
    Chunks = 2
    PCMQueue = 1
    MaxHelpers = 2
    MaxFaults = 1
    Cancelled = {1}
    Requests = 3
    Kinds = {"mt", "tts"}
    Lanes = {"A", "B"}
    Calls = {"c1", "c2"}
    MaxSpawn = 2
    Plans <- MCPlans
    MaxRetries = 2
    MaxCalls = 3
    MaxBytes = 5
    Quantum = 4
    Wavs <- MCWavs
    MaxChunks = 3
    Samples = 3
    MaxTime = 7
    MTTasks = {"mt"}
    TTSTasks = {"tts", "tts2"}
    Workers = 2
    QueueSize = 1
    MaxOthers = 1
INVARIANTS SpeechIsFaithful NothingLeftBehind EndIsTold CallsStayApart
PROPERTIES TimeGoesOn PartsEnd
\* Every part comes to its end.
CHECK_DEADLOCK FALSE
