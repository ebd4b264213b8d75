\* Partials of four sentences; two sinks on a broadcast and on a call; a tree's
\* captions, made twice, with one failing write.  Keep and Slack are small so that
\* retention trims within the frames and takes allowed.  Two requests and the replays
\* of two creations for one device.
SPECIFICATION Spec
CONSTANTS
    Subjects = {"commit", "timeline", "call", "captions", "registry"}
    Policies <- MCPolicies
    Sentences <- MCSentences
    Splittable = {"gonna"}
    Closing = {"now"}
    MaxPartials = 4
    Cursors = {"push", "hls"}
    Delay = 1
    Cushion = 1
    Keep = 1
    Slack = 0
    MaxFrames = 4
    MaxTake = 3
    MaxTakes = 2
    MaxNow = 3
    Sinks = {"a", "b"}
    MaxLead = 3
    MaxSamples = 6
    Window = 2
    Texts <- MCTexts
    Width = 3
    Lines = 2
    PartLength = 2
    WindowParts = 2
    MaxDoc = 2
    Durations = {2, 3}
    MaxCues = 3
    MaxTrees = 2
    MaxFails = 1
    MaxWall = 4
    Slug = {"talk"}
    Lang = {"en"}
    Target = {"speakers"}
    Device = {"speakers"}
    Camera = {}
    MaxTargets = 1
    Caller = {c1, c2}
    c1 = c1
    c2 = c2
    Listener = {}
    Rendered = {}
    MaxCreate = 2
    MaxDrop = 0
    MayRebuild = TRUE
INVARIANTS TakesAreHeard OnlyTheStalestIsShed ListedPartsAreThere JobsAreOwned
PROPERTIES ClearsOnlyItself DroppedPushForgotten
SYMMETRY AlikeRequests
\* Every part may stop.
CHECK_DEADLOCK FALSE
