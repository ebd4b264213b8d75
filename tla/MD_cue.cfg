\* The cues of one tree, whose every write succeeds: is each shown in its window?
SPECIFICATION Spec
CONSTANTS
    Subjects = {"captions"}
    Policies <- MCPolicies
    Sentences <- MCSentences
    Splittable = {"gonna"}
    Closing = {"now"}
    MaxPartials = 4
    Cursors = {"push", "hls"}
    Delay = 2
    Cushion = 1
    Keep = 1
    Slack = 0
    MaxFrames = 4
    MaxTake = 3
    MaxTakes = 2
    MaxNow = 4
    Sinks = {"a", "b"}
    MaxLead = 3
    MaxSamples = 6
    Window = 2
    Texts <- MCTexts
    Width = 3
    Lines = 2
    PartLength = 2
    WindowParts = 2
    MaxDoc = 2
    Durations = {2, 3}
    MaxCues = 3
    MaxTrees = 1
    MaxFails = 0
    MaxWall = 4
    Slug = {"talk"}
    Lang = {"en"}
    Target = {"speakers"}
    Device = {"speakers"}
    Camera = {}
    MaxTargets = 1
    Caller = {"c1", "c2"}
    Listener = {}
    Rendered = {}
    MaxCreate = 0
    MaxDrop = 0
    MayRebuild = TRUE
INVARIANT ShownInItsWindow
\* Every part may stop.
CHECK_DEADLOCK FALSE
