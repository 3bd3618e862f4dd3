CONSTANTS
    cam = cam
    imu = imu
    Topics <- MCTopics
    Files <- MCFiles
    Timestamps <- MCTimestamps
    Tolerance = 2
    ProjectSchemas <- MCProjectSchemas
    TicksPerSecond = 1
    MaxFrames = 50
    Samples = 3
    BorderPasses <- MCBorderPasses
    Signals = {4000, 9997, 9998, 10000}
SPECIFICATION PreviewSpec
INVARIANTS
    TypeOK
    NearestOrFirstNear
    ImageMatchesTimestamp
    ListedImageIsServed
    ScoreIsEarned
