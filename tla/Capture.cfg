SPECIFICATION FairSpec
CONSTANTS
    NoDataReporter = nodata
    SkipFrameReporter = skipped
    Reporter = {nodata, skipped}
    MaxReports = 2
    FrameRate <- MCFrameRate
INVARIANTS
    ReportersInv
    AlternateFrames
    EncoderKnowsRate
    RateIsFed
PROPERTIES
    EndsCompletely
