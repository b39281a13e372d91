SPECIFICATION FairSpec
CONSTANTS
    Worker = {w1, w2}
    Run = {r1, r2}
    Content = {c1, c2}
    NoRun = NoRun
    NoContent = NoContent
    MaxVersion = 2
INVARIANTS TypeOK PublishedIsReadable
PROPERTIES NeverOlder SnapshotComesBack
