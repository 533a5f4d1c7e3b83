SPECIFICATION MCSpec
CONSTANTS
    Requests = {p, q}
    ann = ann
    root = root
    bob = bob
    Users = {ann, bob, root}
    Admins = {root}
    doc = doc
    handbook = handbook
    Docs = {doc, handbook}
    Filed = {handbook}
    pdf = pdf
    exe = exe
    Names = {pdf, exe}
    AllowedNames = {pdf}
    s1 = s1
    s2 = s2
    Sessions = {s1, s2}
    Indices = {0, 1}
    x = x
    y = y
    Data = {x, y}
    ChunkCounts = {1, 2}
    Checksums <- DeclaredChecksums
    Hours = {1, 2}
    LinkTTL = 2
    Ops = {"start", "chunk", "finalize", "share", "download"}
    MaxClock = 3
    MaxRequests = 3
    MaxFaults = 1
    NULL = NULL
INVARIANTS TypeOK AckedChunksKept OnlyOwnersFeed FilesMatchUploads DownloadsInTime
CONSTRAINT TimeMatters
SYMMETRY Symmetry
CHECK_DEADLOCK FALSE
