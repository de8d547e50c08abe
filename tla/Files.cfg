CONSTANTS NumClusters = 5  SecPerClus = 2  FatEntries = 4  FatCache = 1
 Dot = Dot  DotDot = DotDot
 RootFiles = {a, b}  SubDir = d  SubFiles = {a}  OldFile = a  Fillers = {x, y}
 Handles = {h1, h2}  Procs = {p1, p2}
 Sizes = {1, 3, 8}  Offsets = {0, 1, 4}
 DataCalls = 5  NameCalls = 4
 NoFile = NoFile  Unknown = Unknown  Closed = Closed
SPECIFICATION Spec
INVARIANT  NoPanic ChainsSound SyncedSurvives
PROPERTY ImplementsStore
CHECK_DEADLOCK FALSE
