SPECIFICATION Spec
CONSTANTS
    Times = {1, 2, 3}
    JunkTimes = {0, 2}
    JunkCounts = {0, 3, 4, 255}
    MaxAdds = 5
INVARIANTS
    BestKept
    MenuShowsFile
    FileKeepsBest
    JunkNeedsBadSave
