SPECIFICATION Spec
CONSTANTS
  Margin = 1
  Grace = 1
  Lookback = 2
  MaxRuns = 2
  MaxReruns = 1
  MaxPasses = 2
  MaxDay = 2
  Categories = {1, 2}
  Listing <- MCListing
  Pinned = {2}
  Before = 5
  Streak = 2
  MaxRequests = 2
  Newest = 7
  MaxPosts = 1
  MaxFailures = 1
  MaxLosses = 1
  MaxAgings = 1
  Bug = {b1, b2}
  Overlap = 1
  MaxTime = 3
  MaxEdits = 2
  MaxErrors = 1
INVARIANTS TypeOK DoneMeansStored WatermarkCovers
PROPERTIES RecentRunsStored CollectorsCatchUp
CHECK_DEADLOCK FALSE
