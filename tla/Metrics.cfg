SPECIFICATION Spec
CONSTANTS
  Requests = {i1, i2}
  Methods = {get, put}
  NoLabels = none
  Durations = {1, 2, 4}
  Bounds <- MCBounds
  Nobody = nobody
  Scraper = scraper
  MaxScrapes = 1
SYMMETRY MetricsSymmetry
INVARIANTS
  TypeOK
  NoUpdateLost
  ScrapedAtOneMoment
