CONSTANT MaxStale = 0
SPECIFICATION FairSpec
PROPERTY NetworkOutageShows
