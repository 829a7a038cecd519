CONSTANT MaxStale = 1
SPECIFICATION FairSpec
INVARIANT OfflineIsTimely
PROPERTIES IdentityOutageShows BackOnline
