\* Two writes, one new document; three goroutines that reload.
SPECIFICATION Spec
CONSTANTS
  Contents = {"with", "without", "broken"}
  Good = {"with", "without"}
  Serving = {"with"}
  OnError = "stale"
  MaxSaves = 2
  MaxDocs = 2
PROPERTIES PublishesInOrder SavedIsLoaded SpecIsFollowed ReloadsEnd
