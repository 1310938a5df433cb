SPECIFICATION Spec
CONSTANTS
  Docs <- MCDocs
  Stored <- MCStored
  NoDoc = NoDoc
  Reads <- OneRead
  MaxDeletions = 2
CHECK_DEADLOCK FALSE
INVARIANTS
  FavoritesListTypeOK
  TableFollowsArray
  RowsShowFavorites
