SPECIFICATION BothSpec
CONSTANTS
  MaxNodes = 5
  MaxAdds = 7
INVARIANTS ListsExact CursorExact TreesExact DeliversSnapshot
PROPERTIES RootExact FlattenExact Returns
