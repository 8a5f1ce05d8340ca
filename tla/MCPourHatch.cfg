SPECIFICATION PourSpec
CONSTANT PourBoards <- MCPourBoards
INVARIANT StripesSpanTheZone
