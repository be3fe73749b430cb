SPECIFICATION FairChatSpec
CONSTANTS
  alice = alice
  bob = bob
  carol = carol
  lobby = lobby
  games = games
  Clients <- MCClients
  Room <- MCRoom
  SendBuffer = 2
  MaxTexts = 1
INVARIANTS
  HubNeverPanics
  NoGaps
PROPERTIES
  DroppedClientsEnd
CHECK_DEADLOCK FALSE
