SPECIFICATION AssetSpec
CONSTANTS
    Instances = {sf, ir}
    Players = {sf}
    Budget = 2
    MaxRequests = 2
    MaxEvents = 2
INVARIANTS OneUserOfUpdate BanksAreAsAnswered
PROPERTIES NewestBankWins MessagesEnd
CHECK_DEADLOCK FALSE
