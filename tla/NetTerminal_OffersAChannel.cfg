SPECIFICATION Spec
CONSTANTS
  Cids <- MCCids
  Peers <- MCPeers
  MaxConnects = 2
  MaxQueued = 2
INVARIANT OffersAChannel
