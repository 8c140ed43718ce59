SPECIFICATION Spec
CONSTANTS
 Parts = {"connect"}
 DevLoads <- DevWork
 ConnLoads <- ConnAutoWork
 ChanLoads <- ChanWork
 PipeLoads <- PipeWork
 TileLoads <- TileWork
 CodecLoads <- CodecWork
 camA = camA
 camB = camB
 Nil = Nil
 DevNil = DevNil
 TileNil = TileNil
 DevMaxDevices = 4
 DevMaxPending = 2
 DevMaxJobs = 2
 DevMaxQueues = 3
 DevMaxConns = 1
 DevMaxSpool = 4
 DevPrintChunk = 2
 DevVcChunk = 2
 DevMaxPdu = 6
 ConnMaxChannels = 4
 ConnMaxMonitors = 3
 Cameras = {camA, camB}
 Contacts = {1, 2}
 MediaLists <- CamMedia
 MaxUp = 2
 Areas = {1, 2}
 RDP_FRAME_QUEUE_HIGH_WATER = 1
 RDP_FRAME_QUEUE_HARD_CAP = 4
 RDPGFX_INFLIGHT_BUDGET = 3
 BackendRoom = 2
 ReactTries = 3
 TileCells <- TileCellsV
 TILE = 2
INVARIANT PresentsPassword
CHECK_DEADLOCK FALSE
