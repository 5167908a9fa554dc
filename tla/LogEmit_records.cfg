SPECIFICATION EmitSpec
CONSTANTS
  Records = {1, 2, 3}
  Zero = Zero
  QueueSize = 2
  MaxDropped = 1
  Batches <- MCBatches
  Inline = 1
  CountLimit = 3
  MaxCalls = 2
PROPERTIES
  ImplementsQueue
  
CHECK_DEADLOCK FALSE
