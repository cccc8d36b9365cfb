SPECIFICATION RingSpec
CONSTANTS
  Byte = {z, p}
  Zero = z
  Size = 4
PROPERTY OverrunIsReported
