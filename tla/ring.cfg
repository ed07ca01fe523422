SPECIFICATION Spec
CONSTANTS
    NO_OF_RX_FIFOS = 3
    NO_OF_TX_FIFOS = 2
    MaxFrames = 6
    MaxAborts = 2
INVARIANT TakesNext
PROPERTIES LastHandled Revives SendsAnswer
