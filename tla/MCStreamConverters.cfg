SPECIFICATION Spec
CONSTANTS
    Handler <- AllHandlers
    MaxLines = 6
    Prices <- MCPrices
INVARIANTS
    BlocksAreBracketed EndsAsReported StreamAgreesWithWhole
PROPERTY ImplementsDelivery
CHECK_DEADLOCK FALSE
