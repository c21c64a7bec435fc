SPECIFICATION Spec
CONSTANTS
    Handler = {"claude native", "claude to openai"}
    MaxLines = 4
    Prices <- MCPrices
INVARIANT CachedIsBilledBeside
CHECK_DEADLOCK FALSE
