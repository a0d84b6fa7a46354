\* A forking worker that may open three connections.
SPECIFICATION PoolSpec
CONSTANTS
    Forks = TRUE
    Connections = {1, 2, 3}
INVARIANT TransactionsAreSeparate
