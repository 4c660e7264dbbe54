SPECIFICATION Spec
CONSTANTS
    max_inbuf = 2
    max_queued_lines = 3
    max_outbuf = 2
    econ_tick_days = 2
    MAX_LINES = 4
    MAX_PEERS = 2
    LAST_DAY = 3
INVARIANTS
    TypeOK
    TranscriptReplays
    QueuesBounded
PROPERTIES
    ImplementsServer
    TickAnswered
