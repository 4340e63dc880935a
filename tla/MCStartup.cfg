CONSTANTS
    ingest = ingest
    main = main
    Readers <- TwoReaders
    worker = 1
    worker_count = 3
    target_port_count = 2
SPECIFICATION Spec
INVARIANTS TypeOK Overshoot RoundRobin NoOrphanLock
CHECK_DEADLOCK FALSE
