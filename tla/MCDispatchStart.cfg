CONSTANTS
    Client = {c1, c2, c3}
    worker_cnt = 2
    max_client_cnt = 2
    accept_per_tick = 2
SPECIFICATION Spec
SYMMETRY Symmetry
INVARIANTS
    WorkerNumIsLoad
