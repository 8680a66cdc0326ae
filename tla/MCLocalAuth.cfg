\* The configuration of sample_config.yaml among the others.
CONSTANTS
    Handlers = {h1, h2}
    Startup = Startup
    None = None
SPECIFICATION Spec
INVARIANT LocalNeedsNoService
CHECK_DEADLOCK FALSE
