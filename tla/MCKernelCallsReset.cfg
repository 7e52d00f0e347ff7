SPECIFICATION KCSpec
CONSTANTS
    Host = host
    Thread = {host, worker}
    KernelNest = 2
    FramesMax = 2
    None = None
    MaxCalls <- MCMaxCalls
PROPERTY KernelErrorsFailTheirJob
CHECK_DEADLOCK FALSE
