SPECIFICATION KCSpec
CONSTANTS
    Host = host
    Thread = {host, worker}
    KernelNest = 2
    FramesMax = 2
    None = None
    MaxCalls <- MCMaxCalls
INVARIANTS
    KCTypeOK
    ErrorsOnOwnVM
    ErrorsFailOwnJob
    KernelVMsNest
    FramesNest
    OnlyStraysGoWrong
CHECK_DEADLOCK FALSE
