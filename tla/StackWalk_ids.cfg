SPECIFICATION Spec
CONSTANTS
    cpu1 = cpu1
    cpu2 = cpu2
    thread1 = thread1
    thread2 = thread2
    Cpus = {cpu1, cpu2}
    Threads = {thread1, thread2}
    Tgid <- const_Tgid
    Stacks <- ids_Stacks
    Layouts <- ids_Layouts
    Chunks <- ids_Chunks
    Tables <- ids_Tables
    MaxStackDepth = 4
    MaxStackDepthPerProgram = 3
    MaxTailCalls = 2
    MaxMappingsPerProcess = 6
    MaxStackTraces = 2
    MixedStackEnabled = {TRUE}
    RegistersReadable = {TRUE}
    Word = 4096
    StackHash <- HashOfStack
    MaxSamples = 2
INVARIANT StackIdNamesStack
CHECK_DEADLOCK FALSE
