SPECIFICATION Spec
CONSTANTS
    cpu1 = cpu1
    cpu2 = cpu2
    thread1 = thread1
    thread2 = thread2
    Cpus = {cpu1}
    Threads = {thread1}
    Tgid <- const_Tgid
    Stacks <- walk_Stacks
    Layouts <- const_Layouts
    Chunks <- const_Chunks
    Tables <- const_Tables
    MaxStackDepth = 4
    MaxStackDepthPerProgram = 3
    MaxTailCalls = 2
    MaxMappingsPerProcess = 6
    MaxStackTraces = 2
    MixedStackEnabled = {TRUE, FALSE}
    RegistersReadable = {TRUE, FALSE}
    Word = 4096
    StackHash <- HashOfStack
    MaxSamples = 1
INVARIANTS TypeOK RecordedIsStack WholeStackRecorded TruncatedOnlyWhenDeep
CHECK_DEADLOCK FALSE
