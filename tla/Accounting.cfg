SPECIFICATION Spec
CONSTANTS
    K = 2
    FP32 = 5
    FP64 = 17
    KernelMax = 5
    MaxBw = 7
    BVar = 1
    BtimeNoise = 1
    MaxUpdateInterval = 3
    FirstBoot = 1
    MaxNow = 4
    Bursts <- MCBursts
    MaxTruth <- MCMax
    MaxLives = 2
    MaxSlips = 1
INVARIANTS TypeOK NoOvercount Conservative BootDetection CacheAhead
PROPERTY RateLimited
