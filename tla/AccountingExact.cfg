SPECIFICATION CalmSpec
CONSTANTS
    K = 3
    FP32 = 8
    FP64 = 29
    KernelMax = 8
    MaxBw = 0
    BVar = 1
    BtimeNoise = 0
    MaxUpdateInterval = 2
    FirstBoot = 1
    MaxNow = 3
    Bursts <- MCBursts
    MaxTruth <- MCMax
    MaxLives = 0
    MaxSlips = 0
INVARIANT Lossless
