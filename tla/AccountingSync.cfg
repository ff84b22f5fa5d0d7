SPECIFICATION SyncSpec
CONSTANTS
    K = 2
    FP32 = 5
    FP64 = 17
    KernelMax = 5
    MaxBw = 0
    BVar = 1
    BtimeNoise = 0
    MaxUpdateInterval = 10
    FirstBoot = 1
    MaxNow = 6
    Bursts <- MCBursts
    MaxTruth <- MCMax
    MaxLives = 0
    MaxSlips = 0
PROPERTY SyncRespected
