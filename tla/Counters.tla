------------------------------ MODULE Counters ------------------------------
(***************************************************************************)
(* The arithmetic vnstat does on interface counters (ifinfo.c, misc.c).    *)
(*                                                                         *)
(* A kernel counter is a number of bytes.  The database keeps the value it *)
(* last accounted for (currx, curtx) in an unsigned 64 bit integer and the *)
(* totals as a pair: whole MiB and a remainder in KiB.  The widths are     *)
(* parameters, so that TLC can meet a wrap after a handful of bytes.       *)
(***************************************************************************)
EXTENDS Integers

CONSTANTS
    K,          \* bytes in a KiB and KiB in a MiB: 1024
    FP32,       \* largest value of a 32 bit counter (common.h)
    FP64        \* largest value of a 64 bit counter (common.h)

ASSUME CountersAssumption ==
    /\ K \in Nat \ {0}
    /\ FP32 \in Nat
    /\ FP64 \in Nat
    /\ FP32 + K <= FP64

\* What is stored when n is assigned to a uint64_t.
U64(n) == n % (FP64 + 1)

Word64 == 0..FP64

(***************************************************************************)
(* Bytes passed since the counter read a, now that it reads b.  A smaller  *)
(* value is taken for one wrap of the counter, 64 bit wide if the previous *)
(* value does not fit in 32 bits.                                          *)
(***************************************************************************)
countercalc(a, b) ==
    IF b >= a THEN b - a
    ELSE IF a > FP32 THEN FP64 - a + b
    ELSE FP32 - a + b

\* The whole MiB, the KiB beyond them, and the bytes beyond those.
MBPart(cc) == cc \div (K * K)
KBPart(cc) == (cc \div K) % K
\* Variant: the bytes that do not fill a KiB are dropped.
BytePartLost(cc) == 0

BytePart(cc) == cc % K

\* A total of mb MiB and kb KiB in KiB.
InKB(mb, kb) == mb * K + kb

\* Variant: a KiB part of exactly one MiB is not carried over.
AddtrafficLate(t, srcmb, srckb) ==
    LET kb == t.kb + srckb IN
    IF kb > K
        THEN [mb |-> t.mb + srcmb + kb \div K, kb |-> kb - (kb \div K) * K]
        ELSE [mb |-> t.mb + srcmb, kb |-> kb]

\* Add srcmb MiB and srckb KiB to the total t, and normalise its KiB part.
addtraffic(t, srcmb, srckb) ==
    LET kb == t.kb + srckb IN
    IF kb >= K
        THEN [mb |-> t.mb + srcmb + kb \div K, kb |-> kb - (kb \div K) * K]
        ELSE [mb |-> t.mb + srcmb, kb |-> kb]

\* ceil((maxbw/8) * interval * 1.1): the MiB that an interface limited to
\* maxbw Mbit/s can transfer in interval seconds, with 10% to spare.
MaxTransfer(maxbw, interval) == (11 * maxbw * interval + 79) \div 80
=============================================================================
