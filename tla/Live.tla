-------------------------------- MODULE Live ---------------------------------
(***************************************************************************)
(* vnstat -tr and vnstat -l (traffic.c): the traffic of an interface over  *)
(* some seconds, and a display of it that goes on until SIGINT.  The live  *)
(* display forks a child that counts packets on a raw socket; the child is *)
(* never told to end, but looks after every packet whether its parent is   *)
(* still there.  Whatever it counts reaches the display through a shared   *)
(* page, which is left out.                                                *)
(*                                                                         *)
(* One counter of the interface stands for the four that are read.         *)
(***************************************************************************)
EXTENDS Counters

CONSTANTS
    LIVETIME,       \* seconds between two samples of the live display
    MaxBytes,       \* bound: bytes that pass at a time
    MaxFlow,        \* bound: bytes that pass while somebody measures
    MaxSamples,     \* bound: samples of a live display
    MaxPackets      \* bound: packets the child handles without a parent

ASSUME LiveAssumption ==
    /\ 2 * FP32 <= FP64
    /\ LIVETIME \in Nat \ {0} /\ MaxBytes \in 1..FP32
    /\ MaxFlow \in Nat /\ MaxSamples \in Nat /\ MaxPackets \in Nat

VARIABLES
    nic,            \* the interface's counter, and its largest value
    lpc,            \* where the parent is
    intsignal,      \* SIGINT has come
    ifinfo,         \* the counter when it was last read
    total,          \* rxtotal
    lo, hi,         \* least and largest rate, rxpmin and rxpmax
    child,          \* where the child is
    ppid,           \* whose process the child believes its parent to be
    root,           \* the user may open a raw socket, and signal init
    passed,         \* ghost: bytes since the counter was last read
    flow,           \* ghost: bytes between the first and the last reading
    wraps,          \* ghost: readings that found a smaller value
    n,              \* ghost: samples
    late            \* ghost: packets the child handled without a parent

lvars == <<nic, lpc, intsignal, ifinfo, total, lo, hi, child, ppid, root,
           passed, flow, wraps, n, late>>
parentvars == <<lpc, intsignal, ifinfo, total, lo, hi, flow, wraps, n>>
childvars == <<child, ppid, root, late>>

NoMin == FP64       \* the rate that rxpmin begins with

LiveInit ==
    /\ nic = [count |-> 0, max |-> FP32]
    /\ lpc = "off" /\ intsignal = FALSE /\ ifinfo = 0 /\ total = 0 /\ lo = NoMin /\ hi = 0
    /\ child = "none" /\ ppid = "none" /\ root = FALSE
    /\ passed = 0 /\ flow = 0 /\ wraps = 0 /\ n = 0 /\ late = 0
-----------------------------------------------------------------------------
\* Bytes pass through the interface.
Bytes ==
    /\ lpc \in {"sampling", "head", "asleep"}
    /\ \E b \in 1..MaxBytes :
         /\ passed + b <= FP32 - 1
         /\ flow + passed + b <= MaxFlow
         /\ nic' = [nic EXCEPT !.count = (@ + b) % (nic.max + 1)]
         /\ passed' = passed + b
    /\ UNCHANGED <<parentvars, childvars>>

\* The interface and the user that a measurement meets.
Begin ==
    /\ lpc = "off"
    /\ nic' \in {[count |-> FP32 - 1, max |-> FP32], [count |-> FP64 - 1, max |-> FP64]}
    /\ root' \in BOOLEAN

\* getifinfo has found the interface.
FirstReading == ifinfo' = nic'.count

\* Variant: the previous values are taken after the new ones were read.
DifferenceLate == countercalc(nic.count, nic.count)

Difference == countercalc(ifinfo, nic.count)

\* The next reading, whose difference to the last is counted.
NextReading ==
    /\ ifinfo' = nic.count
    /\ total' = total + Difference
    /\ flow' = flow + passed
    /\ passed' = 0
    /\ wraps' = IF nic.count < ifinfo THEN wraps + 1 ELSE wraps
    /\ n' = n + 1

\* trafficmeter, up to its sleep.
TrafficStart(sampletime) ==
    /\ Begin
    /\ \/ /\ sampletime >= 2
          /\ lpc' = "sampling"
          /\ FirstReading
       \/ lpc' = "gone" /\ UNCHANGED ifinfo
    /\ UNCHANGED <<intsignal, total, lo, hi, passed, flow, wraps, n, child, ppid, late>>

TrafficEnd ==
    /\ lpc = "sampling"
    /\ lpc' = "gone"
    /\ NextReading \/ UNCHANGED <<ifinfo, total, flow, passed, wraps, n>>
    /\ UNCHANGED <<nic, intsignal, lo, hi, childvars>>
-----------------------------------------------------------------------------
(***************************************************************************)
(* livetrafficmeter, the parent.                                           *)
(***************************************************************************)
\* The first reading and fork(), both of which may fail and then end it all.
LiveStart ==
    /\ Begin
    /\ \/ lpc' = "head" /\ FirstReading /\ child' = "started"
       \/ lpc' = "gone" /\ UNCHANGED <<ifinfo, child>>
    /\ UNCHANGED <<intsignal, total, lo, hi, passed, flow, wraps, n, ppid, late>>

LoopHead ==
    /\ lpc = "head"
    /\ lpc' = IF intsignal THEN "gone" ELSE "asleep"
    /\ UNCHANGED <<nic, passed, intsignal, ifinfo, total, lo, hi, flow, wraps, n, childvars>>

\* After the sleep: a signal has cut it short, and nothing is counted; or the
\* interface is gone, and the program exits; or another sample is taken.
Wake ==
    /\ lpc = "asleep"
    /\ \/ /\ intsignal
          /\ lpc' = "gone"
          /\ UNCHANGED <<ifinfo, total, lo, hi, flow, passed, wraps, n>>
       \/ /\ ~intsignal
          /\ lpc' = "gone"
          /\ UNCHANGED <<ifinfo, total, lo, hi, flow, passed, wraps, n>>
       \/ /\ ~intsignal
          /\ n < MaxSamples
          /\ lpc' = "head"
          /\ NextReading
          /\ LET rate == Difference \div LIVETIME IN
             /\ lo' = IF lo = NoMin \/ lo > rate THEN rate ELSE lo
             /\ hi' = IF hi < rate THEN rate ELSE hi
    /\ UNCHANGED <<nic, intsignal, childvars>>

\* CTRL-C.  The child has the same handler, but only the parent looks.
Interrupt ==
    /\ lpc \in {"head", "asleep"}
    /\ intsignal' = TRUE
    /\ UNCHANGED <<nic, lpc, ifinfo, total, lo, hi, flow, passed, wraps, n, childvars>>

\* The parent alone is killed.
Killed ==
    /\ lpc \in {"head", "asleep"}
    /\ lpc' = "gone"
    /\ UNCHANGED <<nic, intsignal, ifinfo, total, lo, hi, flow, passed, wraps, n, childvars>>
-----------------------------------------------------------------------------
(***************************************************************************)
(* The child.                                                              *)
(***************************************************************************)
\* getppid(): init, if the parent is gone.
Parent == IF lpc = "gone" THEN "init" ELSE "vnstat"

Learns ==
    /\ child = "started"
    /\ child' = "receive"
    /\ ppid' = Parent
    /\ UNCHANGED <<nic, passed, parentvars, root, late>>

\* A packet comes, or without the socket recvfrom fails at once, which is
\* taken for a packet as well: the one before, or whatever is in the buffer.
Receive ==
    /\ child = "receive"
    /\ late < MaxPackets
    /\ child' = "packet"
    /\ late' = IF lpc = "gone" THEN late + 1 ELSE late
    /\ UNCHANGED <<nic, passed, parentvars, ppid, root>>

\* Variant: the parent is asked for anew.
AliveNow == Parent = "vnstat" \/ root

\* kill(ppid, 0) = 0.
Alive == IF ppid = "vnstat" THEN lpc # "gone" ELSE root

GoesOn ==
    /\ child = "packet"
    /\ child' = IF Alive THEN "receive" ELSE "gone"
    /\ UNCHANGED <<nic, passed, parentvars, ppid, root, late>>

LiveNext ==
    \/ Bytes \/ TrafficEnd \/ LoopHead \/ Wake \/ Interrupt \/ Killed
    \/ Learns \/ Receive \/ GoesOn
-----------------------------------------------------------------------------
\* The total of a measurement is what passed between the first and the last
\* reading, except for the byte that countercalc loses when a counter wraps;
\* and the live display's rates bound it: none that was sampled is missing.
TotalsRight ==
    /\ total = flow - wraps
    /\ lo # NoMin => /\ LIVETIME * lo * n <= total
                     /\ total <= (LIVETIME * (hi + 1) - 1) * n

\* A child that knew its parent outlives it by at most one packet.  Nothing is
\* said of one that began to run after its parent was gone: if it is root's,
\* it takes init for its parent and never ends.
OneMorePacket == ppid = "vnstat" \/ ~root => late <= 1
=============================================================================
