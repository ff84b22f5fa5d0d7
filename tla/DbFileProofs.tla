---------------------------- MODULE DbFileProofs -----------------------------
(***************************************************************************)
(* Proofs about DbFile, for any number of processes, any size of a record  *)
(* and any number of lock attempts, counter values and faults.             *)
(***************************************************************************)
EXTENDS DbFile, TLAPS

(***************************************************************************)
(* Types.                                                                  *)
(***************************************************************************)

\* What a whole file reads as.
LEMMA ImageType == ASSUME NEW v \in Chunk PROVE Image(v) \in [Index -> Chunk]
  BY DEF Image

\* Initially every variable has its type.
LEMMA TypeInit == Init => TypeOK
<1> SUFFICES ASSUME Init PROVE TypeOK
  OBVIOUS
<1>1. Empty \in [Index -> Chunk] /\ Image(Blank) \in [Index -> Chunk]
  BY ImageType DEF Empty, Chunk, Absent, Blank
<1>2. 1 \in 1..LockTries /\ 0 \in 0..Chunks
  BY SizeAssumption
<1>3. lock \in [Procs -> {"none", "shared", "excl"}] /\ pc \in [Procs -> Places]
      /\ cmd \in [Procs -> Kinds] /\ ret \in [Procs -> Results]
  BY DEF Init, Places, Kinds, Results
<1>4. mem \in [Procs -> [Index -> Chunk]] /\ main \in [Index -> Chunk]
      /\ backup \in [Index -> Chunk]
  BY <1>1 DEF Init
<1>5. pos \in [Procs -> 0..Chunks] /\ tries \in [Procs -> 1..LockTries]
      /\ passed \in [Procs -> 0..2]
  BY <1>2 DEF Init
<1>6. saved \in Chunk \cup {Unread} /\ floor \in [Procs -> Chunk \cup {Unread}]
  BY DEF Init
<1> QED BY <1>3, <1>4, <1>5, <1>6 DEF Init, TypeOK

\* A read puts chunks into the record, and the offset stays in the file.
LEMMA ReadSomeType ==
  ASSUME TypeOK, NEW p \in Procs, NEW f \in [Index -> Chunk], ReadSome(p, f)
  PROVE  mem' \in [Procs -> [Index -> Chunk]] /\ pos' \in [Procs -> 0..Chunks]
<1>1. PICK n \in (pos[p] + 1)..Chunks :
        /\ mem' = [mem EXCEPT ![p] =
             [i \in Index |-> IF i \in (pos[p] + 1)..n THEN Seen(f[i]) ELSE mem[p][i]]]
        /\ pos' = [pos EXCEPT ![p] = n]
  BY DEF ReadSome
<1>2. n \in 0..Chunks
  BY SizeAssumption DEF TypeOK
<1>3. \A i \in Index : Seen(f[i]) \in Chunk /\ mem[p][i] \in Chunk
  BY DEF TypeOK, Seen, Chunk, Hole
<1>4. [i \in Index |-> IF i \in (pos[p] + 1)..n THEN Seen(f[i]) ELSE mem[p][i]]
        \in [Index -> Chunk]
  BY <1>3
<1> QED BY <1>1, <1>2, <1>4 DEF TypeOK

\* One try for a lock, whatever its outcome.
LEMMA LockTypes ==
  ASSUME TypeOK, NEW p \in Procs, NEW mode \in {"shared", "excl"}
  PROVE  /\ Obtain(p, mode) => lock' \in [Procs -> {"none", "shared", "excl"}]
                               /\ tries' \in [Procs -> 1..LockTries]
         /\ Retry(p, mode) => tries' \in [Procs -> 1..LockTries]
         /\ GiveUp(p, mode) => tries' \in [Procs -> 1..LockTries] /\ faults' \in Nat
<1>1. 1 \in 1..LockTries
  BY SizeAssumption
<1>2. ASSUME Obtain(p, mode)
      PROVE  lock' \in [Procs -> {"none", "shared", "excl"}] /\ tries' \in [Procs -> 1..LockTries]
  <2>1. (IF flock THEN mode ELSE "none") \in {"none", "shared", "excl"}
    OBVIOUS
  <2> QED BY <1>1, <1>2, <2>1 DEF TypeOK, Obtain
<1>3. ASSUME Retry(p, mode) PROVE tries' \in [Procs -> 1..LockTries]
  <2>1. tries[p] + 1 \in 1..LockTries
    BY <1>3, SizeAssumption DEF TypeOK, Retry
  <2> QED BY <1>3, <2>1 DEF TypeOK, Retry
<1>4. ASSUME GiveUp(p, mode) PROVE tries' \in [Procs -> 1..LockTries] /\ faults' \in Nat
  BY <1>1, <1>4 DEF TypeOK, GiveUp
<1> QED BY <1>2, <1>3, <1>4

\* Every step of a process keeps the types.
LEMMA TypeStep ==
  ASSUME TypeOK, NEW p \in Procs, Step(p) \/ Fault(p)
  PROVE  TypeOK'
<1> USE SizeAssumption
<1>0. 1 \in Index /\ 0 \in 0..Chunks /\ 1 \in 1..LockTries
  BY DEF Index
<1>1. CASE Begin(p)
  <2>1. PICK c \in Commands[p], before \in {Blank, Other} :
          /\ cmd' = [cmd EXCEPT ![p] = c]
          /\ mem' = [mem EXCEPT ![p] = Image(IF made THEN before ELSE 0)]
    BY <1>1 DEF Begin
  <2>2. c \in Kinds
    BY CommandAssumption
  <2>3. Image(IF made THEN before ELSE 0) \in [Index -> Chunk]
    BY DEF Image, Chunk, Blank, Other
  <2>4. (IF Saving = {} THEN 0 ELSE 1) \in 0..2
    OBVIOUS
  <2>5. mem' \in [Procs -> [Index -> Chunk]] /\ cmd' \in [Procs -> Kinds]
    BY <2>1, <2>2, <2>3 DEF TypeOK
  <2>6. floor' \in [Procs -> Chunk \cup {Unread}] /\ passed' \in [Procs -> 0..2]
    BY <1>1, <2>4 DEF Begin, TypeOK
  <2> QED BY <1>0, <1>1, <2>5, <2>6 DEF Begin, Goto, Return, TypeOK, files, world, Places, Results
<1>2. CASE LockRead(p)
  <2>1. lock' \in [Procs -> {"none", "shared", "excl"}] /\ tries' \in [Procs -> 1..LockTries]
    BY <1>2, LockTypes DEF LockRead, TypeOK
  <2>2. pc' \in [Procs -> Places] /\ ret' \in [Procs -> Results] /\ faults' \in Nat
    BY <1>2, LockTypes DEF LockRead, TypeOK, Goto, Return, Places, Results
  <2> QED BY <1>2, <2>1, <2>2 DEF LockRead, TypeOK, world
<1>3. CASE ReadMain(p)
  <2>1. mem' \in [Procs -> [Index -> Chunk]] /\ pos' \in [Procs -> 0..Chunks]
    BY <1>0, <1>3, ReadSomeType DEF ReadMain, TypeOK
  <2>2. pc' \in [Procs -> Places] /\ ret' \in [Procs -> Results]
        /\ lock' \in [Procs -> {"none", "shared", "excl"}]
    BY <1>3 DEF ReadMain, TypeOK, Goto, Return, Release, Places, Results
  <2> QED BY <1>3, <2>1, <2>2 DEF ReadMain, TypeOK, world, history
<1>4. CASE ReadBackup(p)
  <2>1. mem' \in [Procs -> [Index -> Chunk]] /\ pos' \in [Procs -> 0..Chunks]
    BY <1>4, ReadSomeType DEF ReadBackup, TypeOK
  <2>2. pc' \in [Procs -> Places] /\ ret' \in [Procs -> Results]
    BY <1>4 DEF ReadBackup, TypeOK, Goto, Return, Places, Results
  <2> QED BY <1>4, <2>1, <2>2 DEF ReadBackup, TypeOK, world, history, files
<1>5. CASE Leave(p)
  BY <1>5 DEF Leave, Goto, TypeOK, Places, files, world, history
<1>6. CASE Save(p)
  <2>1. Updated(p) \in [Index -> Chunk] /\ Empty \in [Index -> Chunk]
    BY ImageType DEF Updated, TypeOK, Chunk, Empty, Absent
  <2>2. mem' \in [Procs -> [Index -> Chunk]] /\ backup' \in [Index -> Chunk]
    BY <1>6, <2>1 DEF Save, TypeOK
  <2>3. pc' \in [Procs -> Places] /\ pos' \in [Procs -> 0..Chunks]
    BY <1>0, <1>6 DEF Save, TypeOK, Goto, Places
  <2>4. passed' \in [Procs -> 0..2]
    BY <1>6 DEF Save, TypeOK
  <2> QED BY <1>6, <2>2, <2>3, <2>4 DEF Save, TypeOK, world
<1>7. CASE Copy(p)
  <2>1. CASE ~AtEOF(main, pos[p]) /\ backup' = [backup EXCEPT ![pos[p] + 1] = Seen(main[pos[p] + 1])]
             /\ pos' = [pos EXCEPT ![p] = @ + 1] /\ UNCHANGED pc
    <3>1. pos[p] \in 0..Chunks /\ pos[p] < Chunks
      BY <2>1 DEF AtEOF, Index, TypeOK
    <3>2. pos[p] + 1 \in Index /\ pos[p] + 1 \in 0..Chunks
      BY <3>1 DEF Index
    <3>3. Seen(main[pos[p] + 1]) \in Chunk
      BY <3>2 DEF TypeOK, Seen, Chunk, Hole
    <3> QED BY <1>7, <2>1, <3>2, <3>3 DEF Copy, TypeOK, world, history
  <2>2. CASE Goto(p, "trunc") /\ UNCHANGED <<backup, pos>>
    BY <1>7, <2>2 DEF Copy, TypeOK, Goto, Places, world, history
  <2> QED BY <1>7, <2>1, <2>2 DEF Copy
<1>8. CASE Truncate(p)
  BY <1>8, ImageType DEF Truncate, TypeOK, Goto, Places, world, history, Empty, Chunk, Absent
<1>9. CASE LockWrite(p)
  <2>1. lock' \in [Procs -> {"none", "shared", "excl"}] /\ tries' \in [Procs -> 1..LockTries]
    BY <1>9, LockTypes DEF LockWrite, TypeOK
  <2>2. pc' \in [Procs -> Places] /\ ret' \in [Procs -> Results] /\ faults' \in Nat
    BY <1>9, LockTypes DEF LockWrite, AfterSave, TypeOK, Goto, Return, Places, Results
  <2> QED BY <1>9, <2>1, <2>2 DEF LockWrite, TypeOK, world
<1>10. CASE Flush(p)
  BY <1>0, <1>10 DEF Flush, AfterSave, TypeOK, Goto, Return, Release, Places, Results, world
<1>11. CASE Crash(p)
  BY <1>0, <1>11 DEF Crash, TypeOK, Goto, Release, Places, world
<1>12. CASE CopyFails(p)
  BY <1>12 DEF CopyFails, AfterSave, TypeOK, Goto, Return, Places, Results, files, world
<1>13. CASE FlushFails(p)
  <2>1. PICK n \in 0..(Chunks - 1) :
          main' = [i \in Index |-> IF i <= n THEN mem[p][i] ELSE main[i]]
    BY <1>13 DEF FlushFails
  <2>2. main' \in [Index -> Chunk]
    BY <2>1 DEF TypeOK
  <2> QED BY <1>13, <2>2 DEF FlushFails, AfterSave, TypeOK, Goto, Return, Release, Places, Results, world
<1> QED BY <1>1, <1>2, <1>3, <1>4, <1>5, <1>6, <1>7, <1>8, <1>9, <1>10, <1>11, <1>12, <1>13
        DEF Step, Fault

LEMMA TypeNext == TypeOK /\ [Next]_vars => TypeOK'
<1> SUFFICES ASSUME TypeOK, [Next]_vars PROVE TypeOK'
  OBVIOUS
<1>1. CASE Traffic
  BY <1>1, BoundAssumption DEF Traffic, TypeOK, files, procs, history
<1>2. CASE UNCHANGED vars
  BY <1>2 DEF vars, TypeOK, files, procs, world, history
<1> QED BY <1>1, <1>2, TypeStep DEF Next

\* Every variable keeps its type: in particular an offset never leaves the
\* record and no process tries a lock more than LOCKTRYLIMIT times.
THEOREM TypeAlways == Spec => []TypeOK
  BY TypeInit, TypeNext, PTL DEF Spec

-----------------------------------------------------------------------------
(***************************************************************************)
(* A single writer, with any number of readers.                            *)
(***************************************************************************)

SingleWriter(w) ==
  w \in Procs /\ \A p \in Procs \ {w} : Commands[p] \subseteq {"query"}

SavePlaces == {"copy", "trunc", "lockWrite", "flush"}

\* The others only read.
Bystanders(w) ==
  \A p \in Procs \ {w} : cmd[p] = "query" /\ pc[p] \notin SavePlaces /\ lock[p] # "excl"

\* A file is the beginning of one record, and of no record from the future.
Prefix(f) ==
  \A i \in Index : f[i] # Absent => f[i] \in 0..counter /\ \A j \in 1..i : f[j] = f[i]

Content == Prefix(main) /\ Prefix(backup) /\ (~made => main = Empty /\ backup = Empty)

\* The first k chunks of record r were read from f.
ReadFrom(r, f, k) == \A i \in 1..k : r[i] = f[i] /\ f[i] # Absent

\* What the writer has in memory is what it read, and not older than what a
\* reader would get; it only turns to the backup when the file was damaged.
Reads(w) ==
  /\ pc[w] \in Reading => made
  /\ pc[w] = "lockRead" => pos[w] = 0
  /\ pc[w] = "read" => ReadFrom(mem[w], main, pos[w])
  /\ pc[w] = "readBackup" =>
       ~IsRecord(main) /\ faults > 0 /\ ReadFrom(mem[w], backup, pos[w])
  /\ pc[w] \in {"back"} \cup SavePlaces =>
       IsRecord(mem[w]) /\ Stored <= mem[w][1] /\ mem[w][1] <= counter
  /\ pc[w] = "back" => ret[w] = "ok" \/ (ret[w] = "new" /\ ~made)

\* The backup is the copied part of the file, then all of it, and only then is
\* the file emptied.
Saves(w) ==
  /\ pc[w] = "copy" =>
       made /\ \A i \in Index : backup[i] = IF i <= pos[w] THEN main[i] ELSE Absent
  /\ pc[w] = "trunc" => backup = main
  /\ pc[w] \in {"lockWrite", "flush"} => made /\ main = Empty

Calm(w) ==
  faults = 0 /\ made /\ pc[w] \notin {"lockWrite", "flush"} => IsRecord(main)

LastSaved(w) ==
  saved # Unread /\ (faults = 0 \/ (faults = 1 /\ pc[w] \notin SavePlaces)) =>
    Stored = saved

Inv(w) ==
  TypeOK /\ Bystanders(w) /\ Content /\ Reads(w) /\ Saves(w) /\ Calm(w) /\ LastSaved(w)

StoreStep == [Register!Next]_<<Stored, (faults > 0)>>

\* A whole record is a file whose last chunk is there.
LEMMA RecordIff ==
  ASSUME NEW f \in [Index -> Chunk], Prefix(f), counter \in Nat
  PROVE  IsRecord(f) <=> f[Chunks] # Absent
<1>1. 1 \in Index /\ Chunks \in Index /\ Chunks \in Nat
  BY SizeAssumption DEF Index
<1>2. ASSUME IsRecord(f) PROVE f[Chunks] # Absent
  <2>1. f[Chunks] = f[1] /\ f[1] \in Nat
    BY <1>1, <1>2 DEF IsRecord, Image
  <2> QED BY <2>1 DEF Absent
<1>3. ASSUME f[Chunks] # Absent PROVE IsRecord(f)
  <2>1. f[Chunks] \in 0..counter /\ \A j \in Index : f[j] = f[Chunks]
    BY <1>1, <1>3 DEF Prefix, Index
  <2>2. f[1] \in Nat /\ \A j \in Index : f[j] = f[1]
    BY <1>1, <2>1
  <2>3. f = Image(f[1])
    BY <2>2 DEF Image
  <2> QED BY <2>2, <2>3 DEF IsRecord
<1> QED BY <1>2, <1>3

\* An empty file is no record, and trivially a prefix of one.
LEMMA EmptyFile == Empty \in [Index -> Chunk] /\ Prefix(Empty) /\ ~IsRecord(Empty)
<1>1. 1 \in Index
  BY SizeAssumption DEF Index
<1>2. Empty \in [Index -> Chunk] /\ Empty[1] = Absent
  BY <1>1 DEF Empty, Image, Chunk
<1>3. Prefix(Empty)
  BY DEF Prefix, Empty, Image
<1> QED BY <1>2, <1>3 DEF IsRecord, Absent

\* What can be read is a record not from the future, or nothing.
LEMMA StoredType ==
  ASSUME TypeOK, Content
  PROVE  Stored = -1 \/ Stored \in 0..counter
<1>1. 1 \in Index
  BY SizeAssumption DEF Index
<1>2. \A f \in {main, backup} : IsRecord(f) => f[1] \in 0..counter
  <2>1. \A f \in {main, backup} : IsRecord(f) => f[1] # Absent
    BY DEF IsRecord, Absent
  <2> QED BY <1>1, <2>1 DEF Content, Prefix
<1> QED BY <1>2 DEF Stored, Absent

\* A record in memory, seen as a file.
LEMMA RecordPrefix ==
  ASSUME NEW r \in [Index -> Chunk], IsRecord(r), r[1] <= counter, counter \in Nat
  PROVE  Prefix(r)
<1>1. \A i \in Index : r[i] = r[1]
  BY DEF IsRecord, Image
<1>2. r[1] \in 0..counter
  BY DEF IsRecord
<1>3. \A i \in Index : \A j \in 1..i : j \in Index
  BY SizeAssumption DEF Index
<1> QED BY <1>1, <1>2, <1>3 DEF Prefix

\* A read from a prefix, complete, is a record.
LEMMA ReadWhole ==
  ASSUME NEW f \in [Index -> Chunk], Prefix(f), counter \in Nat,
         NEW r \in [Index -> Chunk], ReadFrom(r, f, Chunks)
  PROVE  IsRecord(f) /\ r = f
<1>1. Chunks \in Index /\ \A i \in Index : i \in 1..Chunks
  BY SizeAssumption DEF Index
<1>2. IsRecord(f)
  BY <1>1, RecordIff DEF ReadFrom
<1>3. \A i \in Index : r[i] = f[i]
  BY <1>1 DEF ReadFrom
<1> QED BY <1>2, <1>3

\* One read(2) extends what was read.
LEMMA ReadMore ==
  ASSUME TypeOK, NEW p \in Procs, NEW f \in [Index -> Chunk], Prefix(f),
         ReadFrom(mem[p], f, pos[p]), ReadSome(p, f)
  PROVE  ReadFrom(mem'[p], f, pos'[p])
<1>1. PICK n \in (pos[p] + 1)..Chunks :
        /\ f[n] # Absent
        /\ mem' = [mem EXCEPT ![p] =
             [i \in Index |-> IF i \in (pos[p] + 1)..n THEN Seen(f[i]) ELSE mem[p][i]]]
        /\ pos' = [pos EXCEPT ![p] = n]
  BY DEF ReadSome
<1>2. pos'[p] = n /\ n \in Index /\ n \in Nat /\ pos[p] \in Nat
  BY <1>1, SizeAssumption DEF TypeOK, Index
<1>3. mem'[p] = [i \in Index |-> IF i \in (pos[p] + 1)..n THEN Seen(f[i]) ELSE mem[p][i]]
  BY <1>1 DEF TypeOK
<1>4. ASSUME NEW i \in 1..n PROVE mem'[p][i] = f[i] /\ f[i] # Absent
  <2>0. \A j \in 1..n : f[j] = f[n]
    BY <1>1, <1>2 DEF Prefix
  <2>1. i \in Index /\ f[i] = f[n]
    BY <1>2, <2>0, SizeAssumption DEF Index
  <2>2. f[i] # Absent
    BY <1>1, <2>1
  <2>3. CASE i \in (pos[p] + 1)..n
    BY <1>3, <2>1, <2>2, <2>3 DEF Seen
  <2>4. CASE i \in 1..pos[p]
    BY <1>2, <1>3, <2>1, <2>2, <2>4 DEF ReadFrom
  <2> QED BY <1>2, <2>3, <2>4
<1> QED BY <1>2, <1>4 DEF ReadFrom

\* The four kinds of steps the cell can see.
LEMMA StoreSteps ==
  ASSUME TypeOK
  PROVE  /\ Stored' = Stored /\ faults' = faults => StoreStep
         /\ Stored' = Stored /\ faults' = faults + 1 => StoreStep
         /\ Stored' \in Nat /\ Stored' >= Stored /\ faults' = faults => StoreStep
         /\ Stored' = -1 /\ faults > 0 /\ faults' = faults => StoreStep
<1>1. ASSUME faults' = faults PROVE (faults > 0)' = (faults > 0)
  BY <1>1
<1>2. ASSUME faults' = faults + 1 PROVE (faults > 0)' = TRUE
  BY <1>2 DEF TypeOK
<1> QED BY <1>1, <1>2 DEF StoreStep, Register!Next, Register!Put, Register!Fail,
          Register!Lose, Register!Nothing

\* Initially there is no file.
LEMMA InvInit ==
  ASSUME NEW w, SingleWriter(w), Init
  PROVE  Inv(w) /\ Register!Init
<1>1. TypeOK
  BY TypeInit
<1>2. Prefix(Empty) /\ ~IsRecord(Empty)
  BY EmptyFile
<1>3. pc[w] = "idle" /\ \A p \in Procs : cmd[p] = "query" /\ pc[p] = "idle" /\ lock[p] = "none"
  BY DEF Init, SingleWriter
<1>4. Bystanders(w) /\ Content /\ Reads(w) /\ Saves(w) /\ Calm(w) /\ LastSaved(w)
  BY <1>2, <1>3 DEF Init, Bystanders, SavePlaces, Content, Reads, Reading, Saves, Calm, LastSaved
<1>5. Stored = Absent /\ faults = 0
  BY <1>2 DEF Init, Stored
<1>6. (faults > 0) = FALSE
  BY <1>5
<1>7. Register!Init
  BY <1>5, <1>6 DEF Register!Init, Register!Nothing, Absent
<1> QED BY <1>1, <1>4, <1>7 DEF Inv

\* Steps that change neither the files nor the writer, but for more faults.
Elsewhere(w) ==
  /\ UNCHANGED <<made, main, backup, saved>>
  /\ pc'[w] = pc[w] /\ mem'[w] = mem[w] /\ pos'[w] = pos[w] /\ ret'[w] = ret[w]
  /\ counter' >= counter
  /\ faults' = faults \/ faults' = faults + 1

LEMMA ElsewhereStep ==
  ASSUME NEW w, Inv(w), TypeOK', Bystanders(w)', Elsewhere(w)
  PROVE  Inv(w)' /\ StoreStep
<1> USE DEF Elsewhere
<1>1. Stored' = Stored
  BY DEF Stored, IsRecord
<1>2. counter \in Nat /\ counter' \in Nat /\ faults \in Nat
  BY DEF Inv, TypeOK
<1>3. Content'
  BY <1>2 DEF Inv, Content, Prefix
<1>4. Reads(w)'
  <2>1. IsRecord(mem[w])' <=> IsRecord(mem[w])
    BY DEF IsRecord
  <2>2. IsRecord(main)' <=> IsRecord(main)
    BY DEF IsRecord
  <2>3. IsRecord(mem[w]) /\ mem[w][1] <= counter => mem[w][1] \in Nat /\ mem[w][1] <= counter'
    BY <1>2 DEF IsRecord
  <2> QED BY <1>1, <1>2, <2>1, <2>2, <2>3 DEF Inv, Reads, Reading, ReadFrom
<1>5. Saves(w)' /\ Calm(w)' /\ LastSaved(w)'
  BY <1>1, <1>2 DEF Inv, Saves, Calm, LastSaved, IsRecord
<1>6. StoreStep
  BY <1>1, StoreSteps DEF Inv
<1> QED BY <1>3, <1>4, <1>5, <1>6 DEF Inv

\* A step of a reader.
LEMMA ReaderStep ==
  ASSUME NEW w, SingleWriter(w), Inv(w), NEW p \in Procs \ {w}, Step(p) \/ Fault(p)
  PROVE  Inv(w)' /\ StoreStep
<1>1. TypeOK /\ TypeOK' /\ Bystanders(w) /\ w \in Procs
  BY TypeStep DEF Inv, SingleWriter
<1>2. cmd[p] = "query" /\ pc[p] \notin SavePlaces /\ lock[p] # "excl"
  BY <1>1 DEF Bystanders
<1>3. ~Save(p)
  BY <1>2 DEF Save, Proceeds
<1>4. ~Copy(p) /\ ~Truncate(p) /\ ~LockWrite(p) /\ ~Flush(p) /\ ~CopyFails(p) /\ ~FlushFails(p)
  BY <1>2 DEF Copy, Truncate, LockWrite, Flush, CopyFails, FlushFails, SavePlaces
<1>5. CASE Begin(p)
  <2>1. PICK c \in Commands[p] : cmd' = [cmd EXCEPT ![p] = c]
    BY <1>5 DEF Begin
  <2>2. c = "query"
    BY DEF SingleWriter
  <2>3. Bystanders(w)'
    BY <1>1, <1>5, <2>1, <2>2 DEF Begin, Bystanders, SavePlaces, Goto, TypeOK, files
  <2>4. Elsewhere(w)
    BY <1>1, <1>5 DEF Elsewhere, Begin, Goto, Return, TypeOK, files, world
  <2> QED BY <1>1, <2>3, <2>4, ElsewhereStep
<1>6. CASE LockRead(p)
  <2>1. Bystanders(w)'
    BY <1>1, <1>6 DEF LockRead, Obtain, Retry, GiveUp, Bystanders, SavePlaces, Goto, TypeOK
  <2>2. Elsewhere(w)
    BY <1>1, <1>6 DEF Elsewhere, LockRead, Obtain, Retry, GiveUp, Goto, Return, TypeOK, world
  <2> QED BY <1>1, <2>1, <2>2, ElsewhereStep
<1>7. CASE ReadMain(p)
  <2>1. Bystanders(w)'
    BY <1>1, <1>7 DEF ReadMain, Bystanders, SavePlaces, Goto, Release, TypeOK
  <2>2. Elsewhere(w)
    BY <1>1, <1>7 DEF Elsewhere, ReadMain, ReadSome, Goto, Return, TypeOK, world, history
  <2> QED BY <1>1, <2>1, <2>2, ElsewhereStep
<1>8. CASE ReadBackup(p)
  <2>1. Bystanders(w)'
    BY <1>1, <1>8 DEF ReadBackup, Bystanders, SavePlaces, Goto, TypeOK, files
  <2>2. Elsewhere(w)
    BY <1>1, <1>8 DEF Elsewhere, ReadBackup, ReadSome, Goto, Return, TypeOK, files, world, history
  <2> QED BY <1>1, <2>1, <2>2, ElsewhereStep
<1>9. CASE Leave(p) \/ Crash(p)
  <2>1. Bystanders(w)'
    BY <1>1, <1>9 DEF Leave, Crash, Bystanders, SavePlaces, Goto, Release, TypeOK, files
  <2>2. Elsewhere(w)
    BY <1>1, <1>9 DEF Elsewhere, Leave, Crash, Goto, Return, TypeOK, files, world, history
  <2> QED BY <1>1, <2>1, <2>2, ElsewhereStep
<1> QED BY <1>3, <1>4, <1>5, <1>6, <1>7, <1>8, <1>9 DEF Step, Fault

\* Steps of the writer leave the others alone.
LEMMA WriterAlone ==
  ASSUME NEW w, SingleWriter(w), Inv(w), Step(w) \/ Fault(w)
  PROVE  TypeOK' /\ Bystanders(w)' /\ w \in Procs
<1> USE DEF SingleWriter
<1>1. TypeOK'
  BY TypeStep DEF Inv
<1>2. \A p \in Procs \ {w} : cmd'[p] = cmd[p] /\ pc'[p] = pc[p] /\ lock'[p] = lock[p]
  <2> USE DEF Inv, TypeOK, Goto, files, procs, world, history
  <2>1. CASE Begin(w) \/ Leave(w) \/ Save(w) \/ Copy(w) \/ Truncate(w)
    BY <2>1 DEF Begin, Leave, Save, Copy, Truncate
  <2>2. CASE LockRead(w) \/ ReadMain(w) \/ ReadBackup(w)
    BY <2>2 DEF LockRead, Obtain, Retry, GiveUp, ReadMain, ReadBackup, Release
  <2>3. CASE LockWrite(w) \/ Flush(w)
    BY <2>3 DEF LockWrite, Obtain, Retry, GiveUp, Flush, AfterSave, Release
  <2>4. CASE Fault(w)
    BY <2>4 DEF Fault, Crash, CopyFails, FlushFails, AfterSave, Release
  <2> QED BY <2>1, <2>2, <2>3, <2>4 DEF Step
<1>3. Bystanders(w)'
  BY <1>2 DEF Inv, Bystanders
<1> QED BY <1>1, <1>3

\* Steps of the writer outside a save, and the faults that end a save before
\* it has changed the file: only what it has in memory needs a look.
LEMMA SameFiles ==
  ASSUME NEW w, Inv(w), TypeOK', Bystanders(w)', Reads(w)',
         UNCHANGED <<made, main, backup, saved, counter>>,
         pc'[w] \notin SavePlaces,
         \/ faults' = faults /\ pc[w] \notin SavePlaces
         \/ faults' = faults + 1
  PROVE  Inv(w)' /\ StoreStep
<1>1. Stored' = Stored /\ faults \in Nat
  BY DEF Stored, IsRecord, Inv, TypeOK
<1>2. Content' /\ Saves(w)'
  BY DEF Inv, Content, Prefix, Saves, SavePlaces
<1>3. Calm(w)' /\ LastSaved(w)'
  BY <1>1 DEF Inv, Calm, LastSaved, IsRecord, SavePlaces
<1>4. StoreStep
  BY <1>1, StoreSteps DEF Inv
<1> QED BY <1>2, <1>3, <1>4 DEF Inv

\* The writer keeps its record when a save ends without an effect.
LEMMA Kept ==
  ASSUME NEW w, w \in Procs, Inv(w), pc[w] \in SavePlaces, AfterSave(w),
         Stored' = Stored, UNCHANGED <<mem, counter>>
  PROVE  Reads(w)' /\ pc'[w] \notin SavePlaces
<1>1. pc'[w] \in {"idle", "back"} /\ ret'[w] = "ok"
  BY DEF AfterSave, Goto, Return, Inv, TypeOK
<1>2. IsRecord(mem[w])' <=> IsRecord(mem[w])
  BY DEF IsRecord
<1> QED BY <1>1, <1>2 DEF Inv, Reads, Reading, SavePlaces

\* A command begins.
LEMMA BeginStep ==
  ASSUME NEW w, SingleWriter(w), Inv(w), Begin(w)
  PROVE  Inv(w)' /\ StoreStep
<1>1. TypeOK' /\ Bystanders(w)' /\ w \in Procs
  BY WriterAlone DEF Step
<1>2. UNCHANGED <<made, main, backup, saved, counter, faults>> /\ pc[w] \notin SavePlaces
  BY DEF Begin, files, world, SavePlaces
<1>3. CASE made
  <2>1. pc'[w] = "lockRead" /\ pos'[w] = 0
    BY <1>1, <1>3 DEF Begin, Goto, Inv, TypeOK
  <2>2. Reads(w)'
    BY <1>2, <1>3, <2>1 DEF Reads, SavePlaces
  <2> QED BY <1>1, <1>2, <2>1, <2>2, SameFiles DEF SavePlaces
<1>4. CASE ~made
  <2>1. pc'[w] = "back" /\ ret'[w] = "new" /\ mem'[w] = Image(0)
    BY <1>1, <1>4 DEF Begin, Goto, Return, Inv, TypeOK
  <2>2. IsRecord(mem[w])' /\ mem'[w][1] = 0
    BY <2>1, SizeAssumption DEF IsRecord, Image, Index
  <2>3. Stored' = Absent
    BY <1>2, <1>4, EmptyFile DEF Inv, Content, Stored, IsRecord
  <2>4. Reads(w)'
    BY <1>1, <1>2, <1>4, <2>1, <2>2, <2>3 DEF Reads, Reading, TypeOK, Absent
  <2> QED BY <1>1, <1>2, <2>1, <2>4, SameFiles DEF SavePlaces
<1> QED BY <1>3, <1>4

\* Nobody holds the file exclusively against the only writer.
LEMMA LockReadStep ==
  ASSUME NEW w, SingleWriter(w), Inv(w), LockRead(w)
  PROVE  Inv(w)' /\ StoreStep
<1>1. TypeOK' /\ Bystanders(w)' /\ w \in Procs
  BY WriterAlone DEF Step
<1>2. ~Conflicts(w, "shared")
  BY DEF Conflicts, Inv, Bystanders
<1>3. UNCHANGED <<made, main, backup, saved, counter, faults>> /\ pc[w] = "lockRead"
      /\ pc'[w] = "read" /\ pos'[w] = pos[w]
  BY <1>1, <1>2 DEF LockRead, Retry, GiveUp, Goto, Inv, TypeOK, world
<1>4. Reads(w)'
  <2>1. made' /\ pos'[w] = 0
    BY <1>3 DEF Inv, Reads, Reading
  <2> QED BY <1>3, <2>1 DEF Reads, ReadFrom, SavePlaces
<1> QED BY <1>1, <1>3, <1>4, SameFiles DEF SavePlaces

\* Reading the file ends with its record, or finds it damaged.
LEMMA ReadMainStep ==
  ASSUME NEW w, SingleWriter(w), Inv(w), ReadMain(w)
  PROVE  Inv(w)' /\ StoreStep
<1>1. TypeOK' /\ Bystanders(w)' /\ w \in Procs
  BY WriterAlone DEF Step
<1>2. UNCHANGED <<made, main, backup, saved, counter, faults>> /\ pc[w] = "read"
  BY DEF ReadMain, world, history
<1>3. /\ made /\ ReadFrom(mem[w], main, pos[w]) /\ Prefix(main)
      /\ TypeOK /\ main \in [Index -> Chunk] /\ counter \in Nat
      /\ mem[w] \in [Index -> Chunk] /\ pos[w] \in 0..Chunks
  BY <1>1, <1>2 DEF Inv, Reads, Reading, Content, TypeOK
<1>4. CASE ReadSome(w, main) /\ UNCHANGED <<lock, pc, ret>>
  <2>1. ReadFrom(mem'[w], main, pos'[w])
    BY <1>1, <1>3, <1>4, ReadMore
  <2>2. Reads(w)'
    BY <1>2, <1>3, <1>4, <2>1 DEF Reads, ReadFrom, SavePlaces
  <2> QED BY <1>1, <1>2, <1>4, <2>2, SameFiles DEF SavePlaces
<1>5. ASSUME pos[w] = Chunks PROVE IsRecord(main) /\ mem[w] = main /\ mem[w][1] \in 0..counter
  <2>1. IsRecord(main) /\ mem[w] = main
    BY <1>3, <1>5, ReadWhole
  <2>2. Stored = main[1] /\ Stored # -1
    BY <2>1 DEF Stored, IsRecord
  <2> QED BY <2>1, <2>2, StoredType DEF Inv
<1>6. CASE pos[w] = Chunks /\ mem[w][1] # Hole /\ Release(w) /\ Goto(w, "back")
           /\ Return(w, "ok") /\ UNCHANGED <<mem, pos>>
  <2>1. pc'[w] = "back" /\ ret'[w] = "ok" /\ mem'[w] = mem[w]
    BY <1>1, <1>6 DEF Goto, Return, Inv, TypeOK
  <2>2. IsRecord(mem[w])' /\ Stored' = main[1]
    BY <1>2, <1>5, <1>6, <2>1 DEF Stored, IsRecord
  <2>3. Reads(w)'
    BY <1>2, <1>3, <1>5, <1>6, <2>1, <2>2 DEF Reads, Reading
  <2> QED BY <1>1, <1>2, <2>1, <2>3, SameFiles DEF SavePlaces
<1>7. CASE /\ \/ pos[w] = Chunks /\ mem[w][1] = Hole
              \/ pos[w] < Chunks /\ AtEOF(main, pos[w])
           /\ Release(w) /\ Goto(w, "readBackup") /\ pos' = [pos EXCEPT ![w] = 0]
  <2>1. ~(pos[w] = Chunks /\ mem[w][1] = Hole)
    BY <1>3, <1>5 DEF Hole
  <2>2. main[Chunks] = Absent
    BY <1>7, <2>1, SizeAssumption DEF AtEOF, Index
  <2>3. ~IsRecord(main)
    BY <1>3, <2>2, RecordIff
  <2>4. faults > 0
    BY <1>2, <1>3, <2>3 DEF Inv, Calm, TypeOK
  <2>5. pc'[w] = "readBackup" /\ pos'[w] = 0
    BY <1>1, <1>7 DEF Goto, Inv, TypeOK
  <2>6. Reads(w)'
    BY <1>2, <1>3, <2>3, <2>4, <2>5 DEF Reads, ReadFrom, SavePlaces, IsRecord
  <2> QED BY <1>1, <1>2, <2>5, <2>6, SameFiles DEF SavePlaces
<1> QED BY <1>4, <1>6, <1>7 DEF ReadMain

\* The backup is only read when the file is damaged.
LEMMA ReadBackupStep ==
  ASSUME NEW w, SingleWriter(w), Inv(w), ReadBackup(w)
  PROVE  Inv(w)' /\ StoreStep
<1>1. TypeOK' /\ Bystanders(w)' /\ w \in Procs
  BY WriterAlone DEF Step
<1>2. UNCHANGED <<made, main, backup, saved, counter, faults>> /\ pc[w] = "readBackup"
  BY DEF ReadBackup, files, world, history
<1>3. /\ made /\ ReadFrom(mem[w], backup, pos[w]) /\ Prefix(backup)
      /\ ~IsRecord(main) /\ faults > 0
      /\ TypeOK /\ backup \in [Index -> Chunk] /\ counter \in Nat
      /\ mem[w] \in [Index -> Chunk] /\ pos[w] \in 0..Chunks
  BY <1>1, <1>2 DEF Inv, Reads, Reading, Content, TypeOK
<1>4. CASE ReadSome(w, backup) /\ UNCHANGED <<pc, ret>>
  <2>1. ReadFrom(mem'[w], backup, pos'[w])
    BY <1>1, <1>3, <1>4, ReadMore
  <2>2. Reads(w)'
    BY <1>2, <1>3, <1>4, <2>1 DEF Reads, ReadFrom, SavePlaces, IsRecord
  <2> QED BY <1>1, <1>2, <1>4, <2>2, SameFiles DEF SavePlaces
<1>5. CASE pos[w] = Chunks /\ mem[w][1] # Hole /\ Goto(w, "back")
           /\ Return(w, "ok") /\ UNCHANGED <<mem, pos>>
  <2>1. IsRecord(backup) /\ mem[w] = backup
    BY <1>3, <1>5, ReadWhole
  <2>2. Stored = mem[w][1] /\ Stored # -1
    BY <1>3, <2>1 DEF Stored, IsRecord
  <2>3. mem[w][1] \in 0..counter
    BY <2>2, StoredType DEF Inv
  <2>4. pc'[w] = "back" /\ ret'[w] = "ok" /\ mem'[w] = mem[w]
    BY <1>1, <1>5 DEF Goto, Return, Inv, TypeOK
  <2>5. IsRecord(mem[w])' /\ Stored' = Stored
    BY <1>2, <2>1, <2>4 DEF Stored, IsRecord
  <2>6. Reads(w)'
    BY <1>2, <1>3, <2>2, <2>3, <2>4, <2>5 DEF Reads, Reading
  <2> QED BY <1>1, <1>2, <2>4, <2>6, SameFiles DEF SavePlaces
<1>6. CASE Goto(w, "idle")
  <2>1. pc'[w] = "idle"
    BY <1>1, <1>6 DEF Goto, Inv, TypeOK
  <2>2. Reads(w)'
    BY <2>1 DEF Reads, Reading, SavePlaces
  <2> QED BY <1>1, <1>2, <2>1, <2>2, SameFiles DEF SavePlaces
<1> QED BY <1>4, <1>5, <1>6 DEF ReadBackup

\* Ways to end that do not touch the files.
LEMMA EndStep ==
  ASSUME NEW w, SingleWriter(w), Inv(w), Leave(w) \/ Crash(w) \/ CopyFails(w), Step(w) \/ Fault(w)
  PROVE  Inv(w)' /\ StoreStep
<1>1. TypeOK' /\ Bystanders(w)' /\ w \in Procs
  BY WriterAlone
<1>2. /\ UNCHANGED <<made, main, backup, saved, counter>>
      /\ \/ faults' = faults /\ pc[w] \notin SavePlaces
         \/ faults' = faults + 1
  BY DEF Leave, Crash, CopyFails, files, world, history, SavePlaces
<1>3. CASE Leave(w) \/ Crash(w)
  <2>1. pc'[w] = "idle"
    BY <1>1, <1>3 DEF Leave, Crash, Goto, Inv, TypeOK
  <2>2. Reads(w)'
    BY <2>1 DEF Reads, Reading, SavePlaces
  <2> QED BY <1>1, <1>2, <2>1, <2>2, SameFiles DEF SavePlaces
<1>4. CASE CopyFails(w)
  <2>1. Stored' = Stored /\ pc[w] \in SavePlaces /\ UNCHANGED <<mem, counter>>
    BY <1>2, <1>4 DEF CopyFails, SavePlaces, Stored, IsRecord
  <2>2. Reads(w)' /\ pc'[w] \notin SavePlaces
    BY <1>1, <1>4, <2>1, Kept DEF CopyFails
  <2> QED BY <1>1, <1>2, <2>2, SameFiles
<1> QED BY <1>3, <1>4

\* Steps inside a save, which keep "data": what remains to look at are the files.
LEMMA InSave ==
  ASSUME NEW w, Inv(w), TypeOK', Bystanders(w)', Content', Saves(w)', Calm(w)',
         pc[w] \in SavePlaces, pc'[w] \in SavePlaces,
         Stored' = Stored, UNCHANGED <<mem, saved, counter, faults>>
  PROVE  Inv(w)' /\ StoreStep
<1>1. IsRecord(mem[w])' <=> IsRecord(mem[w])
  BY DEF IsRecord
<1>2. Reads(w)'
  BY <1>1 DEF Inv, Reads, Reading, SavePlaces
<1>3. LastSaved(w)'
  BY DEF Inv, LastSaved
<1> QED BY <1>2, <1>3, StoreSteps DEF Inv

\* The first step of a save: what it brings into memory is a record at least
\* as recent as what is stored, and emptying the backup costs nothing as long
\* as the file is whole.
LEMMA SaveStep ==
  ASSUME NEW w, SingleWriter(w), Inv(w), Save(w)
  PROVE  Inv(w)' /\ StoreStep
<1>1. TypeOK' /\ Bystanders(w)' /\ w \in Procs
  BY WriterAlone DEF Step
<1>2. UNCHANGED <<made, main, saved, counter, faults>> /\ pc[w] = "back"
      /\ mem'[w] = Updated(w) /\ pos'[w] = 0
  BY <1>1 DEF Save, world, Inv, TypeOK
<1>3. /\ TypeOK /\ counter \in Nat /\ faults \in Nat /\ Content /\ main \in [Index -> Chunk]
      /\ IsRecord(mem[w]) /\ Stored <= mem[w][1] /\ mem[w][1] <= counter
      /\ (ret[w] = "ok" \/ (ret[w] = "new" /\ ~made))
      /\ (faults = 0 /\ made => IsRecord(main))
  BY <1>2 DEF Inv, Reads, Calm, TypeOK
<1>4. IsRecord(Updated(w)) /\ Stored <= Updated(w)[1] /\ Updated(w)[1] <= counter
  <2>1. IsRecord(Image(counter)) /\ Image(counter)[1] = counter
    BY <1>3, SizeAssumption DEF IsRecord, Image, Index
  <2>2. Stored <= counter
    BY <1>3, StoredType
  <2> QED BY <1>3, <2>1, <2>2 DEF Updated
<1>5. IsRecord(mem[w])' /\ mem'[w][1] = Updated(w)[1]
  BY <1>2, <1>4 DEF IsRecord
<1>6. Prefix(Empty)' /\ Prefix(main)' /\ (Prefix(backup) => (UNCHANGED backup => Prefix(backup)'))
  BY <1>2, <1>3, EmptyFile DEF Content, Prefix, Empty, Image
<1>7. CASE NewDb(w)
  <2>1. pc'[w] = "trunc" /\ UNCHANGED backup /\ ~made
    BY <1>1, <1>3, <1>7 DEF Save, NewDb, Goto, TypeOK
  <2>2. main = Empty /\ backup = Empty
    BY <1>3, <2>1 DEF Content
  <2>3. Stored' = Stored
    BY <1>2, <2>1 DEF Stored, IsRecord
  <2>4. Content' /\ Saves(w)' /\ Calm(w)'
    BY <1>2, <1>6, <2>1, <2>2 DEF Content, Saves, Calm
  <2>5. Reads(w)'
    BY <1>2, <1>4, <1>5, <2>1, <2>3 DEF Reads, Reading
  <2>6. LastSaved(w)'
    BY <1>2, <2>1, <2>3 DEF Inv, LastSaved, SavePlaces
  <2> QED BY <1>1, <1>2, <2>3, <2>4, <2>5, <2>6, StoreSteps DEF Inv
<1>8. CASE ~NewDb(w)
  <2>1. pc'[w] = "copy" /\ backup' = Empty /\ made
    BY <1>1, <1>3, <1>8 DEF Save, Goto, TypeOK
  <2>2. Saves(w)' /\ Calm(w)' /\ Content'
    <3>1. \A i \in Index : Empty[i] = Absent /\ ~(i <= 0)
      BY SizeAssumption DEF Empty, Image, Index
    <3>2. Content'
      BY <1>2, <1>6, <2>1 DEF Content
    <3>3. Calm(w)'
      BY <1>2, <1>3, <2>1 DEF Calm, IsRecord
    <3> QED BY <1>2, <2>1, <3>1, <3>2, <3>3 DEF Saves
  <2>3. ~IsRecord(Empty)
    BY EmptyFile
  <2>4. CASE IsRecord(main)
    <3>1. Stored' = Stored
      BY <1>2, <2>4 DEF Stored, IsRecord
    <3>2. Reads(w)'
      BY <1>2, <1>4, <1>5, <2>1, <3>1 DEF Reads, Reading
    <3>3. LastSaved(w)'
      BY <1>2, <2>1, <3>1 DEF Inv, LastSaved, SavePlaces
    <3> QED BY <1>1, <1>2, <2>2, <3>1, <3>2, <3>3, StoreSteps DEF Inv
  <2>5. CASE ~IsRecord(main)
    <3>1. Stored' = -1 /\ faults > 0
      BY <1>2, <1>3, <2>1, <2>3, <2>5 DEF Stored, IsRecord, Absent
    <3>2. mem'[w][1] \in Nat
      BY <1>4, <1>5 DEF IsRecord
    <3>3. Reads(w)'
      BY <1>2, <1>4, <1>5, <2>1, <3>1, <3>2 DEF Reads, Reading
    <3>4. LastSaved(w)'
      BY <1>2, <2>1, <3>1 DEF LastSaved, SavePlaces
    <3> QED BY <1>1, <1>2, <2>2, <3>1, <3>3, <3>4, StoreSteps DEF Inv
  <2> QED BY <2>4, <2>5
<1> QED BY <1>7, <1>8

\* Copying extends the backup by what the file holds.
LEMMA CopyStep ==
  ASSUME NEW w, SingleWriter(w), Inv(w), Copy(w)
  PROVE  Inv(w)' /\ StoreStep
<1>1. TypeOK' /\ Bystanders(w)' /\ w \in Procs
  BY WriterAlone DEF Step
<1>2. UNCHANGED <<made, main, mem, saved, counter, faults>> /\ pc[w] = "copy"
  BY DEF Copy, world, history
<1>3. /\ TypeOK /\ counter \in Nat /\ faults \in Nat /\ Content
      /\ main \in [Index -> Chunk] /\ backup \in [Index -> Chunk] /\ pos[w] \in 0..Chunks
      /\ made /\ (\A i \in Index : backup[i] = IF i <= pos[w] THEN main[i] ELSE Absent)
  BY <1>1, <1>2 DEF Inv, Saves, TypeOK
<1>4. CASE ~AtEOF(main, pos[w]) /\ backup' = [backup EXCEPT ![pos[w] + 1] = Seen(main[pos[w] + 1])]
           /\ pos' = [pos EXCEPT ![w] = @ + 1] /\ UNCHANGED pc
  <2>1. PICK k \in Index : k > pos[w] /\ main[k] # Absent
    BY <1>4 DEF AtEOF
  <2>2. pos[w] + 1 \in Index /\ pos[w] + 1 \in 1..k
    BY <1>3, <2>1, SizeAssumption DEF Index
  <2>3. main[pos[w] + 1] # Absent
    BY <1>3, <2>1, <2>2 DEF Content, Prefix
  <2>4. pos'[w] = pos[w] + 1 /\ pc'[w] = "copy"
    BY <1>1, <1>2, <1>3, <1>4 DEF TypeOK
  <2>5. \A i \in Index : backup'[i] = IF i <= pos'[w] THEN main[i] ELSE Absent
    BY <1>3, <1>4, <2>2, <2>3, <2>4 DEF Seen, Index
  <2>6. Prefix(main)' /\ Prefix(backup)'
    <3>1. Prefix(main)'
      BY <1>2, <1>3 DEF Content, Prefix
    <3>2. \A i \in Index : \A j \in 1..i : j \in Index /\ (i <= pos'[w] => j <= pos'[w])
      BY <1>3, <2>4, SizeAssumption DEF Index
    <3> QED BY <1>2, <2>5, <3>1, <3>2 DEF Prefix
  <2>7. Content' /\ Saves(w)' /\ Calm(w)'
    BY <1>2, <1>3, <2>4, <2>5, <2>6 DEF Inv, Content, Saves, Calm, IsRecord
  <2>8. Stored' = Stored
    <3>1. CASE IsRecord(main)
      BY <1>2, <3>1 DEF Stored, IsRecord
    <3>2. CASE ~IsRecord(main)
      <4>1. main[Chunks] = Absent /\ Chunks \in Index
        BY <1>3, <3>2, RecordIff, SizeAssumption DEF Content, Index
      <4>2. backup[Chunks] = Absent /\ backup'[Chunks] = Absent
        BY <1>3, <2>5, <4>1
      <4>3. ~IsRecord(backup)
        BY <1>3, <4>2, RecordIff DEF Content
      <4>4. ~IsRecord(backup')
        <5>1. 1 \in Index
          BY SizeAssumption DEF Index
        <5>2. IsRecord(backup') => backup'[Chunks] \in Nat
          BY <4>1, <5>1 DEF IsRecord, Image
        <5> QED BY <4>2, <5>2 DEF Absent
      <4> QED BY <1>2, <3>2, <4>3, <4>4 DEF Stored, IsRecord
    <3> QED BY <3>1, <3>2
  <2> QED BY <1>1, <1>2, <2>4, <2>7, <2>8, InSave DEF SavePlaces
<1>5. CASE AtEOF(main, pos[w]) /\ Goto(w, "trunc") /\ UNCHANGED <<backup, pos>>
  <2>1. pc'[w] = "trunc"
    BY <1>1, <1>3, <1>5 DEF Goto, TypeOK
  <2>2. \A i \in Index : backup[i] = main[i]
    BY <1>3, <1>5 DEF AtEOF, Index
  <2>3. backup = main
    BY <1>3, <2>2
  <2>4. Content' /\ Saves(w)' /\ Calm(w)' /\ Stored' = Stored
    BY <1>2, <1>3, <1>5, <2>1, <2>3 DEF Inv, Content, Prefix, Saves, Calm, IsRecord, Stored
  <2> QED BY <1>1, <1>2, <2>1, <2>4, InSave DEF SavePlaces
<1> QED BY <1>4, <1>5 DEF Copy

\* Emptying the file: from here on the backup is what can be read.
LEMMA TruncateStep ==
  ASSUME NEW w, SingleWriter(w), Inv(w), Truncate(w)
  PROVE  Inv(w)' /\ StoreStep
<1>1. TypeOK' /\ Bystanders(w)' /\ w \in Procs
  BY WriterAlone DEF Step
<1>2. UNCHANGED <<backup, mem, saved, counter, faults>> /\ pc[w] = "trunc"
      /\ made' = TRUE /\ main' = Empty /\ pc'[w] = "lockWrite"
  BY <1>1 DEF Truncate, Goto, world, history, Inv, TypeOK
<1>3. backup = main
  BY <1>2 DEF Inv, Saves
<1>4. Stored' = Stored
  BY <1>2, <1>3, EmptyFile DEF Stored, IsRecord
<1>5. Content' /\ Saves(w)' /\ Calm(w)'
  BY <1>2, EmptyFile DEF Inv, Content, Prefix, Saves, Calm, Empty, Image
<1> QED BY <1>1, <1>2, <1>4, <1>5, InSave DEF SavePlaces

\* A lock that is not had leaves the file empty; the backup is still there.
LEMMA LockWriteStep ==
  ASSUME NEW w, SingleWriter(w), Inv(w), LockWrite(w)
  PROVE  Inv(w)' /\ StoreStep
<1>1. TypeOK' /\ Bystanders(w)' /\ w \in Procs
  BY WriterAlone DEF Step
<1>2. UNCHANGED <<made, main, backup, mem, saved, counter>> /\ pc[w] = "lockWrite"
  BY DEF LockWrite, world
<1>3. Stored' = Stored
  BY <1>2 DEF Stored, IsRecord
<1>4. CASE \/ Obtain(w, "excl") /\ Goto(w, "flush") /\ UNCHANGED <<ret, faults>>
           \/ Retry(w, "excl") /\ UNCHANGED <<lock, pc, ret, faults>>
  <2>1. pc'[w] \in {"lockWrite", "flush"} /\ faults' = faults
    BY <1>1, <1>2, <1>4 DEF Goto, Inv, TypeOK
  <2>2. Content' /\ Saves(w)' /\ Calm(w)'
    BY <1>2, <2>1 DEF Inv, Content, Prefix, Saves, Calm
  <2> QED BY <1>1, <1>2, <1>3, <2>1, <2>2, InSave DEF SavePlaces
<1>5. CASE GiveUp(w, "excl") /\ AfterSave(w)
  <2>1. faults' = faults + 1
    BY <1>5 DEF GiveUp
  <2>2. Reads(w)' /\ pc'[w] \notin SavePlaces
    BY <1>1, <1>2, <1>3, <1>5, Kept DEF SavePlaces
  <2> QED BY <1>1, <1>2, <2>1, <2>2, SameFiles
<1> QED BY <1>4, <1>5 DEF LockWrite

\* The record reaches the file in one write.
LEMMA FlushStep ==
  ASSUME NEW w, SingleWriter(w), Inv(w), Flush(w)
  PROVE  Inv(w)' /\ StoreStep
<1>1. TypeOK' /\ Bystanders(w)' /\ w \in Procs
  BY WriterAlone DEF Step
<1>2. UNCHANGED <<made, backup, mem, counter, faults>> /\ pc[w] = "flush" /\ AfterSave(w)
      /\ main' = mem[w] /\ saved' = mem[w][1]
  BY DEF Flush, world
<1>3. pc'[w] \in {"idle", "back"} /\ ret'[w] = "ok"
  BY <1>1, <1>2 DEF AfterSave, Goto, Return, Inv, TypeOK
<1>4. /\ IsRecord(mem[w]) /\ Stored <= mem[w][1] /\ mem[w][1] <= counter /\ made
      /\ mem[w] \in [Index -> Chunk] /\ counter \in Nat
  BY <1>1, <1>2 DEF Inv, Reads, Saves, SavePlaces, TypeOK
<1>5. IsRecord(main)' /\ IsRecord(mem[w])' /\ Stored' = mem[w][1] /\ mem[w][1] \in Nat
  BY <1>2, <1>4 DEF Stored, IsRecord
<1>6. Prefix(mem[w])
  BY <1>4, RecordPrefix
<1>7. Content'
  BY <1>2, <1>4, <1>6 DEF Inv, Content, Prefix
<1>8. Reads(w)'
  BY <1>2, <1>3, <1>4, <1>5 DEF Reads, Reading, SavePlaces
<1>9. Saves(w)' /\ Calm(w)' /\ LastSaved(w)'
  BY <1>2, <1>3, <1>5 DEF Saves, Calm, LastSaved
<1>10. Stored \in Int
  BY <1>4, StoredType DEF Inv
<1> QED BY <1>1, <1>2, <1>4, <1>5, <1>7, <1>8, <1>9, <1>10, StoreSteps DEF Inv

\* What reaches the file of a full disk is not a record; the backup is still
\* there.
LEMMA FlushFailsStep ==
  ASSUME NEW w, SingleWriter(w), Inv(w), FlushFails(w), Fault(w)
  PROVE  Inv(w)' /\ StoreStep
<1>1. TypeOK' /\ Bystanders(w)' /\ w \in Procs
  BY WriterAlone
<1>2. UNCHANGED <<made, backup, mem, counter, saved>> /\ pc[w] = "flush" /\ AfterSave(w)
      /\ faults' = faults + 1
  BY DEF FlushFails, world
<1>3. PICK n \in 0..(Chunks - 1) :
        main' = [i \in Index |-> IF i <= n THEN mem[w][i] ELSE main[i]]
  BY DEF FlushFails
<1>4. /\ IsRecord(mem[w]) /\ mem[w][1] <= counter /\ made /\ main = Empty
      /\ mem[w] \in [Index -> Chunk] /\ counter \in Nat /\ faults \in Nat
  BY <1>1, <1>2 DEF Inv, Reads, Saves, SavePlaces, TypeOK
<1>5. Prefix(mem[w])
  BY <1>4, RecordPrefix
<1>6. \A i \in Index : main'[i] = IF i <= n THEN mem[w][i] ELSE Absent
  BY <1>3, <1>4 DEF Empty, Image
<1>7. Prefix(main)'
  <2>1. \A i \in Index : \A j \in 1..i : j \in Index /\ (i <= n => j <= n)
    BY <1>3, SizeAssumption DEF Index
  <2> QED BY <1>2, <1>5, <1>6, <2>1 DEF Prefix
<1>8. ~IsRecord(main')
  <2>1. main'[Chunks] = Absent /\ Chunks \in Index /\ 1 \in Index
    BY <1>3, <1>6, SizeAssumption DEF Index
  <2>2. IsRecord(main') => main'[Chunks] \in Nat
    BY <2>1 DEF IsRecord, Image
  <2> QED BY <2>1, <2>2 DEF Absent
<1>9. Stored' = Stored
  BY <1>2, <1>4, <1>8, EmptyFile DEF Stored, IsRecord
<1>10. Reads(w)' /\ pc'[w] \notin SavePlaces
  BY <1>1, <1>2, <1>9, Kept DEF SavePlaces
<1>11. Content'
  BY <1>2, <1>4, <1>7 DEF Inv, Content, Prefix
<1>12. Saves(w)' /\ Calm(w)' /\ LastSaved(w)'
  BY <1>2, <1>4, <1>9, <1>10 DEF Inv, Saves, Calm, LastSaved, SavePlaces
<1> QED BY <1>1, <1>2, <1>9, <1>10, <1>11, <1>12, StoreSteps DEF Inv

\* Every step keeps the invariant and is a step of the cell.
LEMMA InvNext ==
  ASSUME NEW w, SingleWriter(w), Inv(w), [Next]_vars
  PROVE  Inv(w)' /\ StoreStep
<1>1. TypeOK' /\ w \in Procs
  BY TypeNext DEF Inv, SingleWriter
<1>2. CASE Traffic \/ UNCHANGED vars
  <2>1. Elsewhere(w) /\ Bystanders(w)'
    BY <1>2 DEF Traffic, vars, files, procs, world, history, Elsewhere, Bystanders, Inv, TypeOK
  <2> QED BY <1>1, <2>1, ElsewhereStep
<1>3. ASSUME NEW p \in Procs \ {w}, Step(p) \/ Fault(p) PROVE Inv(w)' /\ StoreStep
  BY <1>3, ReaderStep
<1>4. CASE Step(w)
  BY <1>4, BeginStep, LockReadStep, ReadMainStep, ReadBackupStep, EndStep, SaveStep, CopyStep,
     TruncateStep, LockWriteStep, FlushStep DEF Step
<1>5. CASE Fault(w)
  BY <1>5, EndStep, FlushFailsStep DEF Fault
<1> QED BY <1>1, <1>2, <1>3, <1>4, <1>5 DEF Next

\* With one writer and any number of readers, whatever goes wrong: the two files
\* together are a cell that a save replaces in one step and only by a newer
\* record, and that is lost only after a fault.
THEOREM StoreAlways ==
  ASSUME NEW w, SingleWriter(w)
  PROVE  Spec => IsStore
<1>1. Init => Inv(w) /\ Register!Init
  BY InvInit
<1>2. Inv(w) /\ [Next]_vars => Inv(w)' /\ StoreStep
  BY InvNext
<1> QED BY <1>1, <1>2, PTL DEF Spec, IsStore, Register!Spec, StoreStep

\* One fault, at any step of any save, costs nothing that was saved before.
THEOREM OneFaultAlways ==
  ASSUME NEW w, SingleWriter(w)
  PROVE  Spec => []OneFault
<1>1. Init => Inv(w)
  BY InvInit
<1>2. Inv(w) /\ [Next]_vars => Inv(w)'
  BY InvNext
<1>3. Inv(w) => OneFault
  BY DEF Inv, LastSaved, OneFault, Saving, SavePlaces, SingleWriter, TypeOK
<1> QED BY <1>1, <1>2, <1>3, PTL DEF Spec

-----------------------------------------------------------------------------
(***************************************************************************)
(* What the readers get.                                                   *)
(***************************************************************************)

\* A whole record not older than the last one saved when process p began.
Recent(r, p) == IsRecord(r) /\ r[1] >= floor[p]

\* What was saved when a read began is not from the future.
Floors ==
  /\ saved \in Nat \cup {Unread}
  /\ \A p \in Procs : floor[p] # Unread =>
       saved # Unread /\ floor[p] \in Nat /\ (faults = 0 => floor[p] <= saved)

\* A save in progress has been counted by every read in progress.
Met(w) == \A p \in Procs : pc[p] \in Reading /\ pc[w] \in SavePlaces => passed[p] >= 1

\* A read takes a file as a whole or not at all, and turns to the backup only in
\* the one save it may meet, when the backup is complete.
Reader(p, w) ==
  /\ ret[p] # "failed"
  /\ pc[p] \in Reading => made
  /\ pc[p] = "lockRead" => pos[p] = 0
  /\ pc[p] \in {"read", "readBackup"} => pos[p] = 0 \/ (pos[p] = Chunks /\ Recent(mem[p], p))
  /\ pc[p] = "readBackup" => passed[p] = 1 /\ pc[w] # "copy" /\ Recent(backup, p)
  /\ pc[p] = "back" /\ ret[p] = "ok" => Recent(mem[p], p)

Counted(p) == floor[p] # Unread /\ passed[p] <= 1

ReadInv(w) ==
  /\ Floors /\ Met(w)
  /\ faults = 0 => /\ ret[w] # "failed"
                   /\ \A p \in Procs \ {w} : Counted(p) => Reader(p, w)

\* What a step leaves of another process.
Same(p) ==
  /\ pc'[p] = pc[p] /\ mem'[p] = mem[p] /\ pos'[p] = pos[p]
  /\ ret'[p] = ret[p] /\ floor'[p] = floor[p]

LEMMA SameAfter ==
  ASSUME TypeOK, NEW q \in Procs, NEW p \in Procs \ {q}, Step(q) \/ Fault(q)
  PROVE  Same(p) /\ (~Save(q) => passed'[p] = passed[p])
<1> USE DEF Same, TypeOK, Goto, Return, files, procs, world, history
<1>1. CASE Begin(q)
  BY <1>1 DEF Begin
<1>2. CASE LockRead(q)
  BY <1>2 DEF LockRead
<1>3. CASE ReadMain(q)
  BY <1>3 DEF ReadMain, ReadSome
<1>4. CASE ReadBackup(q)
  BY <1>4 DEF ReadBackup, ReadSome
<1>5. CASE Leave(q) \/ Copy(q) \/ Truncate(q)
  BY <1>5 DEF Leave, Copy, Truncate
<1>6. CASE Save(q)
  BY <1>6 DEF Save
<1>7. CASE LockWrite(q) \/ Flush(q)
  BY <1>7 DEF LockWrite, Flush, AfterSave
<1>8. CASE Fault(q)
  BY <1>8 DEF Fault, Crash, CopyFails, FlushFails, AfterSave
<1> QED BY <1>1, <1>2, <1>3, <1>4, <1>5, <1>6, <1>7, <1>8 DEF Step

\* A reader changes no file, and no record is saved.
LEMMA ReaderFiles ==
  ASSUME NEW w, SingleWriter(w), Inv(w), NEW p \in Procs \ {w}, Step(p) \/ Fault(p)
  PROVE  /\ UNCHANGED <<made, main, backup, saved>>
         /\ Begin(p) \/ LockRead(p) \/ ReadMain(p) \/ ReadBackup(p) \/ Leave(p) \/ Crash(p)
<1>1. cmd[p] = "query" /\ pc[p] \notin SavePlaces
  BY DEF Inv, Bystanders
<1>2. ~Save(p)
  BY <1>1 DEF Save, Proceeds
<1>3. ~Copy(p) /\ ~Truncate(p) /\ ~LockWrite(p) /\ ~Flush(p) /\ ~CopyFails(p) /\ ~FlushFails(p)
  BY <1>1 DEF Copy, Truncate, LockWrite, Flush, CopyFails, FlushFails, SavePlaces
<1>4. Begin(p) \/ LockRead(p) \/ ReadMain(p) \/ ReadBackup(p) \/ Leave(p) \/ Crash(p)
  BY <1>2, <1>3 DEF Step, Fault
<1> QED BY <1>4 DEF Begin, LockRead, ReadMain, ReadBackup, Leave, Crash, files, world, history

\* Faults are never forgotten, and only a step without one leaves them alone.
LEMMA FaultsGrow ==
  ASSUME TypeOK, NEW p \in Procs, Step(p) \/ Fault(p)
  PROVE  faults' = faults \/ faults' = faults + 1
<1> USE DEF TypeOK, files, world, history
<1>1. CASE Begin(p) \/ ReadMain(p) \/ ReadBackup(p) \/ Leave(p) \/ Save(p) \/ Copy(p)
           \/ Truncate(p) \/ Flush(p)
  BY <1>1 DEF Begin, ReadMain, ReadBackup, Leave, Save, Copy, Truncate, Flush
<1>2. CASE LockRead(p) \/ LockWrite(p)
  BY <1>2 DEF LockRead, LockWrite, GiveUp
<1>3. CASE Fault(p)
  BY <1>3 DEF Fault, Crash, CopyFails, FlushFails
<1> QED BY <1>1, <1>2, <1>3 DEF Step

LEMMA ReadInit == ASSUME NEW w, SingleWriter(w), Init PROVE ReadInv(w)
<1>1. Floors
  BY DEF Init, Floors
<1>2. Met(w)
  BY DEF Init, Met, Reading
<1> QED BY <1>1, <1>2 DEF Init, ReadInv, Counted, SingleWriter

\* What was saved only grows while nothing fails.
LEMMA FloorsNext ==
  ASSUME NEW w, SingleWriter(w), Inv(w), Floors, NEW p \in Procs, Step(p) \/ Fault(p)
  PROVE  Floors'
<1>1. TypeOK /\ TypeOK' /\ w \in Procs /\ faults \in Nat
      /\ (faults' = faults \/ faults' = faults + 1)
  BY TypeStep, FaultsGrow DEF Inv, SingleWriter, TypeOK
<1>2. CASE Flush(p)
  <2>1. p = w
    BY <1>2 DEF Flush, Inv, Bystanders, SavePlaces
  <2>2. pc[w] = "flush" /\ saved' = mem[w][1] /\ UNCHANGED <<floor, faults>>
    BY <1>2, <2>1 DEF Flush, world
  <2>3. saved' \in Nat /\ Stored <= saved'
    BY <2>2 DEF Inv, Reads, SavePlaces, IsRecord
  <2>4. saved # Unread /\ faults = 0 => Stored = saved
    BY DEF Inv, LastSaved
  <2>5. saved' # Unread
    BY <2>3 DEF Unread
  <2>6. ASSUME NEW q \in Procs, floor[q] # Unread, faults = 0 PROVE floor[q] <= saved'
    <3>1. floor[q] \in Nat /\ saved \in Nat /\ floor[q] <= saved /\ Stored = saved
      BY <2>4, <2>6 DEF Floors
    <3> QED BY <2>3, <3>1
  <2> QED BY <2>2, <2>3, <2>5, <2>6 DEF Floors
<1>3. CASE Begin(p)
  <2>1. UNCHANGED <<saved, faults>> /\ floor' = [floor EXCEPT ![p] = saved]
    BY <1>3 DEF Begin
  <2>2. \A q \in Procs : floor'[q] = floor[q] \/ floor'[q] = saved
    BY <1>1, <2>1 DEF TypeOK
  <2> QED BY <2>1, <2>2 DEF Floors
<1>4. CASE ~Flush(p) /\ ~Begin(p)
  <2>1. UNCHANGED <<saved, floor>>
    <3>1. CASE Leave(p) \/ Copy(p) \/ Truncate(p) \/ ReadBackup(p) \/ ReadMain(p)
      BY <3>1 DEF Leave, Copy, Truncate, ReadBackup, ReadMain, history
    <3>2. CASE LockRead(p) \/ LockWrite(p) \/ Save(p)
      BY <3>2 DEF LockRead, LockWrite, Save
    <3>3. CASE Fault(p)
      BY <3>3 DEF Fault, Crash, CopyFails, FlushFails
    <3> QED BY <1>4, <3>1, <3>2, <3>3 DEF Step
  <2> QED BY <1>1, <2>1 DEF Floors
<1> QED BY <1>2, <1>3, <1>4

\* A save counts itself with those who read, and a read counts a save it finds
\* in progress.
LEMMA MetNext ==
  ASSUME NEW w, SingleWriter(w), Inv(w), Met(w), NEW p \in Procs, Step(p) \/ Fault(p)
  PROVE  Met(w)'
<1>1. TypeOK /\ TypeOK' /\ w \in Procs
  BY TypeStep DEF Inv, SingleWriter
<1>2. SUFFICES ASSUME NEW q \in Procs, pc'[q] \in Reading, pc'[w] \in SavePlaces
               PROVE  passed'[q] >= 1
  BY DEF Met, Reading
<1>3. q # w
  BY <1>2 DEF Reading, SavePlaces
<1>4. CASE p = w
  <2>1. pc'[q] = pc[q]
    BY <1>1, <1>3, <1>4, SameAfter DEF Same
  <2>2. CASE Save(w)
    <3>1. passed'[q] = IF pc[q] \in Reading /\ passed[q] < 2 THEN passed[q] + 1 ELSE passed[q]
      BY <2>2 DEF Save
    <3>2. passed[q] \in 0..2 /\ pc[q] \in Reading
      BY <1>1, <1>2, <2>1 DEF TypeOK
    <3> QED BY <3>1, <3>2
  <2>3. CASE ~Save(w)
    <3>1. passed'[q] = passed[q]
      BY <1>1, <1>3, <1>4, <2>3, SameAfter
    <3>2. pc[w] \in SavePlaces
      BY <1>1, <1>2, <1>4, <2>3 DEF TypeOK, Step, Fault, Begin, LockRead, ReadMain, ReadBackup, Leave,
         Copy, Truncate, LockWrite, Flush, Crash, CopyFails, FlushFails, Goto, SavePlaces
    <3> QED BY <1>2, <2>1, <3>1, <3>2 DEF Met
  <2> QED BY <2>2, <2>3
<1>5. CASE p # w
  <2>1. pc[w] \in SavePlaces
    BY <1>1, <1>2, <1>5, SameAfter DEF Same
  <2>2. CASE q # p
    <3>1. ~Save(p)
      BY <1>5 DEF Save, Proceeds, Inv, Bystanders
    <3> QED BY <1>1, <1>2, <2>1, <2>2, <3>1, SameAfter DEF Same, Met
  <2>3. CASE q = p /\ Begin(p)
    <3>1. w \in Saving
      BY <1>1, <2>1 DEF Saving, SavePlaces
    <3> QED BY <1>1, <2>3, <3>1 DEF Begin, TypeOK
  <2>4. CASE q = p /\ ~Begin(p)
    <3>1. LockRead(p) \/ ReadMain(p) \/ ReadBackup(p) \/ Leave(p) \/ Crash(p)
      BY <1>5, <2>4, ReaderFiles
    <3>2. pc[q] \in Reading /\ passed'[q] = passed[q]
      BY <1>1, <1>2, <2>4, <3>1 DEF LockRead, ReadMain, ReadBackup, Leave, Crash, Goto, TypeOK,
         Reading, history
    <3> QED BY <2>1, <3>2 DEF Met
  <2> QED BY <2>2, <2>3, <2>4
<1> QED BY <1>4, <1>5

\* Reading a whole record from its beginning takes all of it at once.
LEMMA ReadsWhole ==
  ASSUME TypeOK, NEW p \in Procs, NEW f \in [Index -> Chunk], IsRecord(f),
         pos[p] = 0, ReadSome(p, f)
  PROVE  mem'[p] = f /\ pos'[p] = Chunks
<1>1. PICK n \in (pos[p] + 1)..Chunks :
        /\ AtEOF(f, n)
        /\ mem' = [mem EXCEPT ![p] =
             [i \in Index |-> IF i \in (pos[p] + 1)..n THEN Seen(f[i]) ELSE mem[p][i]]]
        /\ pos' = [pos EXCEPT ![p] = n]
  BY DEF ReadSome
<1>2. 1 \in Index /\ Chunks \in Index
  BY SizeAssumption DEF Index
<1>3. \A i \in Index : f[i] = f[1] /\ f[i] # Absent
  BY <1>2 DEF IsRecord, Image, Absent
<1>4. n = Chunks
  BY <1>1, <1>2, <1>3, SizeAssumption DEF AtEOF
<1>5. mem'[p] = [i \in Index |-> IF i \in (pos[p] + 1)..n THEN Seen(f[i]) ELSE mem[p][i]]
  BY <1>1 DEF TypeOK
<1>6. \A i \in Index : mem'[p][i] = f[i]
  BY <1>3, <1>4, <1>5 DEF Index, Seen
<1>7. mem'[p] \in [Index -> Chunk]
  BY ReadSomeType DEF TypeOK
<1>8. mem'[p] = f
  BY <1>6, <1>7
<1> QED BY <1>1, <1>4, <1>8 DEF TypeOK

\* Without a fault, what the two files hold is the last saved record.
LEMMA RecentFiles ==
  ASSUME NEW w, SingleWriter(w), Inv(w), Floors, faults = 0, made,
         NEW p \in Procs, floor[p] # Unread
  PROVE  /\ IsRecord(main) => Recent(main, p)
         /\ ~IsRecord(main) => pc[w] \in {"lockWrite", "flush"} /\ Recent(backup, p)
<1>1. saved \in Nat /\ floor[p] \in Nat /\ floor[p] <= saved /\ Stored = saved
  BY DEF Inv, LastSaved, Floors
<1>2. CASE IsRecord(main)
  BY <1>1, <1>2 DEF Stored, Recent
<1>3. CASE ~IsRecord(main)
  <2>1. pc[w] \in {"lockWrite", "flush"}
    BY <1>3 DEF Inv, Calm
  <2>2. IsRecord(backup) /\ backup[1] = saved
    BY <1>1, <1>3 DEF Stored, Absent
  <2> QED BY <1>1, <1>3, <2>1, <2>2 DEF Recent
<1> QED BY <1>2, <1>3

\* A reader's own step.
LEMMA ReaderNext ==
  ASSUME NEW w, SingleWriter(w), Inv(w), Floors, Met(w), NEW p \in Procs \ {w},
         Step(p), faults' = 0, faults = 0, Counted(p)',
         Counted(p) => Reader(p, w)
  PROVE  Reader(p, w)'
<1>1. TypeOK /\ TypeOK' /\ w \in Procs /\ pc'[w] = pc[w]
  BY TypeStep, SameAfter DEF Inv, SingleWriter, Same
<1>2. UNCHANGED <<made, main, backup, saved>>
      /\ (Begin(p) \/ LockRead(p) \/ ReadMain(p) \/ ReadBackup(p) \/ Leave(p) \/ Crash(p))
  BY ReaderFiles
<1>3. main \in [Index -> Chunk] /\ backup \in [Index -> Chunk] /\ pos[p] \in 0..Chunks
      /\ 0 # Chunks
  BY <1>1, SizeAssumption DEF TypeOK
<1>4. CASE Begin(p)
  <2>1. CASE made
    <3>1. pc'[p] = "lockRead" /\ pos'[p] = 0 /\ ret'[p] = "none" /\ made'
      BY <1>1, <1>2, <1>4, <2>1 DEF Begin, Goto, Return, TypeOK
    <3> QED BY <3>1 DEF Reader
  <2>2. CASE ~made
    <3>1. pc'[p] = "back" /\ ret'[p] = "new"
      BY <1>1, <1>4, <2>2 DEF Begin, Goto, Return, TypeOK
    <3> QED BY <3>1 DEF Reader, Reading
  <2> QED BY <2>1, <2>2
<1>5. ASSUME ~Begin(p)
      PROVE  /\ Counted(p) /\ Reader(p, w)
             /\ floor'[p] = floor[p] /\ passed'[p] = passed[p] /\ ~Crash(p)
  <2>1. ~Crash(p)
    BY DEF Crash
  <2>2. UNCHANGED <<floor, passed>>
    BY <1>2, <1>5, <2>1 DEF LockRead, ReadMain, ReadBackup, Leave, history
  <2> QED BY <2>1, <2>2 DEF Counted
<1>6. ASSUME NEW r, NEW s, ~Begin(p), Recent(r, p), s = r PROVE IsRecord(s) /\ s[1] >= floor'[p]
  BY <1>5, <1>6 DEF Recent
<1>7. CASE LockRead(p)
  <2>1. ~Begin(p) /\ pc[p] = "lockRead"
    BY <1>7 DEF LockRead, Begin
  <2>2. ~GiveUp(p, "shared")
    BY DEF GiveUp
  <2>3. pc'[p] \in {"lockRead", "read"} /\ pos'[p] = 0 /\ ret'[p] = ret[p]
    BY <1>1, <1>5, <1>7, <2>1, <2>2 DEF LockRead, Goto, TypeOK, Reader
  <2> QED BY <1>2, <1>5, <2>1, <2>3 DEF Reader, Reading
<1>8. CASE ReadMain(p)
  <2>1. ~Begin(p) /\ pc[p] = "read" /\ made /\ ret[p] # "failed"
        /\ (pos[p] = 0 \/ (pos[p] = Chunks /\ Recent(mem[p], p)))
    BY <1>5, <1>8 DEF ReadMain, Begin, Reader, Reading
  <2>2. CASE ReadSome(p, main) /\ UNCHANGED <<lock, pc, ret>>
    <3>1. pos[p] = 0 /\ \E i \in Index : main[i] # Absent
      BY <1>3, <2>1, <2>2, SizeAssumption DEF ReadSome, Index
    <3>2. main # Empty
      BY <3>1 DEF Empty, Image
    <3>3. Recent(main, p)
      BY <1>1, <1>5, <2>1, <3>2, RecentFiles DEF Inv, Saves, Counted
    <3>4. mem'[p] = main /\ pos'[p] = Chunks
      BY <1>1, <1>3, <2>2, <3>1, <3>3, ReadsWhole DEF Recent
    <3>5. Recent(mem[p], p)'
      BY <1>6, <2>1, <3>3, <3>4 DEF Recent
    <3> QED BY <1>2, <2>1, <2>2, <3>4, <3>5 DEF Reader
  <2>3. CASE pos[p] = Chunks /\ mem[p][1] # Hole /\ Release(p) /\ Goto(p, "back") /\ Return(p, "ok")
             /\ UNCHANGED <<mem, pos>>
    <3>1. pc'[p] = "back" /\ ret'[p] = "ok" /\ mem'[p] = mem[p]
      BY <1>1, <2>3 DEF Goto, Return, TypeOK
    <3>2. Recent(mem[p], p)'
      BY <1>3, <1>6, <2>1, <2>3, <3>1 DEF Recent
    <3> QED BY <3>1, <3>2 DEF Reader, Reading
  <2>4. CASE /\ \/ pos[p] = Chunks /\ mem[p][1] = Hole
                \/ pos[p] < Chunks /\ AtEOF(main, pos[p])
             /\ Release(p) /\ Goto(p, "readBackup")
             /\ pos' = [pos EXCEPT ![p] = 0]
             /\ UNCHANGED <<mem, ret>>
    <3>1. pos[p] = 0 /\ AtEOF(main, 0)
      BY <1>3, <2>1, <2>4 DEF Recent, IsRecord, Hole
    <3>2. ~IsRecord(main)
      BY <3>1, SizeAssumption DEF AtEOF, IsRecord, Index, Absent
    <3>3. pc[w] \in {"lockWrite", "flush"} /\ Recent(backup, p)
      BY <1>5, <2>1, <3>2, RecentFiles DEF Counted
    <3>4. passed[p] = 1
      <4>1. pc[p] \in Reading /\ pc[w] \in SavePlaces
        BY <2>1, <3>3 DEF Reading, SavePlaces
      <4>2. passed[p] >= 1 /\ passed[p] <= 1 /\ passed[p] \in 0..2
        BY <1>1, <1>5, <2>1, <4>1 DEF Met, Counted, TypeOK
      <4> QED BY <4>2
    <3>5. pc'[p] = "readBackup" /\ pos'[p] = 0 /\ ret'[p] = ret[p] /\ made'
      BY <1>1, <1>2, <2>1, <2>4 DEF Goto, TypeOK
    <3>6. Recent(backup, p)'
      BY <1>2, <1>6, <2>1, <3>3 DEF Recent
    <3> QED BY <1>1, <1>5, <2>1, <3>3, <3>4, <3>5, <3>6 DEF Reader
  <2> QED BY <1>8, <2>2, <2>3, <2>4 DEF ReadMain
<1>9. CASE ReadBackup(p)
  <2>1. ~Begin(p) /\ pc[p] = "readBackup" /\ made /\ ret[p] # "failed" /\ Recent(backup, p)
        /\ passed[p] = 1 /\ pc[w] # "copy"
        /\ (pos[p] = 0 \/ (pos[p] = Chunks /\ Recent(mem[p], p)))
    BY <1>5, <1>9 DEF ReadBackup, Begin, Reader, Reading
  <2>2. Recent(backup, p)'
    BY <1>2, <1>6, <2>1 DEF Recent
  <2>3. CASE ReadSome(p, backup) /\ UNCHANGED <<pc, ret>>
    <3>1. pos[p] = 0
      BY <1>3, <2>1, <2>3, SizeAssumption DEF ReadSome
    <3>2. mem'[p] = backup /\ pos'[p] = Chunks
      BY <1>1, <1>3, <2>1, <2>3, <3>1, ReadsWhole DEF Recent
    <3>3. Recent(mem[p], p)'
      BY <1>6, <2>1, <3>2 DEF Recent
    <3> QED BY <1>1, <1>2, <1>5, <2>1, <2>2, <2>3, <3>2, <3>3 DEF Reader
  <2>4. CASE pos[p] = Chunks /\ mem[p][1] # Hole /\ Goto(p, "back") /\ Return(p, "ok")
             /\ UNCHANGED <<mem, pos>>
    <3>1. pc'[p] = "back" /\ ret'[p] = "ok" /\ mem'[p] = mem[p]
      BY <1>1, <2>4 DEF Goto, Return, TypeOK
    <3>2. Recent(mem[p], p)'
      BY <1>3, <1>6, <2>1, <2>4, <3>1 DEF Recent
    <3> QED BY <3>1, <3>2 DEF Reader, Reading
  <2>5. ~(pos[p] = Chunks /\ mem[p][1] = Hole) /\ ~(pos[p] < Chunks /\ AtEOF(backup, pos[p]))
    <3>1. pos[p] = Chunks => mem[p][1] # Hole
      BY <1>3, <2>1 DEF Recent, IsRecord, Hole
    <3>2. pos[p] < Chunks => pos[p] = 0
      BY <1>3, <2>1
    <3>3. ~AtEOF(backup, 0)
      BY <2>1, SizeAssumption DEF AtEOF, Recent, IsRecord, Index, Absent
    <3> QED BY <3>1, <3>2, <3>3
  <2> QED BY <1>9, <2>3, <2>4, <2>5 DEF ReadBackup
<1>10. CASE Leave(p)
  <2>1. ~Begin(p) /\ pc'[p] = "idle" /\ ret'[p] = ret[p]
    BY <1>1, <1>10 DEF Leave, Begin, Goto, TypeOK
  <2> QED BY <1>5, <2>1 DEF Reader, Reading
<1> QED BY <1>2, <1>4, <1>5, <1>7, <1>8, <1>9, <1>10

\* A step that another process makes, when it leaves the backup alone.
LEMMA ReaderKept ==
  ASSUME TypeOK, NEW w, NEW p \in Procs, Reader(p, w), Same(p), passed'[p] = passed[p],
         made => made', UNCHANGED backup, pc'[w] = "copy" => pc[w] = "copy"
  PROVE  Reader(p, w)'
<1>1. ASSUME NEW r, NEW s, Recent(r, p), s = r PROVE IsRecord(s) /\ s[1] >= floor'[p]
  BY <1>1 DEF Recent, Same
<1>2. Recent(mem[p], p) => Recent(mem[p], p)'
  BY <1>1 DEF Recent, Same
<1>3. Recent(backup, p) => Recent(backup, p)'
  BY <1>1 DEF Recent
<1> QED BY <1>2, <1>3 DEF Reader, Same, Reading

\* The writer's steps: a save that starts while the reader takes the backup is
\* its second one, and no other step changes a backup a reader may be reading.
LEMMA WriterSteps ==
  ASSUME NEW w, SingleWriter(w), Inv(w), NEW p \in Procs \ {w}, Step(w),
         Counted(p)', Counted(p) => Reader(p, w)
  PROVE  Reader(p, w)'
<1>1. TypeOK /\ TypeOK' /\ w \in Procs /\ Same(p) /\ (~Save(w) => passed'[p] = passed[p])
  BY TypeStep, SameAfter DEF Inv, SingleWriter
<1>2. CASE Save(w)
  <2>1. passed'[p] = IF pc[p] \in Reading /\ passed[p] < 2 THEN passed[p] + 1 ELSE passed[p]
    BY <1>2 DEF Save
  <2>2. passed[p] \in 0..2 /\ passed'[p] <= 1 /\ floor'[p] = floor[p] /\ floor'[p] # Unread
    BY <1>1 DEF TypeOK, Same, Counted
  <2>3. passed[p] <= 1 /\ (pc[p] \in Reading => passed[p] = 0)
    BY <2>1, <2>2
  <2>4. Reader(p, w)
    BY <2>2, <2>3 DEF Counted
  <2>5. pc[p] # "readBackup"
    BY <2>3, <2>4 DEF Reader, Reading
  <2>6. UNCHANGED made
    BY <1>2 DEF Save
  <2>7. Recent(mem[p], p) => Recent(mem[p], p)'
    BY <1>1 DEF Recent, Same, IsRecord
  <2> QED BY <1>1, <2>4, <2>5, <2>6, <2>7 DEF Reader, Same, Reading
<1>3. CASE Copy(w)
  <2>1. UNCHANGED made /\ pc[w] = "copy" /\ Reader(p, w)
    BY <1>1, <1>3 DEF Copy, Save, Counted, Same
  <2>2. pc[p] # "readBackup"
    BY <2>1 DEF Reader
  <2>3. Recent(mem[p], p) => Recent(mem[p], p)'
    BY <1>1 DEF Recent, Same, IsRecord
  <2> QED BY <1>1, <2>1, <2>2, <2>3 DEF Reader, Same, Reading
<1>4. CASE ~Save(w) /\ ~Copy(w)
  <2>1. Reader(p, w)
    BY <1>1, <1>4 DEF Counted, Same
  <2>2. (made => made') /\ UNCHANGED backup /\ pc'[w] # "copy"
    <3> USE DEF TypeOK, Goto
    <3>1. CASE Begin(w) \/ Leave(w) \/ Truncate(w)
      BY <1>1, <3>1 DEF Begin, Leave, Truncate, files
    <3>2. CASE LockRead(w) \/ ReadMain(w) \/ ReadBackup(w)
      BY <1>1, <3>2 DEF LockRead, ReadMain, ReadBackup, files
    <3>3. CASE LockWrite(w) \/ Flush(w)
      BY <1>1, <3>3 DEF LockWrite, Flush, AfterSave
    <3> QED BY <1>4, <3>1, <3>2, <3>3 DEF Step
  <2> QED BY <1>1, <1>4, <2>1, <2>2, ReaderKept
<1> QED BY <1>2, <1>3, <1>4

\* The writer itself only fails to read after a fault.
LEMMA WriterReads ==
  ASSUME NEW w, SingleWriter(w), Inv(w), Step(w), faults' = 0, faults = 0, ret[w] # "failed"
  PROVE  ret'[w] # "failed"
<1>1. TypeOK /\ w \in Procs
  BY DEF Inv, SingleWriter
<1>2. ~ReadBackup(w)
  BY DEF ReadBackup, Inv, Reads
<1>3. ~GiveUp(w, "shared")
  BY DEF GiveUp
<1> USE <1>1 DEF TypeOK, Return
<1>4. CASE Begin(w) \/ Leave(w) \/ Save(w) \/ Copy(w) \/ Truncate(w)
  BY <1>4 DEF Begin, Leave, Save, Copy, Truncate
<1>5. CASE LockRead(w) \/ ReadMain(w)
  BY <1>3, <1>5 DEF LockRead, ReadMain
<1>6. CASE LockWrite(w) \/ Flush(w)
  BY <1>6 DEF LockWrite, Flush, AfterSave
<1> QED BY <1>2, <1>4, <1>5, <1>6 DEF Step

LEMMA ReadNext ==
  ASSUME NEW w, SingleWriter(w), Inv(w), ReadInv(w), [Next]_vars
  PROVE  ReadInv(w)'
<1>1. TypeOK /\ TypeOK' /\ w \in Procs /\ faults \in Nat
  BY TypeNext DEF Inv, SingleWriter, TypeOK
<1>2. CASE Traffic \/ UNCHANGED vars
  <2>1. UNCHANGED <<files, procs, history>>
    BY <1>2 DEF Traffic, vars
  <2>2. Floors' /\ Met(w)'
    BY <2>1 DEF ReadInv, Floors, Met, Reading, procs, history
  <2>3. \A p \in Procs : Same(p) /\ passed'[p] = passed[p] /\ (Counted(p)' => Counted(p))
    BY <2>1 DEF Same, Counted, procs, history
  <2>4. \A p \in Procs : Reader(p, w) => Reader(p, w)'
    BY <1>1, <2>1, <2>3, ReaderKept DEF files, procs
  <2> QED BY <2>1, <2>2, <2>3, <2>4 DEF ReadInv, procs, history
<1>3. ASSUME NEW q \in Procs, Step(q) \/ Fault(q) PROVE ReadInv(w)'
  <2>1. Floors' /\ Met(w)'
    BY <1>3, FloorsNext, MetNext DEF ReadInv
  <2>2. SUFFICES ASSUME faults' = 0
                 PROVE  /\ ret'[w] # "failed"
                        /\ \A p \in Procs \ {w} : Counted(p)' => Reader(p, w)'
    BY <2>1 DEF ReadInv
  <2>3. faults = 0 /\ Step(q) /\ ret[w] # "failed"
        /\ (\A p \in Procs \ {w} : Counted(p) => Reader(p, w))
    <3>1. faults = 0
      BY <1>1, <1>3, <2>2, FaultsGrow
    <3>2. ~Fault(q)
      BY <1>1, <2>2 DEF Fault, Crash, CopyFails, FlushFails
    <3> QED BY <1>3, <3>1, <3>2 DEF ReadInv
  <2>4. ret'[w] # "failed"
    <3>1. CASE q = w
      BY <2>2, <2>3, <3>1, WriterReads
    <3>2. CASE q # w
      BY <1>1, <2>3, <3>2, SameAfter DEF Same
    <3> QED BY <3>1, <3>2
  <2>5. ASSUME NEW p \in Procs \ {w}, Counted(p)' PROVE Reader(p, w)'
    <3>1. CASE q = w
      BY <2>3, <2>5, <3>1, WriterSteps
    <3>2. CASE q = p
      BY <2>2, <2>3, <2>5, <3>2, ReaderNext DEF ReadInv
    <3>3. CASE q # w /\ q # p
      <4>1. UNCHANGED <<made, backup>> /\ ~Save(q)
        BY <2>3, <3>3, ReaderFiles DEF Save, Proceeds, Inv, Bystanders
      <4>2. Same(p) /\ passed'[p] = passed[p] /\ pc'[w] = pc[w]
        BY <1>1, <2>3, <3>3, <4>1, SameAfter DEF Same
      <4>3. Reader(p, w)
        BY <2>3, <2>5, <4>2 DEF Counted, Same
      <4> QED BY <1>1, <4>1, <4>2, <4>3, ReaderKept
    <3> QED BY <3>1, <3>2, <3>3
  <2> QED BY <2>4, <2>5
<1> QED BY <1>2, <1>3 DEF Next

\* With one writer and any number of readers, and nothing failing: a read that
\* meets at most one save succeeds, with or without locks, with a whole record
\* that is not older than what was saved when it began.
THEOREM ReadGoodAlways ==
  ASSUME NEW w, SingleWriter(w)
  PROVE  Spec => []ReadGood
<1>1. Init => Inv(w) /\ ReadInv(w)
  BY InvInit, ReadInit
<1>2. Inv(w) /\ ReadInv(w) /\ [Next]_vars => (Inv(w) /\ ReadInv(w))'
  BY InvNext, ReadNext
<1>3. Inv(w) /\ ReadInv(w) => ReadGood
  <2>1. SUFFICES ASSUME Inv(w), ReadInv(w), NEW p \in Procs, faults = 0, floor[p] # Unread,
                        passed[p] <= 1
                 PROVE  /\ ret[p] # "failed"
                        /\ pc[p] = "back" /\ ret[p] = "ok" =>
                             IsRecord(mem[p]) /\ mem[p][1] >= floor[p]
    BY DEF ReadGood
  <2>2. CASE p = w
    <3>1. Stored = saved /\ saved \in Nat /\ floor[p] \in Nat /\ floor[p] <= saved
      BY <2>1 DEF Inv, LastSaved, ReadInv, Floors
    <3>2. pc[p] = "back" => IsRecord(mem[p]) /\ Stored <= mem[p][1]
      BY <2>1, <2>2 DEF Inv, Reads
    <3>3. IsRecord(mem[p]) => mem[p][1] \in Nat
      BY DEF IsRecord
    <3> QED BY <2>1, <2>2, <3>1, <3>2, <3>3 DEF ReadInv
  <2>3. CASE p # w
    BY <2>1, <2>3 DEF ReadInv, Counted, Reader, Recent
  <2> QED BY <2>2, <2>3
<1> QED BY <1>1, <1>2, <1>3, PTL DEF Spec

=============================================================================
