------------------------ MODULE MessageHistoryProofs ------------------------
(* Proofs about the message history: mutual exclusion, types, bounded      *)
(* reads, records that do not mix, and acknowledged ones that are kept.    *)
EXTENDS MessageHistory, SequenceTheorems, TLAPS

-----------------------------------------------------------------------------
(* The mutex, and types.                                                   *)

LogBusy == [at : {"wait", "write", "sync", "close"}, file : Files, msg : Msgs, k : 0..Pieces]
LoadBusy ==
    [at : {"wait", "read", "done"}, chat : Chats, limit : Limits, pos : Nat,
     tail : Seq(Line), seen : Seq(Line)]

\* What a call under way holds.
LEMMA BusyCalls ==
    ASSUME TypeOK
    PROVE  /\ \A w \in Writers : log[w] = NoLog \/ log[w] \in LogBusy
           /\ \A w \in Writers : log[w].at # "idle" => log[w] \in LogBusy
           /\ \A r \in Readers : load[r] = NoLoad \/ load[r] \in LoadBusy
           /\ \A r \in Readers : load[r].at # "idle" => load[r] \in LoadBusy
           /\ NoLog.at = "idle" /\ NoLoad.at = "idle"
BY DEF TypeOK, LogBusy, LoadBusy, NoLog, NoLoad

LEMMA TypesAgain ==
    TypeOK <=>
    /\ file \in [Files -> Seq(Piece)]
    /\ synced \in [Files -> Nat]
    /\ holder \in Writers \cup Readers \cup {None}
    /\ log \in [Writers -> {NoLog} \cup LogBusy]
    /\ load \in [Readers -> {NoLoad} \cup LoadBusy]
    /\ chatOf \in [Msgs -> Chats \cup {None}]
    /\ acked \in [Files -> Seq(Msgs)]
    /\ durable \in BOOLEAN /\ cut \in BOOLEAN
    /\ faults \in 0..MaxFaults
BY DEF TypeOK, LogBusy, LoadBusy

LEMMA InitHistory == Init => HistoryInv
<1> SUFFICES ASSUME Init PROVE HistoryInv
  OBVIOUS
<1>1. /\ \A w \in Writers : log[w].at = "idle" /\ holder # w
      /\ \A r \in Readers : load[r].at = "idle" /\ holder # r
  BY HistoryAssumption DEF Init, NoLog, NoLoad
<1>2. \A f \in Files : file[f] = <<>> /\ synced[f] = 0 /\ Len(file[f]) = 0
  BY DEF Init
<1>3. /\ file \in [Files -> Seq(Piece)] /\ synced \in [Files -> Nat]
      /\ acked \in [Files -> Seq(Msgs)] /\ 0 \in 0..MaxFaults
  BY HistoryAssumption, EmptySeq DEF Init
<1>4. TypeOK
  BY <1>3 DEF Init, TypesAgain, TypeOK
<1> QED BY <1>1, <1>2, <1>4 DEF HistoryInv, LockHeld

\* A step of the log calls of w that only moves log[w] and the holder.
LEMMA LogMoves ==
    ASSUME HistoryInv, NEW w \in Writers, NEW e \in {NoLog} \cup LogBusy,
           log' = [log EXCEPT ![w] = e], UNCHANGED load,
           \/ holder = w /\ e.at \in {"write", "sync", "close"} /\ UNCHANGED holder
           \/ holder = None /\ e.at \in {"write", "sync", "close"} /\ holder' = w
           \/ holder = w /\ e.at \in {"idle", "wait"} /\ holder' = None
           \/ holder # w /\ e.at \in {"idle", "wait"} /\ UNCHANGED holder
    PROVE  /\ LockHeld'
           /\ log' \in [Writers -> {NoLog} \cup LogBusy]
           /\ holder' \in Writers \cup Readers \cup {None}
<1>1. /\ log \in [Writers -> {NoLog} \cup LogBusy]
      /\ holder \in Writers \cup Readers \cup {None}
  BY TypesAgain DEF HistoryInv
<1>2. \A v \in Writers : log'[v] = IF v = w THEN e ELSE log[v]
  BY <1>1
<1>3. w # None /\ w \notin Readers /\ \A r \in Readers : r # None
  BY HistoryAssumption
<1>4. \A v \in Writers : holder' = v <=> log'[v].at \in {"write", "sync", "close"}
  BY <1>1, <1>2, <1>3, HistoryAssumption DEF HistoryInv, LockHeld
<1>5. \A r \in Readers : holder' = r <=> load'[r].at = "read"
  BY <1>3 DEF HistoryInv, LockHeld
<1>6. log' \in [Writers -> {NoLog} \cup LogBusy]
  BY <1>1
<1>7. holder' \in Writers \cup Readers \cup {None}
  BY <1>1
<1> QED BY <1>4, <1>5, <1>6, <1>7 DEF LockHeld

\* The same of the load calls of r.
LEMMA LoadMoves ==
    ASSUME HistoryInv, NEW r \in Readers, NEW e \in {NoLoad} \cup LoadBusy,
           load' = [load EXCEPT ![r] = e], UNCHANGED log,
           \/ holder = r /\ e.at = "read" /\ UNCHANGED holder
           \/ holder = None /\ e.at = "read" /\ holder' = r
           \/ holder = r /\ e.at # "read" /\ holder' = None
           \/ holder # r /\ e.at # "read" /\ UNCHANGED holder
    PROVE  /\ LockHeld'
           /\ load' \in [Readers -> {NoLoad} \cup LoadBusy]
           /\ holder' \in Writers \cup Readers \cup {None}
<1>1. /\ load \in [Readers -> {NoLoad} \cup LoadBusy]
      /\ holder \in Writers \cup Readers \cup {None}
  BY TypesAgain DEF HistoryInv
<1>2. \A q \in Readers : load'[q] = IF q = r THEN e ELSE load[q]
  BY <1>1
<1>3. r # None /\ r \notin Writers /\ \A w \in Writers : w # None
  BY HistoryAssumption
<1>4. \A q \in Readers : holder' = q <=> load'[q].at = "read"
  BY <1>1, <1>2, <1>3, HistoryAssumption DEF HistoryInv, LockHeld
<1>5. \A w \in Writers : holder' = w <=> log'[w].at \in {"write", "sync", "close"}
  BY <1>3 DEF HistoryInv, LockHeld
<1>6. load' \in [Readers -> {NoLoad} \cup LoadBusy]
  BY <1>1
<1>7. holder' \in Writers \cup Readers \cup {None}
  BY <1>1
<1> QED BY <1>4, <1>5, <1>6, <1>7 DEF LockHeld

Bounded == \A f \in Files : synced[f] <= Len(file[f])

LEMMA FileOfFiles == \A c \in Chats : FileOf(c) \in Files
BY DEF Files

\* The entry an EXCEPT makes of a busy call.
LEMMA LogEntries ==
    ASSUME NEW e \in LogBusy
    PROVE  /\ \A a \in {"wait", "write", "sync", "close"} :
                /\ [e EXCEPT !.at = a] \in LogBusy
                /\ [e EXCEPT !.at = a].at = a
                /\ [e EXCEPT !.at = a].k = e.k
                /\ [e EXCEPT !.at = a].file = e.file
                /\ [e EXCEPT !.at = a].msg = e.msg
           /\ e.file \in Files /\ e.msg \in Msgs /\ e.k \in 0..Pieces
BY DEF LogBusy

\* What is left to show of a step that keeps everything but the calls.
LEMMA HistoryBy ==
    ASSUME HistoryInv, LockHeld',
           log' \in [Writers -> {NoLog} \cup LogBusy],
           load' \in [Readers -> {NoLoad} \cup LoadBusy],
           holder' \in Writers \cup Readers \cup {None},
           file' \in [Files -> Seq(Piece)], synced' \in [Files -> Nat], Bounded',
           chatOf' \in [Msgs -> Chats \cup {None}], acked' \in [Files -> Seq(Msgs)],
           cut' \in BOOLEAN, faults' \in 0..MaxFaults, UNCHANGED durable
    PROVE  HistoryInv'
<1>1. durable' \in BOOLEAN
  BY TypesAgain DEF HistoryInv
<1>2. TypeOK'
  BY <1>1, HistoryAssumption DEF TypeOK, LogBusy, LoadBusy
<1> QED BY <1>2 DEF HistoryInv, Bounded

LEMMA HistoryTypes ==
    ASSUME HistoryInv
    PROVE  /\ log \in [Writers -> {NoLog} \cup LogBusy]
           /\ load \in [Readers -> {NoLoad} \cup LoadBusy]
           /\ holder \in Writers \cup Readers \cup {None}
           /\ file \in [Files -> Seq(Piece)] /\ synced \in [Files -> Nat] /\ Bounded
           /\ chatOf \in [Msgs -> Chats \cup {None}] /\ acked \in [Files -> Seq(Msgs)]
           /\ cut \in BOOLEAN /\ faults \in 0..MaxFaults /\ durable \in BOOLEAN
           /\ LockHeld
BY TypesAgain DEF HistoryInv, Bounded

LEMMA LogHistory ==
    ASSUME HistoryInv, NEW w \in Writers, NEW c \in Chats, NEW m \in Msgs, Log(w, c, m)
    PROVE  HistoryInv'
<1> DEFINE e == [at |-> "wait", file |-> FileOf(c), msg |-> m, k |-> 0]
<1>1. e \in LogBusy /\ e.at = "wait"
  BY FileOfFiles DEF LogBusy, Pieces
<1>2. log' = [log EXCEPT ![w] = e] /\ log[w].at = "idle" /\ UNCHANGED <<load, holder>>
  BY DEF Log
<1>3. holder # w
  BY <1>2 DEF HistoryInv, LockHeld
<1> HIDE DEF e
<1>4. /\ LockHeld' /\ log' \in [Writers -> {NoLog} \cup LogBusy]
      /\ holder' \in Writers \cup Readers \cup {None}
  BY <1>1, <1>2, <1>3, LogMoves
<1>5. chatOf' \in [Msgs -> Chats \cup {None}]
  BY HistoryTypes DEF Log
<1> QED BY <1>2, <1>4, <1>5, HistoryTypes, HistoryBy DEF Log, fileVars, Bounded

LEMMA LockForLogHistory ==
    ASSUME HistoryInv, NEW w \in Writers, LockForLog(w)
    PROVE  HistoryInv'
<1> DEFINE e == [log[w] EXCEPT !.at = "write"]
<1>1. log[w] \in LogBusy
  BY BusyCalls DEF LockForLog, HistoryInv
<1>2. e \in LogBusy /\ e.at = "write"
  BY <1>1, LogEntries
<1>3. log' = [log EXCEPT ![w] = e] /\ holder = None /\ holder' = w /\ UNCHANGED load
  BY DEF LockForLog, LockFree
<1> HIDE DEF e
<1>4. /\ LockHeld' /\ log' \in [Writers -> {NoLog} \cup LogBusy]
      /\ holder' \in Writers \cup Readers \cup {None}
  BY <1>2, <1>3, LogMoves
<1> QED BY <1>3, <1>4, HistoryTypes, HistoryBy DEF LockForLog, fileVars, Bounded

\* The pieces one write call appends.
LEMMA PayloadPart ==
    ASSUME NEW m \in Msgs, NEW i \in 0..Pieces, NEW k \in i + 1..Pieces
    PROVE  /\ SubSeq(Payload(m), i + 1, k) \in Seq(Piece)
           /\ Len(SubSeq(Payload(m), i + 1, k)) = k - i
           /\ \A j \in 1..k - i :
                SubSeq(Payload(m), i + 1, k)[j] = [msg |-> m, k |-> i + j]
<1>1. Payload(m) \in Seq(Piece) /\ Len(Payload(m)) = 2
      /\ \A j \in 1..2 : Payload(m)[j] = [msg |-> m, k |-> j]
  BY DEF Payload, Piece, Pieces
<1>2. i \in Int /\ k \in Int /\ i >= 0 /\ i + 1 <= k /\ k <= 2
  BY DEF Pieces
<1>3. \A j \in i + 1..k : Payload(m)[j] \in Piece
  <2>1. \A j \in i + 1..k : j \in 1..2
    BY <1>2
  <2>2. \A j \in 1..2 : Payload(m)[j] \in Piece
    BY <1>1 DEF Piece, Pieces
  <2> QED BY <2>1, <2>2
<1> DEFINE q == SubSeq(Payload(m), i + 1, k)
<1>4. /\ q \in Seq(Piece) /\ Len(q) = k - i
      /\ \A j \in 1..k - (i + 1) + 1 : q[j] = Payload(m)[i + 1 + j - 1]
  <2>1. i + 1 \in Int /\ k - (i + 1) + 1 = k - i
    BY <1>2
  <2> QED BY <1>2, <1>3, <2>1, SubSeqProperties
<1>5. \A j \in 1..k - i : j \in 1..k - (i + 1) + 1 /\ i + 1 + j - 1 = i + j /\ i + j \in 1..2
  BY <1>2
<1> HIDE DEF q
<1>6. \A j \in 1..k - i : q[j] = [msg |-> m, k |-> i + j]
  BY <1>1, <1>4, <1>5
<1> QED BY <1>4, <1>6 DEF q

LEMMA Longer ==
    ASSUME NEW c \in Seq(Piece), NEW p \in Seq(Piece)
    PROVE  /\ c \o p \in Seq(Piece)
           /\ Len(c \o p) = Len(c) + Len(p)
           /\ \A i \in 1..Len(c) : (c \o p)[i] = c[i]
           /\ \A i \in 1..Len(p) : (c \o p)[Len(c) + i] = p[i]
OBVIOUS

\* What WriteSome does to the file it writes and to no other.
LEMMA WriteSomeEffect ==
    ASSUME HistoryInv, NEW w \in Writers, WriteSome(w)
    PROVE  \E k \in log[w].k + 1..Pieces :
             LET f == log[w].file
                 part == SubSeq(Payload(log[w].msg), log[w].k + 1, k)
             IN  /\ log[w] \in LogBusy /\ holder = w
                 /\ file' = [file EXCEPT ![f] = file[f] \o part]
                 /\ file' \in [Files -> Seq(Piece)]
                 /\ part \in Seq(Piece) /\ Len(part) = k - log[w].k
                 /\ \A j \in 1..k - log[w].k : part[j] = [msg |-> log[w].msg, k |-> log[w].k + j]
                 /\ log' = [log EXCEPT ![w] = [log[w] EXCEPT
                              !.k = k, !.at = IF k = Pieces THEN "sync" ELSE "write"]]
<1>1. log[w] \in LogBusy /\ holder = w
  BY BusyCalls DEF WriteSome, HistoryInv, LockHeld
<1>2. log[w].file \in Files /\ log[w].msg \in Msgs /\ log[w].k \in 0..Pieces
  BY <1>1, LogEntries
<1>3. file \in [Files -> Seq(Piece)]
  BY HistoryTypes
<1>4. PICK k \in log[w].k + 1..Pieces :
        /\ file' = [file EXCEPT ![log[w].file] =
                      @ \o SubSeq(Payload(log[w].msg), log[w].k + 1, k)]
        /\ log' = [log EXCEPT ![w].k = k, ![w].at = IF k = Pieces THEN "sync" ELSE "write"]
  BY DEF WriteSome
<1> DEFINE part == SubSeq(Payload(log[w].msg), log[w].k + 1, k)
<1>5. /\ part \in Seq(Piece) /\ Len(part) = k - log[w].k
      /\ \A j \in 1..k - log[w].k : part[j] = [msg |-> log[w].msg, k |-> log[w].k + j]
  BY <1>2, PayloadPart
<1>6. log' = [log EXCEPT ![w] = [log[w] EXCEPT
                !.k = k, !.at = IF k = Pieces THEN "sync" ELSE "write"]]
  BY <1>4
<1>7. file' = [file EXCEPT ![log[w].file] = file[log[w].file] \o part]
  BY <1>4
<1> HIDE DEF part
<1>8. file' \in [Files -> Seq(Piece)]
  BY <1>2, <1>3, <1>5, <1>7, Longer
<1> QED BY <1>1, <1>5, <1>6, <1>7, <1>8 DEF part

LEMMA WriteSomeHistory ==
    ASSUME HistoryInv, NEW w \in Writers, WriteSome(w)
    PROVE  HistoryInv'
<1>1. log[w] \in LogBusy /\ holder = w
  BY BusyCalls DEF WriteSome, HistoryInv, LockHeld
<1>2. log[w].file \in Files /\ log[w].k \in 0..Pieces
  BY <1>1, LogEntries
<1>3. PICK k \in log[w].k + 1..Pieces :
        LET part == SubSeq(Payload(log[w].msg), log[w].k + 1, k)
        IN  /\ file' = [file EXCEPT ![log[w].file] = file[log[w].file] \o part]
            /\ file' \in [Files -> Seq(Piece)]
            /\ part \in Seq(Piece)
            /\ log' = [log EXCEPT ![w] = [log[w] EXCEPT
                         !.k = k, !.at = IF k = Pieces THEN "sync" ELSE "write"]]
  BY WriteSomeEffect
<1> DEFINE part == SubSeq(Payload(log[w].msg), log[w].k + 1, k)
           at == IF k = Pieces THEN "sync" ELSE "write"
           e == [log[w] EXCEPT !.k = k, !.at = at]
<1>4. k \in 0..Pieces /\ at \in {"sync", "write"}
  BY <1>2 DEF Pieces
<1>6. log' = [log EXCEPT ![w] = e] /\ UNCHANGED <<load, holder>>
  BY <1>3 DEF WriteSome
<1> HIDE DEF at
<1>5. e \in LogBusy /\ e.at = at
  BY <1>1, <1>4 DEF LogBusy
<1>8. /\ part \in Seq(Piece) /\ file' \in [Files -> Seq(Piece)]
      /\ file' = [file EXCEPT ![log[w].file] = file[log[w].file] \o part]
  BY <1>3
<1> HIDE DEF e, part
<1>7. /\ LockHeld' /\ log' \in [Writers -> {NoLog} \cup LogBusy]
      /\ holder' \in Writers \cup Readers \cup {None}
  BY <1>1, <1>4, <1>5, <1>6, LogMoves
<1>9. ASSUME NEW g \in Files PROVE Len(file[g]) <= Len(file'[g]) /\ Len(file[g]) \in Nat
  <2>1. file[g] \in Seq(Piece)
    BY HistoryTypes
  <2>2. file'[g] = file[g] \/ file'[g] = file[g] \o part
    BY <1>2, <1>8, HistoryTypes
  <2>3. Len(file[g]) \in Nat /\ Len(part) \in Nat
    BY <1>8, <2>1, LenProperties
  <2>4. Len(file[g] \o part) = Len(file[g]) + Len(part)
    BY <1>8, <2>1, Longer
  <2> HIDE DEF Piece
  <2>5. CASE file'[g] = file[g]
    BY <2>3, <2>5
  <2>6. CASE file'[g] = file[g] \o part
    BY <2>3, <2>4, <2>6
  <2> QED BY <2>2, <2>5, <2>6
<1>10. Bounded'
  <2>1. ASSUME NEW g \in Files PROVE synced'[g] <= Len(file'[g])
    <3>1. synced'[g] = synced[g] /\ synced[g] <= Len(file[g]) /\ synced[g] \in Nat
      BY HistoryTypes DEF WriteSome, Bounded
    <3>2. Len(file'[g]) \in Nat
      BY <1>8
    <3> QED BY <1>9, <3>1, <3>2
  <2> QED BY <2>1 DEF Bounded
<1> QED BY <1>6, <1>7, <1>8, <1>10, HistoryTypes, HistoryBy DEF WriteSome

LEMMA SyncHistory ==
    ASSUME HistoryInv, NEW w \in Writers, Sync(w)
    PROVE  HistoryInv'
<1> DEFINE e == [log[w] EXCEPT !.at = "close"]
<1>1. log[w] \in LogBusy /\ holder = w
  BY BusyCalls DEF Sync, HistoryInv, LockHeld
<1>2. e \in LogBusy /\ e.at = "close" /\ log[w].file \in Files
  BY <1>1, LogEntries
<1>3. log' = [log EXCEPT ![w] = e] /\ UNCHANGED <<holder, load, file>>
  BY DEF Sync
<1> HIDE DEF e
<1>4. /\ LockHeld' /\ log' \in [Writers -> {NoLog} \cup LogBusy]
      /\ holder' \in Writers \cup Readers \cup {None}
  BY <1>1, <1>2, <1>3, LogMoves
<1>5. synced' \in [Files -> Nat] /\ Bounded'
  <2>1. synced' = synced \/ synced' = [synced EXCEPT ![log[w].file] = Len(file[log[w].file])]
    BY DEF Sync, Synced
  <2>2. \A g \in Files : Len(file[g]) \in Nat /\ Len(file[g]) <= Len(file[g])
    BY HistoryTypes
  <2>3. log[w].file \in Files /\ synced \in [Files -> Nat] /\ Bounded
    BY <1>2, HistoryTypes
  <2>4. synced' \in [Files -> Nat]
    BY <2>1, <2>2, <2>3
  <2>5. \A g \in Files : synced'[g] = synced[g] \/ synced'[g] = Len(file[g])
    BY <2>1, <2>3
  <2>6. Bounded'
    BY <1>3, <2>2, <2>3, <2>5 DEF Bounded
  <2> QED BY <2>4, <2>6
<1> QED BY <1>3, <1>4, <1>5, HistoryTypes, HistoryBy DEF Sync

LEMMA CloseHistory ==
    ASSUME HistoryInv, NEW w \in Writers, Close(w)
    PROVE  HistoryInv'
<1>1. log[w] \in LogBusy /\ holder = w
  BY BusyCalls DEF Close, HistoryInv, LockHeld
<1>2. log[w].file \in Files /\ log[w].msg \in Msgs
  BY <1>1, LogEntries
<1>3. log' = [log EXCEPT ![w] = NoLog] /\ holder' = None /\ UNCHANGED load /\ NoLog.at = "idle"
  BY DEF Close, NoLog
<1>4. /\ LockHeld' /\ log' \in [Writers -> {NoLog} \cup LogBusy]
      /\ holder' \in Writers \cup Readers \cup {None}
  BY <1>1, <1>3, LogMoves
<1>5. acked' \in [Files -> Seq(Msgs)]
  BY <1>2, HistoryTypes DEF Close
<1> QED BY <1>3, <1>4, <1>5, HistoryTypes, HistoryBy DEF Close, fileVars, Bounded

LEMMA FailHistory ==
    ASSUME HistoryInv, NEW w \in Writers, Fail(w)
    PROVE  HistoryInv'
<1>1. holder = w
  BY DEF Fail, HistoryInv, LockHeld
<1>2. log' = [log EXCEPT ![w] = NoLog] /\ holder' = None /\ UNCHANGED load /\ NoLog.at = "idle"
  BY DEF Fail, NoLog
<1>3. /\ LockHeld' /\ log' \in [Writers -> {NoLog} \cup LogBusy]
      /\ holder' \in Writers \cup Readers \cup {None}
  BY <1>1, <1>2, LogMoves
<1>4. faults' \in 0..MaxFaults
  BY HistoryTypes, HistoryAssumption DEF Fail, Fault
<1> QED BY <1>2, <1>3, <1>4, HistoryTypes, HistoryBy DEF Fail, fileVars, Bounded

\* A step of the load calls of r changes nothing but them and the holder.
LEMMA LoadKeeps ==
    ASSUME NEW r \in Readers,
           (\E c \in Chats, l \in Limits : Load(r, c, l)) \/ LoadStep(r)
    PROVE  UNCHANGED <<file, synced, log, chatOf, acked, durable, cut, faults>>
BY DEF Load, LoadStep, LockForLoad, ReadLine, ReadEnd, LoadReturns, fileVars

\* The entry of r after the step, and what it means for the mutex.
LEMMA LoadHistory ==
    ASSUME HistoryInv, NEW r \in Readers, NEW c \in Chats, NEW l \in Limits, Load(r, c, l)
    PROVE  HistoryInv'
<1> DEFINE none == <<>>
           e == [at |-> "wait", chat |-> c, limit |-> l, pos |-> 0, tail |-> none, seen |-> none]
<1>1. e \in LoadBusy /\ e.at = "wait"
  <2>1. none \in Seq(Line)
    BY EmptySeq
  <2> HIDE DEF none
  <2> QED BY <2>1 DEF LoadBusy
<1>2. load' = [load EXCEPT ![r] = e] /\ load[r].at = "idle" /\ UNCHANGED <<log, holder>>
  BY DEF Load
<1>3. holder # r
  BY <1>2 DEF HistoryInv, LockHeld
<1> HIDE DEF e
<1>4. /\ LockHeld' /\ load' \in [Readers -> {NoLoad} \cup LoadBusy]
      /\ holder' \in Writers \cup Readers \cup {None}
  BY <1>1, <1>2, <1>3, LoadMoves
<1>5. UNCHANGED <<file, synced, log, chatOf, acked, durable, cut, faults>>
  BY LoadKeeps
<1> QED BY <1>4, <1>5, HistoryTypes, HistoryBy DEF Bounded

LEMMA LockForLoadHistory ==
    ASSUME HistoryInv, NEW r \in Readers, LockForLoad(r)
    PROVE  HistoryInv'
<1> DEFINE e == [load[r] EXCEPT !.at = "read"]
<1>1. load[r] \in LoadBusy
  BY BusyCalls DEF LockForLoad, HistoryInv
<1>2. e \in LoadBusy /\ e.at = "read"
  BY <1>1 DEF LoadBusy
<1>3. load' = [load EXCEPT ![r] = e] /\ holder = None /\ holder' = r /\ UNCHANGED log
  BY DEF LockForLoad, LockFree
<1> HIDE DEF e
<1>4. /\ LockHeld' /\ load' \in [Readers -> {NoLoad} \cup LoadBusy]
      /\ holder' \in Writers \cup Readers \cup {None}
  BY <1>2, <1>3, LoadMoves
<1>5. UNCHANGED <<file, synced, log, chatOf, acked, durable, cut, faults>>
  BY LoadKeeps DEF LoadStep
<1> QED BY <1>4, <1>5, HistoryTypes, HistoryBy DEF Bounded

\* The deque after one more line, of a call that may be at its limit.
LEMMA PushType ==
    ASSUME NEW tail \in Seq(Line), NEW line \in Line, NEW limit \in Nat
    PROVE  TailPush(tail, line, limit) \in Seq(Line)
<1>1. Append(tail, line) \in Seq(Line) /\ Append(tail, line) # <<>>
  <2>1. /\ Append(tail, line) \in Seq(Line)
        /\ Len(Append(tail, line)) = Len(tail) + 1 /\ Len(tail) \in Nat
    BY AppendProperties
  <2>2. Len(<<>>) = 0
    OBVIOUS
  <2> QED BY <2>1, <2>2
<1>2. Tail(Append(tail, line)) \in Seq(Line)
  BY <1>1, HeadTailProperties
<1> QED BY <1>1, <1>2 DEF TailPush

LEMMA ReadLineEffect ==
    ASSUME HistoryInv, NEW r \in Readers, ReadLine(r)
    PROVE  /\ load[r] \in LoadBusy /\ load[r].at = "read"
           /\ \E line \in Line, e \in LoadBusy :
                /\ load' = [load EXCEPT ![r] = e]
                /\ e.at = "read" /\ e.chat = load[r].chat /\ e.limit = load[r].limit
                /\ e.tail = TailPush(load[r].tail, line, load[r].limit)
                /\ e.seen = Append(load[r].seen, line)
<1>1. load[r] \in LoadBusy /\ load[r].at = "read"
  BY BusyCalls DEF ReadLine, HistoryInv
<1> DEFINE content == file[FileOf(load[r].chat)]
<1>2. content \in Seq(Piece) /\ load[r].pos \in Nat
  BY <1>1, FileOfFiles, HistoryTypes DEF LoadBusy
<1>3. PICK e \in load[r].pos + 1..Len(content) :
        load' = [load EXCEPT ![r].pos = e,
                   ![r].tail = TailPush(@, SubSeq(content, load[r].pos + 1, e), load[r].limit),
                   ![r].seen = Append(@, SubSeq(content, load[r].pos + 1, e))]
  BY DEF ReadLine
<1> DEFINE line == SubSeq(content, load[r].pos + 1, e)
<1>4. line \in Line /\ e \in Nat
  <2>1. \A i \in load[r].pos + 1..e : content[i] \in Piece
    BY <1>2
  <2>2. load[r].pos + 1 \in Int /\ e \in Int /\ e \in Nat
    BY <1>2
  <2> HIDE DEF content
  <2>3. line \in Seq(Piece)
    BY <2>1, <2>2, SubSeqProperties
  <2> QED BY <2>2, <2>3 DEF Line
<1> DEFINE tail == TailPush(load[r].tail, line, load[r].limit)
           seen == Append(load[r].seen, line)
           d == [load[r] EXCEPT !.pos = e, !.tail = tail, !.seen = seen]
<1>5. load' = [load EXCEPT ![r] = d]
  BY <1>1, <1>3 DEF LoadBusy
<1>6. /\ load[r].limit \in Nat /\ load[r].tail \in Seq(Line) /\ load[r].seen \in Seq(Line)
  BY <1>1, HistoryAssumption DEF LoadBusy
<1> HIDE DEF line
<1>7. tail \in Seq(Line)
  BY <1>4, <1>6, PushType
<1>8. seen \in Seq(Line)
  BY <1>4, <1>6, AppendProperties
<1> HIDE DEF tail, seen
<1>9. /\ d \in LoadBusy /\ d.at = "read" /\ d.chat = load[r].chat /\ d.limit = load[r].limit
      /\ d.tail = tail /\ d.seen = seen
  BY <1>1, <1>4, <1>7, <1>8 DEF LoadBusy
<1> HIDE DEF d
<1> QED BY <1>1, <1>4, <1>5, <1>9 DEF tail, seen

LEMMA ReadLineHistory ==
    ASSUME HistoryInv, NEW r \in Readers, ReadLine(r)
    PROVE  HistoryInv'
<1>1. load[r] \in LoadBusy /\ load[r].at = "read"
  BY ReadLineEffect
<1>2. PICK e \in LoadBusy : load' = [load EXCEPT ![r] = e] /\ e.at = "read"
  BY ReadLineEffect
<1>3. holder = r /\ UNCHANGED <<holder, log>>
  BY <1>1 DEF ReadLine, HistoryInv, LockHeld
<1>4. /\ LockHeld' /\ load' \in [Readers -> {NoLoad} \cup LoadBusy]
      /\ holder' \in Writers \cup Readers \cup {None}
  BY <1>2, <1>3, LoadMoves
<1>5. UNCHANGED <<file, synced, log, chatOf, acked, durable, cut, faults>>
  BY LoadKeeps DEF LoadStep
<1> QED BY <1>4, <1>5, HistoryTypes, HistoryBy DEF Bounded

LEMMA ReadEndHistory ==
    ASSUME HistoryInv, NEW r \in Readers, ReadEnd(r)
    PROVE  HistoryInv'
<1> DEFINE e == [load[r] EXCEPT !.at = "done"]
<1>1. load[r] \in LoadBusy /\ holder = r
  BY BusyCalls DEF ReadEnd, HistoryInv, LockHeld
<1>2. e \in LoadBusy /\ e.at = "done"
  BY <1>1 DEF LoadBusy
<1>3. load' = [load EXCEPT ![r] = e] /\ holder' = None /\ UNCHANGED log
  BY DEF ReadEnd
<1> HIDE DEF e
<1>4. /\ LockHeld' /\ load' \in [Readers -> {NoLoad} \cup LoadBusy]
      /\ holder' \in Writers \cup Readers \cup {None}
  BY <1>1, <1>2, <1>3, LoadMoves
<1>5. UNCHANGED <<file, synced, log, chatOf, acked, durable, cut, faults>>
  BY LoadKeeps DEF LoadStep
<1> QED BY <1>4, <1>5, HistoryTypes, HistoryBy DEF Bounded

LEMMA LoadReturnsHistory ==
    ASSUME HistoryInv, NEW r \in Readers, LoadReturns(r)
    PROVE  HistoryInv'
<1>1. /\ load' = [load EXCEPT ![r] = NoLoad] /\ NoLoad.at = "idle"
      /\ UNCHANGED <<log, holder>> /\ load[r].at = "done"
  BY DEF LoadReturns, NoLoad
<1>2. holder # r
  BY <1>1 DEF HistoryInv, LockHeld
<1>3. /\ LockHeld' /\ load' \in [Readers -> {NoLoad} \cup LoadBusy]
      /\ holder' \in Writers \cup Readers \cup {None}
  BY <1>1, <1>2, LoadMoves
<1>4. UNCHANGED <<file, synced, log, chatOf, acked, durable, cut, faults>>
  BY LoadKeeps DEF LoadStep
<1> QED BY <1>3, <1>4, HistoryTypes, HistoryBy DEF Bounded

\* A crash keeps the files, or the power loss keeps a prefix of each.
LEMMA CrashEffect ==
    ASSUME HistoryInv, Crash
    PROVE  \/ UNCHANGED <<file, synced, cut>>
           \/ /\ cut' = TRUE
              /\ file' \in [Files -> Seq(Piece)] /\ synced' \in [Files -> Nat]
              /\ \A f \in Files :
                   /\ synced'[f] \in synced[f]..Len(file[f])
                   /\ Len(file'[f]) = synced'[f]
                   /\ \A i \in 1..synced'[f] : file'[f][i] = file[f][i]
<1>1. SUFFICES ASSUME NEW len \in [Files -> 0..Pieces * Cardinality(Msgs)],
                      \A f \in Files : len[f] \in synced[f]..Len(file[f]),
                      file' = [f \in Files |-> SubSeq(file[f], 1, len[f])],
                      synced' = len, cut' = TRUE
               PROVE  /\ cut' = TRUE
                      /\ file' \in [Files -> Seq(Piece)] /\ synced' \in [Files -> Nat]
                      /\ \A f \in Files :
                           /\ synced'[f] \in synced[f]..Len(file[f])
                           /\ Len(file'[f]) = synced'[f]
                           /\ \A i \in 1..synced'[f] : file'[f][i] = file[f][i]
  BY DEF Crash, fileVars
<1>2. ASSUME NEW f \in Files
      PROVE  /\ len[f] \in Nat
             /\ SubSeq(file[f], 1, len[f]) \in Seq(Piece)
             /\ Len(SubSeq(file[f], 1, len[f])) = len[f]
             /\ \A i \in 1..len[f] : SubSeq(file[f], 1, len[f])[i] = file[f][i]
  <2>1. file[f] \in Seq(Piece) /\ synced[f] \in Nat
    BY HistoryTypes
  <2>2. len[f] \in Nat /\ len[f] <= Len(file[f]) /\ len[f] \in Int /\ 1 \in Int
    BY <1>1, <2>1
  <2>3. \A i \in 1..len[f] : file[f][i] \in Piece
    BY <2>1, <2>2
  <2>4. /\ SubSeq(file[f], 1, len[f]) \in Seq(Piece)
        /\ Len(SubSeq(file[f], 1, len[f])) = IF 1 <= len[f] THEN len[f] - 1 + 1 ELSE 0
        /\ \A i \in 1..len[f] - 1 + 1 : SubSeq(file[f], 1, len[f])[i] = file[f][1 + i - 1]
    BY <2>2, <2>3, SubSeqProperties
  <2>5. \A i \in 1..len[f] : i \in 1..len[f] - 1 + 1 /\ 1 + i - 1 = i
    BY <2>2
  <2>6. (IF 1 <= len[f] THEN len[f] - 1 + 1 ELSE 0) = len[f]
    BY <2>2
  <2> QED BY <2>2, <2>4, <2>5, <2>6
<1>3. \A f \in Files : file'[f] = SubSeq(file[f], 1, len[f])
  BY <1>1
<1>4. file' \in [Files -> Seq(Piece)] /\ synced' \in [Files -> Nat]
  BY <1>1, <1>2
<1> QED BY <1>1, <1>2, <1>3, <1>4

LEMMA CrashHistory == ASSUME HistoryInv, Crash PROVE HistoryInv'
<1>1. /\ log' = [w \in Writers |-> NoLog] /\ load' = [r \in Readers |-> NoLoad]
      /\ holder' = None /\ UNCHANGED <<chatOf, acked, durable>>
  BY DEF Crash
<1>2. NoLog.at = "idle" /\ NoLoad.at = "idle"
  BY DEF NoLog, NoLoad
<1>3. LockHeld'
  BY <1>1, <1>2, HistoryAssumption DEF LockHeld
<1>4. /\ log' \in [Writers -> {NoLog} \cup LogBusy]
      /\ load' \in [Readers -> {NoLoad} \cup LoadBusy]
      /\ holder' \in Writers \cup Readers \cup {None}
  BY <1>1
<1>5. file' \in [Files -> Seq(Piece)] /\ synced' \in [Files -> Nat] /\ cut' \in BOOLEAN
  BY CrashEffect, HistoryTypes
<1>6. Bounded'
  <2>1. ASSUME NEW f \in Files PROVE synced'[f] <= Len(file'[f])
    <3>1. synced'[f] \in Nat
      BY <1>5
    <3>2. CASE UNCHANGED <<file, synced, cut>>
      BY <3>2, HistoryTypes DEF Bounded
    <3>3. CASE ~UNCHANGED <<file, synced, cut>>
      <4>1. Len(file'[f]) = synced'[f]
        BY <3>3, CrashEffect
      <4> QED BY <3>1, <4>1
    <3> QED BY <3>2, <3>3
  <2> QED BY <2>1 DEF Bounded
<1>7. faults' \in 0..MaxFaults
  BY HistoryTypes, HistoryAssumption DEF Crash, Fault
<1> QED BY <1>1, <1>3, <1>4, <1>5, <1>6, <1>7, HistoryTypes, HistoryBy

LEMMA HistoryStep == ASSUME HistoryInv, [Next]_vars PROVE HistoryInv'
<1>1. ASSUME NEW w \in Writers, (\E c \in Chats, m \in Msgs : Log(w, c, m)) \/ LogStep(w) \/ Fail(w)
      PROVE  HistoryInv'
  BY <1>1, LogHistory, LockForLogHistory, WriteSomeHistory, SyncHistory, CloseHistory, FailHistory
     DEF LogStep
<1>2. ASSUME NEW r \in Readers, (\E c \in Chats, l \in Limits : Load(r, c, l)) \/ LoadStep(r)
      PROVE  HistoryInv'
  BY <1>2, LoadHistory, LockForLoadHistory, ReadLineHistory, ReadEndHistory, LoadReturnsHistory
     DEF LoadStep
<1>3. CASE UNCHANGED vars
  BY <1>3 DEF vars, HistoryInv, TypeOK, LockHeld
<1> QED BY <1>1, <1>2, <1>3, CrashHistory DEF Next

\* The mutex is held by exactly the call that writes or reads, whatever fails or
\* crashes, and nothing is on the disk that is not in the file.
THEOREM HistoryAlways == Spec => []HistoryInv
<1>1. Init => HistoryInv
  BY InitHistory
<1>2. HistoryInv /\ [Next]_vars => HistoryInv'
  BY HistoryStep
<1> QED BY <1>1, <1>2, PTL DEF Spec

-----------------------------------------------------------------------------
(* Bounded reads.                                                          *)

Suffix(tail, seen, limit) ==
    /\ Len(tail) = IF limit = 0 \/ Len(seen) < limit THEN Len(seen) ELSE limit
    /\ tail = SubSeq(seen, Len(seen) - Len(tail) + 1, Len(seen))

\* The end of a sequence, element by element.
LEMMA SuffixElements ==
    ASSUME NEW t \in Seq(Line), NEW s \in Seq(Line), Len(t) <= Len(s)
    PROVE  t = SubSeq(s, Len(s) - Len(t) + 1, Len(s))
             <=> \A i \in 1..Len(t) : t[i] = s[Len(s) - Len(t) + i]
<1> DEFINE b == Len(s) - Len(t) + 1
           u == SubSeq(s, b, Len(s))
<1>1. Len(s) \in Nat /\ Len(t) \in Nat /\ b \in Int /\ b >= 1 /\ Len(s) \in Int
  OBVIOUS
<1>2. \A i \in b..Len(s) : s[i] \in Line
  BY <1>1
<1> HIDE DEF b
<1>3. /\ u \in Seq(Line)
      /\ Len(u) = IF b <= Len(s) THEN Len(s) - b + 1 ELSE 0
      /\ \A i \in 1..Len(s) - b + 1 : u[i] = s[b + i - 1]
  BY <1>1, <1>2, SubSeqProperties
<1>4. Len(u) = Len(t)
  BY <1>1, <1>3 DEF b
<1>5. \A i \in 1..Len(t) : u[i] = s[Len(s) - Len(t) + i]
  <2>1. \A i \in 1..Len(t) : i \in 1..Len(s) - b + 1 /\ b + i - 1 = Len(s) - Len(t) + i
    BY <1>1 DEF b
  <2> QED BY <1>3, <2>1
<1> HIDE DEF u
<1>6. t = u <=> \A i \in 1..Len(t) : t[i] = u[i]
  BY <1>1, <1>3, <1>4, SeqEqual
<1>7. t = u <=> \A i \in 1..Len(t) : t[i] = s[Len(s) - Len(t) + i]
  BY <1>5, <1>6
<1> QED BY <1>7 DEF u, b

\* One more line keeps the deque the end of what was read.
LEMMA PushSuffix ==
    ASSUME NEW t \in Seq(Line), NEW s \in Seq(Line), NEW line \in Line, NEW limit \in Nat,
           Suffix(t, s, limit)
    PROVE  Suffix(TailPush(t, line, limit), Append(s, line), limit)
<1> DEFINE t1 == Append(t, line)
           s1 == Append(s, line)
           t2 == TailPush(t, line, limit)
<1>1. /\ Len(t) \in Nat /\ Len(s) \in Nat /\ Len(t) <= Len(s)
      /\ Len(t) = IF limit = 0 \/ Len(s) < limit THEN Len(s) ELSE limit
  BY DEF Suffix
<1>2. \A i \in 1..Len(t) : t[i] = s[Len(s) - Len(t) + i]
  BY <1>1, SuffixElements DEF Suffix
<1>3. /\ t1 \in Seq(Line) /\ Len(t1) = Len(t) + 1 /\ t1[Len(t) + 1] = line
      /\ \A i \in 1..Len(t) : t1[i] = t[i]
      /\ s1 \in Seq(Line) /\ Len(s1) = Len(s) + 1 /\ s1[Len(s) + 1] = line
      /\ \A i \in 1..Len(s) : s1[i] = s[i]
  BY AppendProperties
<1>4. t2 \in Seq(Line)
  BY PushType
<1>5. t2 = IF limit # 0 /\ Len(t) >= limit THEN Tail(t1) ELSE t1
  BY DEF TailPush
<1> HIDE DEF t1, s1, t2
<1>6. \A i \in 1..Len(t1) : t1[i] = s1[Len(s1) - Len(t1) + i]
  <2>1. ASSUME NEW i \in 1..Len(t) PROVE t1[i] = s1[Len(s1) - Len(t1) + i]
    <3>1. Len(s) - Len(t) + i \in 1..Len(s) /\ Len(s1) - Len(t1) + i = Len(s) - Len(t) + i
      BY <1>1, <1>3
    <3> QED BY <1>2, <1>3, <3>1
  <2>2. t1[Len(t1)] = s1[Len(s1) - Len(t1) + Len(t1)]
    <3>1. \A a, b \in Nat : a - b + b = a
      OBVIOUS
    <3>2. Len(s1) \in Nat /\ Len(t1) \in Nat /\ Len(s1) = Len(s) + 1 /\ Len(t1) = Len(t) + 1
      BY <1>1, <1>3
    <3>3. Len(s1) - Len(t1) + Len(t1) = Len(s) + 1
      BY <3>1, <3>2
    <3> QED BY <1>3, <3>2, <3>3
  <2>3. \A i \in 1..Len(t1) : i \in 1..Len(t) \/ i = Len(t1)
    BY <1>1, <1>3
  <2> QED BY <2>1, <2>2, <2>3
<1>7. CASE limit # 0 /\ Len(t) >= limit
  <2>1. t1 # <<>>
    <3>1. Len(<<>>) = 0
      OBVIOUS
    <3> QED BY <1>1, <1>3, <3>1
  <2>2. t2 = Tail(t1) /\ Len(Tail(t1)) = Len(t1) - 1
        /\ \A i \in 1..Len(Tail(t1)) : Tail(t1)[i] = t1[i + 1]
    BY <1>3, <1>5, <1>7, <2>1, HeadTailProperties
  <2>3. Len(t2) = Len(t) /\ Len(t) = limit /\ Len(s) >= limit
    BY <1>1, <1>3, <1>7, <2>2
  <2>4. ASSUME NEW i \in 1..Len(t2) PROVE t2[i] = s1[Len(s1) - Len(t2) + i]
    <3>1. i + 1 \in 1..Len(t1) /\ Len(s1) - Len(t1) + (i + 1) = Len(s1) - Len(t2) + i
      BY <1>1, <1>3, <2>3
    <3>2. t2[i] = t1[i + 1]
      BY <2>2
    <3> QED BY <1>6, <3>1, <3>2
  <2>5. Len(t2) <= Len(s1) /\ Len(s1) >= limit
    BY <1>1, <1>3, <2>3
  <2>6. t2 = SubSeq(s1, Len(s1) - Len(t2) + 1, Len(s1))
    BY <1>3, <1>4, <2>4, <2>5, SuffixElements
  <2>7. Len(t2) = IF limit = 0 \/ Len(s1) < limit THEN Len(s1) ELSE limit
    BY <1>1, <1>3, <1>7, <2>3
  <2> QED BY <2>6, <2>7 DEF Suffix, t2, s1
<1>8. CASE ~(limit # 0 /\ Len(t) >= limit)
  <2>1. t2 = t1
    BY <1>5, <1>8
  <2>2. Len(t2) <= Len(s1)
    BY <1>1, <1>3, <2>1
  <2>3. t2 = SubSeq(s1, Len(s1) - Len(t2) + 1, Len(s1))
    BY <1>3, <1>4, <1>6, <2>1, <2>2, SuffixElements
  <2>4. Len(t2) = IF limit = 0 \/ Len(s1) < limit THEN Len(s1) ELSE limit
    BY <1>1, <1>3, <1>8, <2>1
  <2> QED BY <2>3, <2>4 DEF Suffix, t2, s1
<1> QED BY <1>7, <1>8

TailsOf(r) == Suffix(load[r].tail, load[r].seen, load[r].limit)

LEMMA NoTail == Suffix(<<>>, <<>>, 0) /\ \A l \in Nat : Suffix(<<>>, <<>>, l)
<1>1. <<>> \in Seq(Line) /\ Len(<<>>) = 0
  BY EmptySeq
<1> DEFINE none == <<>>
<1>2. none = SubSeq(none, Len(none) - Len(none) + 1, Len(none))
  <2>1. \A i \in 1..Len(none) : none[i] = none[Len(none) - Len(none) + i]
    BY <1>1
  <2>2. none \in Seq(Line) /\ Len(none) <= Len(none)
    BY <1>1
  <2> HIDE DEF none
  <2> QED BY <2>1, <2>2, SuffixElements
<1>3. \A l \in Nat : Len(none) = IF l = 0 \/ Len(none) < l THEN Len(none) ELSE l
  BY <1>1
<1> QED BY <1>2, <1>3 DEF Suffix

LEMMA TailsInit == Init => \A r \in Readers : TailsOf(r)
BY NoTail DEF Init, NoLoad, TailsOf

LEMMA TailsStep ==
    ASSUME HistoryInv, \A r \in Readers : TailsOf(r), [Next]_vars
    PROVE  \A r \in Readers : TailsOf(r)'
<1>1. CASE UNCHANGED load
  BY <1>1 DEF TailsOf
<1>2. ASSUME NEW r \in Readers, NEW e, load' = [load EXCEPT ![r] = e],
             Suffix(e.tail, e.seen, e.limit)
      PROVE  \A q \in Readers : TailsOf(q)'
  <2>1. \A q \in Readers : load'[q] = IF q = r THEN e ELSE load[q]
    BY <1>2, HistoryTypes
  <2> QED BY <1>2, <2>1 DEF TailsOf
<1>3. ASSUME NEW r \in Readers, NEW c \in Chats, NEW l \in Limits, Load(r, c, l)
      PROVE  \A q \in Readers : TailsOf(q)'
  <2> DEFINE e == [at |-> "wait", chat |-> c, limit |-> l, pos |-> 0, tail |-> <<>>, seen |-> <<>>]
  <2>1. load' = [load EXCEPT ![r] = e] /\ e.tail = <<>> /\ e.seen = <<>> /\ e.limit = l
    BY <1>3 DEF Load
  <2>2. l \in Nat
    BY HistoryAssumption
  <2> HIDE DEF e
  <2> QED BY <1>2, <2>1, <2>2, NoTail
<1>4. ASSUME NEW r \in Readers, NEW a \in {"read", "done"}, load[r].at # "idle",
             load' = [load EXCEPT ![r].at = a]
      PROVE  \A q \in Readers : TailsOf(q)'
  <2> DEFINE e == [load[r] EXCEPT !.at = a]
  <2>1. load[r] \in LoadBusy
    BY <1>4, BusyCalls DEF HistoryInv
  <2>2. e.tail = load[r].tail /\ e.seen = load[r].seen /\ e.limit = load[r].limit
    BY <2>1 DEF LoadBusy
  <2>3. load' = [load EXCEPT ![r] = e]
    BY <1>4
  <2> HIDE DEF e
  <2> QED BY <1>2, <2>2, <2>3 DEF TailsOf
<1>5. ASSUME NEW r \in Readers, ReadLine(r)
      PROVE  \A q \in Readers : TailsOf(q)'
  <2>1. load[r] \in LoadBusy
    BY <1>5, ReadLineEffect
  <2>2. PICK line \in Line, e \in LoadBusy :
          /\ load' = [load EXCEPT ![r] = e]
          /\ e.limit = load[r].limit
          /\ e.tail = TailPush(load[r].tail, line, load[r].limit)
          /\ e.seen = Append(load[r].seen, line)
    BY <1>5, ReadLineEffect
  <2>3. load[r].tail \in Seq(Line) /\ load[r].seen \in Seq(Line) /\ load[r].limit \in Nat
    BY <2>1, HistoryAssumption DEF LoadBusy
  <2>4. Suffix(e.tail, e.seen, e.limit)
    BY <2>2, <2>3, PushSuffix DEF TailsOf
  <2> QED BY <1>2, <2>2, <2>4
<1>6. ASSUME NEW r \in Readers, LoadReturns(r)
      PROVE  \A q \in Readers : TailsOf(q)'
  <2>1. load' = [load EXCEPT ![r] = NoLoad] /\ Suffix(NoLoad.tail, NoLoad.seen, NoLoad.limit)
    BY <1>6, NoTail DEF LoadReturns, NoLoad
  <2> QED BY <1>2, <2>1
<1>7. ASSUME NEW r \in Readers, LoadStep(r)
      PROVE  \A q \in Readers : TailsOf(q)'
  <2>1. LockForLoad(r) => load[r].at # "idle" /\ load' = [load EXCEPT ![r].at = "read"]
    BY DEF LockForLoad
  <2>2. ReadEnd(r) => load[r].at # "idle" /\ load' = [load EXCEPT ![r].at = "done"]
    BY DEF ReadEnd
  <2> QED BY <1>4, <1>5, <1>6, <1>7, <2>1, <2>2 DEF LoadStep
<1>8. CASE Crash
  BY <1>8, NoTail DEF Crash, TailsOf, NoLoad
<1>9. ASSUME NEW w \in Writers, (\E c \in Chats, m \in Msgs : Log(w, c, m)) \/ LogStep(w) \/ Fail(w)
      PROVE  UNCHANGED load
  BY <1>9 DEF Log, LogStep, Fail, LockForLog, WriteSome, Sync, Close
<1>10. UNCHANGED vars => UNCHANGED load
  BY DEF vars
<1> QED BY <1>1, <1>3, <1>7, <1>8, <1>9, <1>10 DEF Next

\* A load keeps the last limit lines of what it has read, all of them for limit
\* zero, and never more: whatever is in the file and however torn.
THEOREM TailAlways == Spec => []TailIsSuffix
<1>1. Init => \A r \in Readers : TailsOf(r)
  BY TailsInit
<1>2. HistoryInv /\ (\A r \in Readers : TailsOf(r)) /\ [Next]_vars
        => (\A r \in Readers : TailsOf(r))'
  BY TailsStep
<1>3. (\A r \in Readers : TailsOf(r)) => TailIsSuffix
  BY DEF TailsOf, Suffix, TailIsSuffix
<1> QED BY <1>1, <1>2, <1>3, HistoryAlways, PTL DEF Spec

-----------------------------------------------------------------------------
(* The record that is being written.                                       *)

UnderLock(w) == log[w].at \in {"write", "sync", "close"}

\* The content c ends with the first k pieces of the record m.
EndsWith(c, m, k) ==
    k <= Len(c) /\ \A j \in 1..k : c[Len(c) - k + j] = [msg |-> m, k |-> j]

\* A writer has written what it counts, at the end of its file; in durable mode it
\* has brought that to the disk before it closes the file.
Writing(w) ==
    /\ log[w].at = "wait" => log[w].k = 0
    /\ log[w].at = "write" => log[w].k # Pieces
    /\ log[w].at \in {"sync", "close"} => log[w].k = Pieces
    /\ UnderLock(w) => EndsWith(file[log[w].file], log[w].msg, log[w].k)
    /\ log[w].at = "close" /\ durable => synced[log[w].file] = Len(file[log[w].file])

\* One more write call.
LEMMA EndsWithMore ==
    ASSUME NEW c \in Seq(Piece), NEW part \in Seq(Piece), NEW m \in Msgs, NEW i \in 0..Pieces,
           NEW k \in i + 1..Pieces, EndsWith(c, m, i), Len(part) = k - i,
           \A j \in 1..k - i : part[j] = [msg |-> m, k |-> i + j]
    PROVE  EndsWith(c \o part, m, k)
<1>1. /\ i \in Nat /\ k \in Nat /\ i < k /\ Len(c) \in Nat /\ i <= Len(c)
      /\ Len(c \o part) = Len(c) + (k - i)
  BY Longer DEF Pieces, EndsWith
<1>2. ASSUME NEW j \in 1..k
      PROVE  (c \o part)[Len(c \o part) - k + j] = [msg |-> m, k |-> j]
  <2>1. CASE j <= i
    <3>1. Len(c \o part) - k + j = Len(c) - i + j /\ Len(c) - i + j \in 1..Len(c) /\ j \in 1..i
      BY <1>1, <2>1
    <3>2. c[Len(c) - i + j] = [msg |-> m, k |-> j]
      BY <3>1 DEF EndsWith
    <3> QED BY <3>1, <3>2, Longer
  <2>2. CASE j > i
    <3>1. /\ Len(c \o part) - k + j = Len(c) + (j - i) /\ j - i \in 1..k - i
          /\ i + (j - i) = j
      BY <1>1, <2>2
    <3>2. part[j - i] = [msg |-> m, k |-> j]
      BY <3>1
    <3>3. (c \o part)[Len(c) + (j - i)] = part[j - i]
      BY <3>1, Longer
    <3> QED BY <3>1, <3>2, <3>3
  <2> QED BY <1>1, <2>1, <2>2
<1> QED BY <1>1, <1>2 DEF EndsWith

\* A writer that a step leaves alone.
LEMMA WritingSame ==
    ASSUME NEW v \in Writers, Writing(v), log'[v] = log[v], UNCHANGED durable,
           UnderLock(v) => UNCHANGED <<file, synced>>
    PROVE  Writing(v)'
<1>1. CASE UnderLock(v)
  BY <1>1 DEF Writing, UnderLock
<1>2. CASE ~UnderLock(v)
  BY <1>2 DEF Writing, UnderLock
<1> QED BY <1>1, <1>2

LEMMA WritingStep ==
    ASSUME HistoryInv, \A w \in Writers : Writing(w), [Next]_vars
    PROVE  \A w \in Writers : Writing(w)'
<1>1. log \in [Writers -> {NoLog} \cup LogBusy] /\ file \in [Files -> Seq(Piece)]
  BY HistoryTypes
<1>2. ASSUME NEW w \in Writers, NEW e, log' = [log EXCEPT ![w] = e], UNCHANGED durable,
             \A v \in Writers : v # w => (UnderLock(v) => UNCHANGED <<file, synced>>),
             Writing(w)'
      PROVE  \A v \in Writers : Writing(v)'
  <2>1. \A v \in Writers : v # w => log'[v] = log[v]
    BY <1>1, <1>2
  <2> QED BY <1>2, <2>1, WritingSame
<1>3. \A w, v \in Writers : holder = w /\ v # w => ~UnderLock(v)
  BY HistoryTypes DEF LockHeld, UnderLock
<1>4. ASSUME NEW w \in Writers, NEW c \in Chats, NEW m \in Msgs, Log(w, c, m)
      PROVE  \A v \in Writers : Writing(v)'
  <2> DEFINE e == [at |-> "wait", file |-> FileOf(c), msg |-> m, k |-> 0]
  <2>1. log' = [log EXCEPT ![w] = e] /\ UNCHANGED <<file, synced, durable>>
    BY <1>4 DEF Log, fileVars
  <2>2. log'[w].at = "wait" /\ log'[w].k = 0
    BY <1>1, <2>1
  <2> HIDE DEF e
  <2> QED BY <1>2, <2>1, <2>2 DEF Writing, UnderLock
<1>5. ASSUME NEW w \in Writers, LockForLog(w)
      PROVE  \A v \in Writers : Writing(v)'
  <2> DEFINE e == [log[w] EXCEPT !.at = "write"]
  <2>1. log[w] \in LogBusy /\ log[w].k = 0
    BY <1>5, BusyCalls DEF LockForLog, HistoryInv, Writing
  <2>2. e.at = "write" /\ e.k = 0 /\ e.file \in Files
    BY <2>1, LogEntries
  <2>3. log' = [log EXCEPT ![w] = e] /\ UNCHANGED <<file, synced, durable>>
    BY <1>5 DEF LockForLog, fileVars
  <2> HIDE DEF e
  <2>4. log'[w] = e
    BY <1>1, <2>3
  <2>5. EndsWith(file'[e.file], e.msg, 0)
    <3>1. Len(file'[e.file]) \in Nat
      BY <1>1, <2>2, <2>3
    <3> QED BY <3>1 DEF EndsWith
  <2>6. Writing(w)'
    BY <2>2, <2>4, <2>5 DEF Writing, Pieces
  <2> QED BY <1>2, <2>3, <2>6
<1>6. ASSUME NEW w \in Writers, WriteSome(w)
      PROVE  \A v \in Writers : Writing(v)'
  <2>1. PICK k \in log[w].k + 1..Pieces :
          LET f == log[w].file
              part == SubSeq(Payload(log[w].msg), log[w].k + 1, k)
          IN  /\ log[w] \in LogBusy /\ holder = w
              /\ file' = [file EXCEPT ![f] = file[f] \o part]
              /\ part \in Seq(Piece) /\ Len(part) = k - log[w].k
              /\ \A j \in 1..k - log[w].k : part[j] = [msg |-> log[w].msg, k |-> log[w].k + j]
              /\ log' = [log EXCEPT ![w] = [log[w] EXCEPT
                           !.k = k, !.at = IF k = Pieces THEN "sync" ELSE "write"]]
    BY <1>6, WriteSomeEffect
  <2> DEFINE f == log[w].file
             m == log[w].msg
             i == log[w].k
             part == SubSeq(Payload(m), i + 1, k)
             at == IF k = Pieces THEN "sync" ELSE "write"
             e == [log[w] EXCEPT !.k = k, !.at = at]
  <2>2. /\ log[w] \in LogBusy /\ f \in Files /\ m \in Msgs /\ i \in 0..Pieces
        /\ EndsWith(file[f], m, i)
    <3>1. log[w] \in LogBusy
      BY <2>1
    <3>2. EndsWith(file[f], m, i)
      BY <1>6 DEF WriteSome, Writing, UnderLock
    <3> QED BY <3>1, <3>2, LogEntries
  <2>3. e.at = at /\ e.k = k /\ e.file = f /\ e.msg = m
    BY <2>2 DEF LogBusy
  <2>4. log' = [log EXCEPT ![w] = e] /\ UNCHANGED durable
    BY <1>6, <2>1 DEF WriteSome
  <2>5. EndsWith(file[f] \o part, m, k)
    <3>1. file[f] \in Seq(Piece)
      BY <1>1, <2>2
    <3>2. /\ part \in Seq(Piece) /\ Len(part) = k - i
          /\ \A j \in 1..k - i : part[j] = [msg |-> m, k |-> i + j]
      BY <2>1
    <3> HIDE DEF part, m, i, f
    <3> QED BY <2>2, <3>1, <3>2, EndsWithMore DEF i
  <2>6. file'[f] = file[f] \o part
    BY <1>1, <2>1, <2>2
  <2> HIDE DEF e, part
  <2>7. log'[w] = e
    BY <1>1, <2>4
  <2>8. Writing(w)'
    BY <2>3, <2>5, <2>6, <2>7 DEF Writing
  <2>9. holder = w
    BY <2>1
  <2> QED BY <1>2, <1>3, <2>4, <2>8, <2>9
<1>7. ASSUME NEW w \in Writers, Sync(w)
      PROVE  \A v \in Writers : Writing(v)'
  <2> DEFINE e == [log[w] EXCEPT !.at = "close"]
             f == log[w].file
  <2>1. log[w] \in LogBusy /\ holder = w
    BY <1>7, BusyCalls DEF Sync, HistoryInv, LockHeld
  <2>2. e.at = "close" /\ e.k = log[w].k /\ e.file = f /\ e.msg = log[w].msg /\ f \in Files
    BY <2>1, LogEntries
  <2>3. /\ log' = [log EXCEPT ![w] = e] /\ UNCHANGED <<file, durable>>
        /\ durable => synced' = [synced EXCEPT ![f] = Len(file[f])]
    BY <1>7 DEF Sync, Synced
  <2>4. e.k = Pieces /\ EndsWith(file[f], e.msg, e.k)
    BY <1>7, <2>2 DEF Sync, Writing, UnderLock
  <2> HIDE DEF e
  <2>5. log'[w] = e /\ (durable => synced'[f] = Len(file[f]))
    BY <1>1, <2>2, <2>3, HistoryTypes
  <2>6. Writing(w)'
    BY <2>2, <2>3, <2>4, <2>5 DEF Writing
  <2> QED BY <1>2, <1>3, <2>1, <2>3, <2>6
<1>8. ASSUME NEW w \in Writers, Close(w) \/ Fail(w)
      PROVE  \A v \in Writers : Writing(v)'
  <2>1. log' = [log EXCEPT ![w] = NoLog] /\ UNCHANGED <<file, synced, durable>>
    BY <1>8 DEF Close, Fail, fileVars
  <2>2. log'[w].at = "idle"
    BY <1>1, <2>1 DEF NoLog
  <2> QED BY <1>2, <2>1, <2>2 DEF Writing, UnderLock
<1>9. CASE Crash
  BY <1>9 DEF Crash, NoLog, Writing, UnderLock
<1>10. CASE UNCHANGED <<file, synced, log, durable>>
  BY <1>10, WritingSame
<1>11. ASSUME NEW r \in Readers, (\E c \in Chats, l \in Limits : Load(r, c, l)) \/ LoadStep(r)
       PROVE  UNCHANGED <<file, synced, log, durable>>
  BY <1>11, LoadKeeps
<1>12. UNCHANGED vars => UNCHANGED <<file, synced, log, durable>>
  BY DEF vars, fileVars
<1> QED BY <1>4, <1>5, <1>6, <1>7, <1>8, <1>9, <1>10, <1>11, <1>12 DEF Next, LogStep

-----------------------------------------------------------------------------
(* Records that do not mix.                                                *)

\* The body at i is followed by its end, or its writer is between them.
Joined(c, i) == i < Len(c) /\ c[i + 1] = [c[i] EXCEPT !.k = 2]
Half(f, i) ==
    \E w \in Writers : holder = w /\ log[w].file = f /\ log[w].k = 1 /\ i = Len(file[f])

\* Pieces written by the call that holds the mutex.
LEMMA PiecesClean ==
    ASSUME NEW c \in Seq(Piece), NEW part \in Seq(Piece), NEW m \in Msgs, NEW n \in 0..Pieces,
           NEW k \in n + 1..Pieces, EndsWith(c, m, n), Len(part) = k - n,
           \A j \in 1..k - n : part[j] = [msg |-> m, k |-> n + j],
           \A i \in 1..Len(c) : c[i].k = 1 => Joined(c, i) \/ (n = 1 /\ i = Len(c))
    PROVE  \A i \in 1..Len(c \o part) : (c \o part)[i].k = 1 =>
               Joined(c \o part, i) \/ (k = 1 /\ i = Len(c \o part))
<1> DEFINE d == c \o part
<1>1. /\ n \in {0, 1} /\ k \in {1, 2} /\ n < k /\ Len(c) \in Nat
      /\ Len(d) = Len(c) + (k - n)
  BY Longer DEF Pieces
<1>2. /\ \A j \in 1..Len(c) : d[j] = c[j]
      /\ \A j \in 1..k - n : d[Len(c) + j] = [msg |-> m, k |-> n + j]
  BY Longer
<1>3. \A a : \A b : [[msg |-> a, k |-> b] EXCEPT !.k = 2] = [msg |-> a, k |-> 2]
  OBVIOUS
<1> HIDE DEF d
<1> SUFFICES ASSUME NEW i \in 1..Len(d), d[i].k = 1
             PROVE  Joined(d, i) \/ (k = 1 /\ i = Len(d))
  BY DEF d
<1>4. CASE i \in 1..Len(c) /\ Joined(c, i)
  <2>1. i + 1 \in 1..Len(c) /\ i < Len(d)
    BY <1>1, <1>4 DEF Joined
  <2> QED BY <1>2, <1>4, <2>1 DEF Joined
<1>5. CASE i \in 1..Len(c) /\ n = 1 /\ i = Len(c)
  <2>1. k = 2 /\ i < Len(d) /\ Len(c) - n + 1 = i
    BY <1>1, <1>5
  <2>2. c[i] = [msg |-> m, k |-> 1]
    BY <1>5, <2>1 DEF EndsWith
  <2>3. d[i + 1] = [msg |-> m, k |-> 2]
    <3>1. 1 \in 1..k - n /\ n + 1 = 2
      BY <1>5, <2>1
    <3> QED BY <1>2, <1>5, <3>1
  <2>4. d[i] = c[i]
    BY <1>2, <1>5
  <2> QED BY <1>3, <2>1, <2>2, <2>3, <2>4 DEF Joined
<1>6. CASE i \notin 1..Len(c)
  <2>1. i \in Len(c) + 1..Len(c) + (k - n) /\ i - Len(c) \in 1..k - n /\ Len(c) + (i - Len(c)) = i
    BY <1>1, <1>6
  <2>2. d[i] = [msg |-> m, k |-> n + (i - Len(c))]
    BY <1>2, <2>1
  <2>3. n = 0 /\ i = Len(c) + 1
    <3>1. n + (i - Len(c)) = 1
      BY <2>2
    <3> QED BY <1>1, <2>1, <3>1
  <2>4. CASE k = 1
    BY <1>1, <2>3, <2>4
  <2>5. CASE k = 2
    <3>1. i < Len(d) /\ 2 \in 1..k - n /\ n + 2 = 2 /\ Len(c) + 2 = i + 1
      BY <1>1, <2>3, <2>5
    <3>2. d[i + 1] = [msg |-> m, k |-> 2] /\ d[i] = [msg |-> m, k |-> 1]
      <4>1. d[i + 1] = [msg |-> m, k |-> n + 2]
        BY <1>2, <3>1
      <4>2. n + (i - Len(c)) = 1
        BY <1>1, <2>3
      <4> QED BY <2>2, <3>1, <4>1, <4>2
    <3>3. d[i + 1] = [d[i] EXCEPT !.k = 2]
      BY <1>3, <3>2
    <3>4. i < Len(d)
      BY <3>1
    <3> QED BY <3>3, <3>4 DEF Joined
  <2>6. k = 1 \/ k = 2
    BY <1>1
  <2> QED BY <2>4, <2>5, <2>6
<1>7. i \in 1..Len(c) => Joined(c, i) \/ (n = 1 /\ i = Len(c))
  BY <1>2
<1> QED BY <1>4, <1>5, <1>6, <1>7

LEMMA CleanStep ==
    ASSUME HistoryInv, \A w \in Writers : Writing(w), CleanWithoutFaults, [Next]_vars
    PROVE  CleanWithoutFaults'
<1>1. SUFFICES ASSUME faults' = 0, NEW f \in Files, NEW i \in DOMAIN file'[f], file'[f][i].k = 1
               PROVE  Joined(file'[f], i) \/ Half(f, i)'
  BY DEF CleanWithoutFaults, Joined, Half
<1>2. /\ log \in [Writers -> {NoLog} \cup LogBusy] /\ file \in [Files -> Seq(Piece)]
      /\ faults \in Nat
  BY HistoryTypes
<1>3. ~Crash /\ \A w \in Writers : ~Fail(w)
  BY <1>1, <1>2 DEF Crash, Fail, Fault
<1>4. faults' = faults
  BY <1>3, LoadKeeps DEF Next, Log, LogStep, LockForLog, WriteSome, Sync, Close, vars
<1>5. \A g \in Files : \A j \in DOMAIN file[g] : file[g][j].k = 1 => Joined(file[g], j) \/ Half(g, j)
  BY <1>1, <1>4 DEF CleanWithoutFaults, Joined, Half
<1>6. \A w \in Writers : UnderLock(w) => holder = w /\ log[w] \in LogBusy
  BY BusyCalls DEF HistoryInv, LockHeld, UnderLock
<1>7. ASSUME UNCHANGED file,
             \A w \in Writers : holder = w /\ log[w].k = 1 =>
                 holder' = w /\ log'[w].k = 1 /\ log'[w].file = log[w].file
      PROVE  Joined(file'[f], i) \/ Half(f, i)'
  BY <1>1, <1>5, <1>7 DEF Half
<1>8. ASSUME NEW w \in Writers, NEW c \in Chats, NEW m \in Msgs, Log(w, c, m)
      PROVE  Joined(file'[f], i) \/ Half(f, i)'
  <2>1. UNCHANGED <<file, holder>> /\ holder # w /\ \A v \in Writers : v # w => log'[v] = log[v]
    BY <1>2, <1>8 DEF Log, fileVars, HistoryInv, LockHeld
  <2> QED BY <1>7, <2>1
<1>9. ASSUME NEW w \in Writers, LockForLog(w)
      PROVE  Joined(file'[f], i) \/ Half(f, i)'
  BY <1>7, <1>9, HistoryAssumption DEF LockForLog, LockFree, fileVars
<1>10. ASSUME NEW w \in Writers, Sync(w) \/ Close(w)
       PROVE  Joined(file'[f], i) \/ Half(f, i)'
  <2>1. holder = w /\ log[w].k # 1 /\ UNCHANGED file
    BY <1>6, <1>10 DEF Sync, Close, Writing, UnderLock, Pieces, fileVars
  <2> QED BY <1>7, <2>1
<1>11. ASSUME NEW r \in Readers, (\E c \in Chats, l \in Limits : Load(r, c, l)) \/ LoadStep(r)
       PROVE  Joined(file'[f], i) \/ Half(f, i)'
  <2>1. UNCHANGED <<file, log>>
    BY <1>11, LoadKeeps
  <2>2. UNCHANGED holder \/ holder = None \/ holder = r
    BY <1>11 DEF Load, LoadStep, LockForLoad, LockFree, ReadLine, ReadEnd, LoadReturns,
                 HistoryInv, LockHeld
  <2>3. \A w \in Writers : holder = w => holder' = w
    BY <2>2, HistoryAssumption
  <2> QED BY <1>7, <2>1, <2>3
<1>12. ASSUME NEW w \in Writers, WriteSome(w)
       PROVE  Joined(file'[f], i) \/ Half(f, i)'
  <2> DEFINE m == log[w].msg
             n == log[w].k
             g == log[w].file
  <2>1. /\ holder = w /\ log[w] \in LogBusy /\ g \in Files /\ m \in Msgs /\ n \in 0..Pieces
        /\ EndsWith(file[g], m, n) /\ n # Pieces
    BY <1>6, <1>12, LogEntries DEF WriteSome, Writing, UnderLock
  <2>2. PICK k \in n + 1..Pieces : \E part \in Seq(Piece) :
          /\ file' = [file EXCEPT ![g] = file[g] \o part]
          /\ Len(part) = k - n
          /\ \A j \in 1..k - n : part[j] = [msg |-> m, k |-> n + j]
          /\ log' = [log EXCEPT ![w] = [log[w] EXCEPT
                       !.k = k, !.at = IF k = Pieces THEN "sync" ELSE "write"]]
    BY <1>12, WriteSomeEffect
  <2>3. PICK part \in Seq(Piece) :
          /\ file' = [file EXCEPT ![g] = file[g] \o part]
          /\ Len(part) = k - n
          /\ \A j \in 1..k - n : part[j] = [msg |-> m, k |-> n + j]
          /\ log' = [log EXCEPT ![w] = [log[w] EXCEPT
                       !.k = k, !.at = IF k = Pieces THEN "sync" ELSE "write"]]
    BY <2>2
  <2>4. /\ holder' = w /\ log'[w].k = k /\ log'[w].file = g
        /\ \A v \in Writers : holder = v => v = w
    BY <1>2, <1>12, <2>1, <2>3 DEF WriteSome, LogBusy
  <2>5. CASE f # g
    <3>1. file'[f] = file[f] /\ ~Half(f, i)
      BY <1>2, <2>3, <2>4, <2>5 DEF Half
    <3> QED BY <1>1, <1>5, <3>1
  <2>6. CASE f = g
    <3>1. file'[g] = file[g] \o part /\ file[g] \in Seq(Piece)
      BY <1>2, <2>1, <2>3
    <3>2. \A j \in 1..Len(file[g]) : file[g][j].k = 1 =>
              Joined(file[g], j) \/ (n = 1 /\ j = Len(file[g]))
      BY <1>5, <2>1, <3>1 DEF Half
    <3>3. i \in 1..Len(file[g] \o part) /\ (file[g] \o part)[i].k = 1
      <4>1. file[g] \o part \in Seq(Piece)
        BY <3>1, Longer
      <4> QED BY <1>1, <2>6, <3>1, <4>1
    <3> HIDE DEF m, n, g
    <3>4. Joined(file[g] \o part, i) \/ (k = 1 /\ i = Len(file[g] \o part))
      BY <2>1, <2>3, <3>1, <3>2, <3>3, PiecesClean
    <3> QED BY <2>4, <2>6, <3>1, <3>4 DEF Half
  <2> QED BY <2>5, <2>6
<1>13. CASE UNCHANGED vars
  BY <1>7, <1>13 DEF vars, fileVars
<1> QED BY <1>3, <1>8, <1>9, <1>10, <1>11, <1>12, <1>13 DEF Next, LogStep

\* The record under way is at the end of its file, after what its writer counts.
THEOREM WritingAlways == Spec => [](\A w \in Writers : Writing(w))
<1>1. Init => \A w \in Writers : Writing(w)
  BY DEF Init, NoLog, Writing, UnderLock
<1>2. HistoryInv /\ (\A w \in Writers : Writing(w)) /\ [Next]_vars
        => (\A w \in Writers : Writing(w))'
  BY WritingStep
<1> QED BY <1>1, <1>2, HistoryAlways, PTL DEF Spec

\* As long as nothing fails, log calls that run at once never mix their records: the
\* body of one is followed by its own end, or about to be.
THEOREM NeverMixed == Spec => []CleanWithoutFaults
<1>1. Init => CleanWithoutFaults
  BY EmptySeq DEF Init, CleanWithoutFaults
<1>2. HistoryInv /\ (\A w \in Writers : Writing(w)) /\ CleanWithoutFaults /\ [Next]_vars
        => CleanWithoutFaults'
  BY CleanStep
<1> QED BY <1>1, <1>2, HistoryAlways, WritingAlways, PTL DEF Spec

-----------------------------------------------------------------------------
(* Records that stay.                                                      *)

\* The records a are whole in c, in their order, at the places st.
Recorded(c, a, st) ==
    /\ st \in [DOMAIN a -> Nat]
    /\ \A i \in DOMAIN a : /\ st[i] + 2 <= Len(c)
                           /\ c[st[i] + 1] = [msg |-> a[i], k |-> 1]
                           /\ c[st[i] + 2] = [msg |-> a[i], k |-> 2]
    /\ \A i, j \in DOMAIN a : i < j => st[i] < st[j]

\* They end before piece n + 1.
Upto(a, st, n) == \A i \in DOMAIN a : st[i] + 2 <= n

\* The records that were acknowledged are in the file, in durable mode on the disk,
\* and end before the record that is being written.
Lasting(f, st) ==
    /\ Recorded(file[f], acked[f], st)
    /\ durable => Upto(acked[f], st, synced[f])
    /\ \A w \in Writers : holder = w /\ log[w].file = f =>
           Upto(acked[f], st, Len(file[f]) - log[w].k)
AllLast == durable \/ ~cut => \A f \in Files : \E st : Lasting(f, st)

\* They are still there in a file that agrees with c as far as they go.
LEMMA RecordedIn ==
    ASSUME NEW c \in Seq(Piece), NEW d \in Seq(Piece), NEW a, NEW st, NEW n \in Nat,
           Recorded(c, a, st), Upto(a, st, n), n <= Len(c), n <= Len(d),
           \A i \in 1..n : d[i] = c[i]
    PROVE  Recorded(d, a, st)
<1>1. Len(c) \in Nat /\ Len(d) \in Nat
  OBVIOUS
<1>2. ASSUME NEW i \in DOMAIN a
      PROVE  /\ st[i] + 2 <= Len(d)
             /\ d[st[i] + 1] = [msg |-> a[i], k |-> 1]
             /\ d[st[i] + 2] = [msg |-> a[i], k |-> 2]
  <2>1. st[i] \in Nat /\ st[i] + 2 <= n
    BY DEF Recorded, Upto
  <2>2. st[i] + 1 \in 1..n /\ st[i] + 2 \in 1..n /\ st[i] + 2 <= Len(d)
    BY <1>1, <2>1
  <2> QED BY <2>2 DEF Recorded
<1> QED BY <1>2 DEF Recorded

\* One more record, which ends the file.
LEMMA RecordedMore ==
    ASSUME NEW c \in Seq(Piece), NEW a \in Seq(Msgs), NEW m \in Msgs, NEW st,
           Recorded(c, a, st), Upto(a, st, Len(c) - 2), EndsWith(c, m, 2)
    PROVE  \E t : Recorded(c, Append(a, m), t) /\ Upto(Append(a, m), t, Len(c))
<1> DEFINE n == Len(a) + 1
           b == Append(a, m)
           t == [i \in 1..n |-> IF i = n THEN Len(c) - 2 ELSE st[i]]
<1>1. /\ Len(c) \in Nat /\ Len(a) \in Nat /\ 2 <= Len(c) /\ Len(c) - 2 \in Nat
      /\ c[Len(c) - 2 + 1] = [msg |-> m, k |-> 1] /\ c[Len(c) - 2 + 2] = [msg |-> m, k |-> 2]
  BY DEF EndsWith
<1>2. /\ DOMAIN a = 1..Len(a) /\ DOMAIN b = 1..n /\ n \notin DOMAIN a
      /\ b[n] = m /\ \A i \in 1..Len(a) : b[i] = a[i]
  BY <1>1
<1>3. \A i \in 1..n : i = n \/ (i \in 1..Len(a) /\ i # n)
  BY <1>1
<1>4. t[n] = Len(c) - 2 /\ \A i \in 1..Len(a) : t[i] = st[i]
  BY <1>1
<1>5. t \in [1..n -> Nat]
  BY <1>1, <1>2, <1>3 DEF Recorded
<1> HIDE DEF t, b
<1>6. ASSUME NEW i \in 1..n
      PROVE  /\ t[i] + 2 <= Len(c)
             /\ c[t[i] + 1] = [msg |-> b[i], k |-> 1]
             /\ c[t[i] + 2] = [msg |-> b[i], k |-> 2]
  <2>1. CASE i = n
    BY <1>1, <1>2, <1>4, <2>1
  <2>2. CASE i \in 1..Len(a)
    BY <1>2, <1>4, <2>2 DEF Recorded
  <2> QED BY <1>3, <2>1, <2>2
<1>7. ASSUME NEW i \in 1..n, NEW j \in 1..n, i < j
      PROVE  t[i] < t[j]
  <2>1. i \in 1..Len(a)
    BY <1>1, <1>7
  <2>2. t[i] = st[i] /\ st[i] \in Nat /\ st[i] + 2 <= Len(c) - 2
    BY <1>2, <1>4, <2>1 DEF Recorded, Upto
  <2>3. CASE j = n
    BY <1>1, <1>4, <2>2, <2>3
  <2>4. CASE j \in 1..Len(a)
    BY <1>2, <1>4, <1>7, <2>1, <2>4 DEF Recorded
  <2> QED BY <1>3, <2>3, <2>4
<1>8. Recorded(c, b, t) /\ Upto(b, t, Len(c))
  BY <1>2, <1>5, <1>6, <1>7 DEF Recorded, Upto
<1> QED BY <1>8 DEF b

\* A step that keeps the files and what is acknowledged.
LEMMA LastingSame ==
    ASSUME AllLast, UNCHANGED <<file, acked, durable, cut>>,
           \A f \in Files : synced'[f] = synced[f] \/ synced'[f] = Len(file[f]),
           \A f \in Files, w \in Writers : holder' = w /\ log'[w].file = f =>
               log'[w].k = 0 \/ (holder = w /\ log[w].file = f /\ log'[w].k = log[w].k),
           \A f \in Files : file[f] \in Seq(Piece)
    PROVE  AllLast'
<1> SUFFICES ASSUME durable \/ ~cut, NEW f \in Files
             PROVE  \E st : Lasting(f, st)'
  BY DEF AllLast
<1>1. PICK st : Lasting(f, st)
  BY DEF AllLast
<1>2. Upto(acked[f], st, Len(file[f]))
  BY <1>1 DEF Lasting, Recorded, Upto
<1>3. durable => Upto(acked[f], st, synced'[f])
  BY <1>1, <1>2 DEF Lasting
<1>4. Len(file[f]) - 0 = Len(file[f])
  BY Longer
<1>5. \A w \in Writers : holder' = w /\ log'[w].file = f =>
          Upto(acked[f], st, Len(file[f]) - log'[w].k)
  BY <1>1, <1>2, <1>4 DEF Lasting
<1>6. Lasting(f, st)'
  BY <1>1, <1>3, <1>5 DEF Lasting
<1> QED BY <1>6

LEMMA LastStep ==
    ASSUME HistoryInv, \A w \in Writers : Writing(w), AllLast, [Next]_vars
    PROVE  AllLast'
<1>1. /\ log \in [Writers -> {NoLog} \cup LogBusy] /\ file \in [Files -> Seq(Piece)]
      /\ acked \in [Files -> Seq(Msgs)] /\ synced \in [Files -> Nat]
      /\ \A f \in Files : file[f] \in Seq(Piece)
  BY HistoryTypes
<1>2. \A w \in Writers : UnderLock(w) => holder = w /\ log[w] \in LogBusy
  BY BusyCalls DEF HistoryInv, LockHeld, UnderLock
<1>3. ASSUME UNCHANGED <<file, synced, acked, durable, cut>>,
             \A w \in Writers : holder' = w => log'[w].k = 0 \/ (holder = w /\ log'[w] = log[w])
      PROVE  AllLast'
  BY <1>1, <1>3, LastingSame
<1>4. ASSUME NEW w \in Writers, NEW c \in Chats, NEW m \in Msgs, Log(w, c, m)
      PROVE  AllLast'
  <2>1. UNCHANGED <<file, synced, holder, acked, durable, cut>>
    BY <1>4 DEF Log, fileVars
  <2>2. \A v \in Writers : log'[v].k = 0 \/ log'[v] = log[v]
    BY <1>1, <1>4 DEF Log
  <2> QED BY <1>3, <2>1, <2>2
<1>5. ASSUME NEW w \in Writers, LockForLog(w)
      PROVE  AllLast'
  <2>1. log[w] \in LogBusy /\ log[w].k = 0
    BY <1>5, BusyCalls DEF LockForLog, HistoryInv, Writing
  <2>2. log'[w].k = 0 /\ holder' = w /\ UNCHANGED <<file, synced, acked, durable, cut>>
    BY <1>1, <1>5, <2>1 DEF LockForLog, fileVars, LogBusy
  <2> QED BY <1>3, <2>2
<1>6. ASSUME NEW w \in Writers, Sync(w)
      PROVE  AllLast'
  <2>1. holder = w /\ log[w] \in LogBusy /\ UNCHANGED <<file, holder, acked, durable, cut>>
    BY <1>2, <1>6 DEF Sync, UnderLock
  <2>2. log'[w].k = log[w].k /\ log'[w].file = log[w].file
    BY <1>1, <1>6, <2>1 DEF Sync, LogBusy
  <2>3. \A f \in Files : synced'[f] = synced[f] \/ synced'[f] = Len(file[f])
    BY <1>1, <1>6 DEF Sync, Synced
  <2> QED BY <1>1, <2>1, <2>2, <2>3, LastingSame
<1>7. ASSUME NEW w \in Writers, Fail(w)
      PROVE  AllLast'
  BY <1>3, <1>7, HistoryAssumption DEF Fail, fileVars
<1>8. ASSUME NEW r \in Readers, (\E c \in Chats, l \in Limits : Load(r, c, l)) \/ LoadStep(r)
      PROVE  AllLast'
  <2>1. UNCHANGED <<file, synced, log, acked, durable, cut>>
    BY <1>8, LoadKeeps
  <2>2. UNCHANGED holder \/ holder' = None \/ holder' = r
    BY <1>8 DEF Load, LoadStep, LockForLoad, ReadLine, ReadEnd, LoadReturns
  <2> QED BY <1>3, <2>1, <2>2, HistoryAssumption
<1>9. CASE UNCHANGED vars
  BY <1>3, <1>9 DEF vars, fileVars
<1>10. CASE Crash
  <2>1. holder' = None /\ UNCHANGED <<acked, durable>>
    BY <1>10 DEF Crash
  <2>2. CASE UNCHANGED <<file, synced, cut>>
    BY <1>3, <2>1, <2>2, HistoryAssumption
  <2>3. CASE ~UNCHANGED <<file, synced, cut>>
    <3> SUFFICES ASSUME durable, NEW f \in Files
                 PROVE  \E st : Lasting(f, st)'
      BY <1>10, <2>1, <2>3, CrashEffect DEF AllLast
    <3>1. PICK st : Lasting(f, st)
      BY DEF AllLast
    <3>2. /\ file'[f] \in Seq(Piece) /\ file[f] \in Seq(Piece) /\ synced[f] \in Nat
          /\ synced'[f] \in synced[f]..Len(file[f]) /\ Len(file'[f]) = synced'[f]
          /\ \A i \in 1..synced'[f] : file'[f][i] = file[f][i]
      BY <1>1, <1>10, <2>3, CrashEffect
    <3>3. /\ synced[f] <= Len(file[f]) /\ synced[f] <= Len(file'[f])
          /\ \A i \in 1..synced[f] : file'[f][i] = file[f][i]
      BY <3>2
    <3>4. Recorded(file'[f], acked[f], st)
      BY <3>1, <3>2, <3>3, RecordedIn DEF Lasting
    <3>5. Upto(acked[f], st, synced'[f])
      <4>1. \A i \in DOMAIN acked[f] : st[i] \in Nat /\ st[i] + 2 <= synced[f]
        BY <3>1 DEF Lasting, Recorded, Upto
      <4>2. synced'[f] \in Int /\ synced[f] <= synced'[f]
        BY <3>2
      <4> QED BY <3>2, <4>1, <4>2 DEF Upto
    <3>6. \A w \in Writers : holder' # w
      BY <2>1, HistoryAssumption
    <3>7. Lasting(f, st)'
      BY <2>1, <3>4, <3>5, <3>6 DEF Lasting
    <3> QED BY <3>7
  <2> QED BY <2>2, <2>3
<1>11. ASSUME NEW w \in Writers, WriteSome(w)
       PROVE  AllLast'
  <2> SUFFICES ASSUME durable \/ ~cut, NEW f \in Files
               PROVE  \E st : Lasting(f, st)'
    BY <1>11 DEF AllLast, WriteSome
  <2>1. PICK st : Lasting(f, st)
    BY DEF AllLast
  <2> DEFINE g == log[w].file
             n == log[w].k
  <2>2. /\ holder = w /\ log[w] \in LogBusy /\ g \in Files /\ n \in 0..Pieces
        /\ UNCHANGED <<synced, holder, acked, durable, cut>>
    BY <1>2, <1>11, LogEntries DEF WriteSome, UnderLock
  <2>3. PICK k \in n + 1..Pieces, part \in Seq(Piece) :
          /\ file' = [file EXCEPT ![g] = file[g] \o part] /\ Len(part) = k - n
          /\ log' = [log EXCEPT ![w] = [log[w] EXCEPT
                       !.k = k, !.at = IF k = Pieces THEN "sync" ELSE "write"]]
    BY <1>11, WriteSomeEffect
  <2>4. /\ log'[w].k = k /\ log'[w].file = g
        /\ \A v \in Writers : holder' = v => v = w
    BY <1>1, <2>2, <2>3 DEF LogBusy
  <2>5. CASE f # g
    <3>1. file'[f] = file[f]
      BY <1>1, <2>3, <2>5
    <3>2. Lasting(f, st)'
      BY <2>1, <2>2, <2>4, <2>5, <3>1 DEF Lasting
    <3> QED BY <3>2
  <2>6. CASE f = g
    <3> DEFINE c == file[g]
    <3>1. c \in Seq(Piece) /\ file'[g] = c \o part
      BY <1>1, <2>2, <2>3
    <3>2. /\ Recorded(c, acked[g], st) /\ Upto(acked[g], st, Len(c) - n)
          /\ (durable => Upto(acked[g], st, synced[g]))
      BY <2>1, <2>2, <2>6 DEF Lasting
    <3> HIDE DEF c
    <3>3. /\ Len(c) \in Nat /\ n \in Nat /\ k \in Nat /\ n < k
          /\ c \o part \in Seq(Piece) /\ Len(c \o part) = Len(c) + (k - n)
          /\ \A i \in 1..Len(c) : (c \o part)[i] = c[i]
      BY <2>2, <2>3, <3>1, Longer DEF Pieces
    <3>4. Len(c \o part) - k = Len(c) - n /\ Len(c) <= Len(c \o part) /\ Len(c) <= Len(c)
      BY <3>3
    <3>5. Upto(acked[g], st, Len(c))
      BY <3>2 DEF Recorded, Upto
    <3>6. Recorded(c \o part, acked[g], st)
      BY <3>1, <3>2, <3>3, <3>4, <3>5, RecordedIn
    <3>7. Lasting(f, st)'
      BY <2>2, <2>4, <2>6, <3>1, <3>2, <3>4, <3>6 DEF Lasting
    <3> QED BY <3>7
  <2> QED BY <2>5, <2>6
<1>12. ASSUME NEW w \in Writers, Close(w)
       PROVE  AllLast'
  <2> SUFFICES ASSUME durable \/ ~cut, NEW f \in Files
               PROVE  \E st : Lasting(f, st)'
    BY <1>12 DEF AllLast, Close
  <2>1. PICK st : Lasting(f, st)
    BY DEF AllLast
  <2> DEFINE g == log[w].file
             m == log[w].msg
  <2>2. /\ holder = w /\ log[w] \in LogBusy /\ g \in Files /\ m \in Msgs
        /\ UNCHANGED <<file, synced, durable, cut>> /\ holder' = None
        /\ acked' = [acked EXCEPT ![g] = Append(acked[g], m)]
    BY <1>2, <1>12, LogEntries DEF Close, UnderLock, fileVars
  <2>3. \A v \in Writers : holder' # v
    BY <2>2, HistoryAssumption
  <2>4. CASE f # g
    <3>1. acked'[f] = acked[f]
      BY <1>1, <2>2, <2>4
    <3>2. Lasting(f, st)'
      BY <2>1, <2>2, <2>3, <3>1 DEF Lasting
    <3> QED BY <3>2
  <2>5. CASE f = g
    <3>1. /\ log[w].k = 2 /\ EndsWith(file[g], m, 2)
          /\ (durable => synced[g] = Len(file[g]))
      BY <1>12 DEF Close, Writing, UnderLock, Pieces
    <3>2. Recorded(file[g], acked[g], st) /\ Upto(acked[g], st, Len(file[g]) - 2)
      BY <2>1, <2>2, <2>5, <3>1 DEF Lasting
    <3>3. file[g] \in Seq(Piece) /\ acked[g] \in Seq(Msgs)
      BY <1>1, <2>2
    <3>4. PICK t : /\ Recorded(file[g], Append(acked[g], m), t)
                   /\ Upto(Append(acked[g], m), t, Len(file[g]))
      BY <2>2, <3>1, <3>2, <3>3, RecordedMore
    <3>5. acked'[g] = Append(acked[g], m)
      BY <1>1, <2>2
    <3>6. Lasting(f, t)'
      BY <2>2, <2>3, <2>5, <3>1, <3>4, <3>5 DEF Lasting
    <3> QED BY <3>6
  <2> QED BY <2>4, <2>5
<1> QED BY <1>4, <1>5, <1>6, <1>7, <1>8, <1>9, <1>10, <1>11, <1>12 DEF Next, LogStep

\* A record at i, as the property says it.
LEMMA AtIs ==
    ASSUME NEW f \in Files, file[f] \in Seq(Piece), NEW m \in Msgs, NEW i \in Nat,
           i + 2 <= Len(file[f]),
           file[f][i + 1] = [msg |-> m, k |-> 1], file[f][i + 2] = [msg |-> m, k |-> 2]
    PROVE  At(f, m, i)
<1> DEFINE c == file[f]
           u == SubSeq(c, i + 1, i + 2)
           p == Payload(m)
<1>1. /\ i + 1 \in Int /\ i + 2 \in Int /\ Len(c) \in Nat
      /\ \A j \in i + 1..i + 2 : j \in 1..Len(c)
  OBVIOUS
<1>2. \A j \in i + 1..i + 2 : c[j] \in Piece
  BY <1>1
<1> HIDE DEF c
<1>3. /\ u \in Seq(Piece)
      /\ Len(u) = IF i + 1 <= i + 2 THEN i + 2 - (i + 1) + 1 ELSE 0
      /\ \A j \in 1..i + 2 - (i + 1) + 1 : u[j] = c[i + 1 + j - 1]
  BY <1>1, <1>2, SubSeqProperties
<1>4. Len(u) = 2 /\ u[1] = c[i + 1] /\ u[2] = c[i + 2]
  <2>1. i + 1 <= i + 2 /\ i + 2 - (i + 1) + 1 = 2 /\ i + 1 + 1 - 1 = i + 1 /\ i + 1 + 2 - 1 = i + 2
    OBVIOUS
  <2>2. 1 \in 1..2 /\ 2 \in 1..2
    OBVIOUS
  <2> HIDE DEF u
  <2> QED BY <1>3, <2>1, <2>2
<1>5. p \in Seq(Piece) /\ Len(p) = 2 /\ p[1] = [msg |-> m, k |-> 1] /\ p[2] = [msg |-> m, k |-> 2]
  BY DEF Payload, Piece, Pieces
<1>6. \A j \in 1..2 : j = 1 \/ j = 2
  OBVIOUS
<1> HIDE DEF u, p
<1>7. \A j \in 1..Len(u) : u[j] = p[j]
  BY <1>4, <1>5, <1>6 DEF c
<1>8. u = p
  BY <1>3, <1>4, <1>5, <1>7, SeqEqual
<1> QED BY <1>8 DEF At, Pieces, u, p, c

LEMMA LastKept == ASSUME HistoryInv, AllLast PROVE AckedKept
<1> SUFFICES ASSUME durable \/ ~cut, NEW f \in Files
             PROVE  \E start \in [DOMAIN acked[f] -> 0..Len(file[f])] :
                      /\ \A i \in DOMAIN acked[f] : At(f, acked[f][i], start[i])
                      /\ \A i, j \in DOMAIN acked[f] : i < j => start[i] < start[j]
  BY DEF AckedKept
<1>1. PICK st : Recorded(file[f], acked[f], st)
  BY DEF AllLast, Lasting
<1>2. file[f] \in Seq(Piece) /\ acked[f] \in Seq(Msgs) /\ Len(file[f]) \in Nat
  BY HistoryTypes
<1>3. ASSUME NEW i \in DOMAIN acked[f]
      PROVE  st[i] \in 0..Len(file[f]) /\ At(f, acked[f][i], st[i])
  <2>1. /\ st[i] \in Nat /\ st[i] + 2 <= Len(file[f]) /\ acked[f][i] \in Msgs
        /\ file[f][st[i] + 1] = [msg |-> acked[f][i], k |-> 1]
        /\ file[f][st[i] + 2] = [msg |-> acked[f][i], k |-> 2]
    BY <1>1, <1>2 DEF Recorded
  <2> QED BY <1>2, <2>1, AtIs
<1>4. st \in [DOMAIN acked[f] -> 0..Len(file[f])]
  BY <1>1, <1>3 DEF Recorded
<1> QED BY <1>1, <1>3, <1>4 DEF Recorded

\* What a log call reported as logged stays in its file, whole and in order, through
\* failed and short writes, crashes and the records logged after it; in durable mode
\* through a power loss too.
THEOREM AckedAlways == Spec => []AckedKept
<1>1. Init => AllLast
  <2> SUFFICES ASSUME Init, NEW f \in Files PROVE \E st : Lasting(f, st)
    BY DEF AllLast
  <2>1. DOMAIN acked[f] = {} /\ \A w \in Writers : holder # w
    BY HistoryAssumption DEF Init
  <2> DEFINE st == [i \in {} |-> 0]
  <2>2. st \in [DOMAIN acked[f] -> Nat]
    BY <2>1
  <2>3. Lasting(f, st)
    BY <2>1, <2>2 DEF Lasting, Recorded, Upto
  <2> QED BY <2>3
<1>2. HistoryInv /\ (\A w \in Writers : Writing(w)) /\ AllLast /\ [Next]_vars => AllLast'
  BY LastStep
<1>3. HistoryInv /\ AllLast => AckedKept
  BY LastKept
<1> QED BY <1>1, <1>2, <1>3, HistoryAlways, WritingAlways, PTL DEF Spec

=============================================================================
