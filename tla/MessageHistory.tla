--------------------------- MODULE MessageHistory ---------------------------
(***************************************************************************)
(* The message history: append-only text files, one for the global chat,   *)
(* one per room and one per pair of users, which several threads log to    *)
(* and load from under one mutex.                                          *)
(*                                                                         *)
(* A record reaches its file in two pieces, the body and the end of its    *)
(* last line, so that a short write, a failed write or a crash can fall    *)
(* between them.  A step is one system call, or one line read.             *)
(***************************************************************************)
EXTENDS Integers, Sequences, FiniteSets

CONSTANTS
    Writers,    \* calls of log_*_message that may be under way at once
    Readers,    \* calls of load_*_history that may be under way at once
    Msgs,       \* the log entries
    MultiLine,  \* those whose text holds a line end
    Chats,      \* what is logged: [dir, names], see FileOf
    Limits,     \* the limits of load_*_history
    MaxFaults,  \* bound on failed system calls and crashes
    None

ASSUME HistoryAssumption ==
    /\ MultiLine \subseteq Msgs
    /\ Limits \subseteq Nat
    /\ MaxFaults \in Nat
    /\ None \notin Writers \cup Readers \cup Chats \cup Msgs
    /\ Writers \cap Readers = {}

VARIABLES
    file,     \* the content of each file
    synced,   \* how much of it is on the disk for certain
    holder,   \* who holds history_mutex
    log,      \* the call each writer is in
    load,     \* the call each reader is in
    chatOf,   \* the chat each entry was logged to
    acked,    \* entries whose log call succeeded, per file, in order
    durable,  \* CHERRY_HISTORY_DURABLE_WRITES
    cut,      \* a power loss has happened
    faults    \* failures so far

fileVars == <<file, synced>>
vars == <<file, synced, holder, log, load, chatOf, acked, durable, cut, faults>>

-----------------------------------------------------------------------------
(* File names.  A character is a number, as in the code; the kept ones are *)
(* letters, digits, '-' (45) and '_' (95).                                 *)

Kept == (48..57) \cup (65..90) \cup (97..122) \cup {45, 95}
Underscore == 95

\* safe_path_component.
Safe(name) ==
    IF name = <<>> THEN <<"unknown">>
    ELSE [i \in DOMAIN name |-> IF name[i] \in Kept THEN name[i] ELSE Underscore]

\* operator> of std::string.
Greater(a, b) ==
    \E k \in 0..Len(a) :
        /\ k < Len(a) /\ k <= Len(b)
        /\ SubSeq(a, 1, k) = SubSeq(b, 1, k)
        /\ k = Len(b) \/ a[k + 1] > b[k + 1]

PairName(a, b) ==
    IF Greater(a, b) THEN b \o <<Underscore>> \o a ELSE a \o <<Underscore>> \o b

\* A chat is the global one, a room, or the private chat of two users.
FileOf(c) ==
    [dir |-> c.dir,
     name |-> CASE c.dir = "global" -> <<>>
                [] c.dir = "rooms" -> Safe(c.names[1])
                [] c.dir = "private" -> PairName(Safe(c.names[1]), Safe(c.names[2]))]

Files == {FileOf(c) : c \in Chats}

-----------------------------------------------------------------------------
(* Content and lines.                                                      *)

Pieces == 2
Piece == [msg : Msgs, k : 1..Pieces]
Payload(m) == [k \in 1..Pieces |-> [msg |-> m, k |-> k]]
EndsLine(p) == p.k = Pieces \/ p.msg \in MultiLine

\* The line that starts after the first pos pieces of a file ends with piece e.
LineEnd(content, pos, e) ==
    /\ e \in pos + 1..Len(content)
    /\ EndsLine(content[e]) \/ e = Len(content)
    /\ \A i \in pos + 1..e - 1 : ~EndsLine(content[i])

NoLog  == [at |-> "idle", file |-> None, msg |-> None, k |-> 0]
NoLoad == [at |-> "idle", chat |-> None, limit |-> 0, pos |-> 0, tail |-> <<>>, seen |-> <<>>]

Line == Seq(Piece)

TypeOK ==
    /\ file \in [Files -> Seq(Piece)]
    /\ synced \in [Files -> Nat]
    /\ holder \in Writers \cup Readers \cup {None}
    /\ log \in [Writers -> {NoLog} \cup
                 [at : {"wait", "write", "sync", "close"}, file : Files, msg : Msgs, k : 0..Pieces]]
    /\ load \in [Readers -> {NoLoad} \cup
                  [at : {"wait", "read", "done"}, chat : Chats, limit : Limits, pos : Nat,
                   tail : Seq(Line), seen : Seq(Line)]]
    /\ chatOf \in [Msgs -> Chats \cup {None}]
    /\ acked \in [Files -> Seq(Msgs)]
    /\ durable \in BOOLEAN /\ cut \in BOOLEAN
    /\ faults \in 0..MaxFaults

Init ==
    /\ file = [f \in Files |-> <<>>]
    /\ synced = [f \in Files |-> 0]
    /\ holder = None
    /\ log = [w \in Writers |-> NoLog]
    /\ load = [r \in Readers |-> NoLoad]
    /\ chatOf = [m \in Msgs |-> None]
    /\ acked = [f \in Files |-> <<>>]
    /\ durable \in BOOLEAN
    /\ cut = FALSE
    /\ faults = 0

-----------------------------------------------------------------------------
(* log_global_message, log_private_message, log_room_message.              *)

Fault == faults < MaxFaults /\ faults' = faults + 1

\* The entry and the file name are made before the lock is taken.
Log(w, c, m) ==
    /\ log[w].at = "idle" /\ chatOf[m] = None
    /\ chatOf' = [chatOf EXCEPT ![m] = c]
    /\ log' = [log EXCEPT ![w] = [at |-> "wait", file |-> FileOf(c), msg |-> m, k |-> 0]]
    /\ UNCHANGED <<fileVars, holder, load, acked, durable, cut, faults>>

\* Faulty variant: every call is let in.
LockFreeAlways == TRUE
LockFree == holder = None

LockForLog(w) ==
    /\ log[w].at = "wait" /\ LockFree
    /\ holder' = w
    /\ log' = [log EXCEPT ![w].at = "write"]
    /\ UNCHANGED <<fileVars, load, chatOf, acked, durable, cut, faults>>

\* The write loop of append_history_line: a write may be short.
WriteSome(w) ==
    /\ log[w].at = "write"
    /\ \E k \in log[w].k + 1..Pieces :
         /\ file' = [file EXCEPT ![log[w].file] =
                        @ \o SubSeq(Payload(log[w].msg), log[w].k + 1, k)]
         /\ log' = [log EXCEPT ![w].k = k, ![w].at = IF k = Pieces THEN "sync" ELSE "write"]
    /\ UNCHANGED <<synced, holder, load, chatOf, acked, durable, cut, faults>>

\* Faulty variant: the durable mode does not reach the disk.
NotSynced(f) == UNCHANGED synced
Synced(f) == synced' = IF durable THEN [synced EXCEPT ![f] = Len(file[f])] ELSE synced

Sync(w) ==
    /\ log[w].at = "sync"
    /\ Synced(log[w].file)
    /\ log' = [log EXCEPT ![w].at = "close"]
    /\ UNCHANGED <<file, holder, load, chatOf, acked, durable, cut, faults>>

\* The lock_guard goes when the call returns, and the entry counts as logged.
Close(w) ==
    /\ log[w].at = "close"
    /\ acked' = [acked EXCEPT ![log[w].file] = Append(@, log[w].msg)]
    /\ log' = [log EXCEPT ![w] = NoLog]
    /\ holder' = None
    /\ UNCHANGED <<fileVars, load, chatOf, durable, cut, faults>>

\* Faulty variant: the mutex is not released on the way out.
FailKeepsLock(w) ==
    /\ Fault
    /\ log[w].at \in {"write", "close"} \/ (log[w].at = "sync" /\ durable)
    /\ log' = [log EXCEPT ![w] = NoLog]
    /\ UNCHANGED <<fileVars, holder, load, chatOf, acked, durable, cut>>

\* A system call fails: the exception is caught and reported, what was written
\* stays in the file.
Fail(w) ==
    /\ Fault
    /\ log[w].at \in {"write", "close"} \/ (log[w].at = "sync" /\ durable)
    /\ log' = [log EXCEPT ![w] = NoLog]
    /\ holder' = None
    /\ UNCHANGED <<fileVars, load, chatOf, acked, durable, cut>>

-----------------------------------------------------------------------------
(* load_global_history, load_private_history, load_room_history.           *)

Load(r, c, limit) ==
    /\ load[r].at = "idle"
    /\ load' = [load EXCEPT ![r] = [at |-> "wait", chat |-> c, limit |-> limit,
                                    pos |-> 0, tail |-> <<>>, seen |-> <<>>]]
    /\ UNCHANGED <<fileVars, holder, log, chatOf, acked, durable, cut, faults>>

LockForLoad(r) ==
    /\ load[r].at = "wait" /\ LockFree
    /\ holder' = r
    /\ load' = [load EXCEPT ![r].at = "read"]
    /\ UNCHANGED <<fileVars, log, chatOf, acked, durable, cut, faults>>

\* Faulty variant: the deque is cut once it is longer than the limit plus one.
TailTooLong(tail, line, limit) ==
    IF limit # 0 /\ Len(tail) > limit THEN Tail(Append(tail, line)) ELSE Append(tail, line)

\* The deque of read_last_lines; limit 0 keeps every line.
TailPush(tail, line, limit) ==
    IF limit # 0 /\ Len(tail) >= limit THEN Tail(Append(tail, line)) ELSE Append(tail, line)

\* One getline.
ReadLine(r) ==
    /\ load[r].at = "read"
    /\ LET content == file[FileOf(load[r].chat)]
           pos == load[r].pos
       IN  \E e \in pos + 1..Len(content) :
             /\ LineEnd(content, pos, e)
             /\ LET line == SubSeq(content, pos + 1, e)
                IN  load' = [load EXCEPT ![r].pos = e,
                                         ![r].tail = TailPush(@, line, load[r].limit),
                                         ![r].seen = Append(@, line)]
    /\ UNCHANGED <<fileVars, holder, log, chatOf, acked, durable, cut, faults>>

\* The end of the file: the lines kept are the answer.
ReadEnd(r) ==
    /\ load[r].at = "read"
    /\ load[r].pos = Len(file[FileOf(load[r].chat)])
    /\ load' = [load EXCEPT ![r].at = "done"]
    /\ holder' = None
    /\ UNCHANGED <<fileVars, log, chatOf, acked, durable, cut, faults>>

LoadReturns(r) ==
    /\ load[r].at = "done"
    /\ load' = [load EXCEPT ![r] = NoLoad]
    /\ UNCHANGED <<fileVars, holder, log, chatOf, acked, durable, cut, faults>>

-----------------------------------------------------------------------------
(* The process dies, or the power fails and a file keeps what was synced    *)
(* and maybe more; the next start finds the files as they are.             *)

Crash ==
    /\ Fault
    /\ log' = [w \in Writers |-> NoLog]
    /\ load' = [r \in Readers |-> NoLoad]
    /\ holder' = None
    /\ \/ UNCHANGED <<fileVars, cut>>
       \/ \E len \in [Files -> 0..Pieces * Cardinality(Msgs)] :
            /\ \A f \in Files : len[f] \in synced[f]..Len(file[f])
            /\ file' = [f \in Files |-> SubSeq(file[f], 1, len[f])]
            /\ synced' = len
            /\ cut' = TRUE
    /\ UNCHANGED <<chatOf, acked, durable>>

-----------------------------------------------------------------------------
LogStep(w) == LockForLog(w) \/ WriteSome(w) \/ Sync(w) \/ Close(w)
LoadStep(r) == LockForLoad(r) \/ ReadLine(r) \/ ReadEnd(r) \/ LoadReturns(r)

Next ==
    \/ \E w \in Writers : (\E c \in Chats, m \in Msgs : Log(w, c, m)) \/ LogStep(w) \/ Fail(w)
    \/ \E r \in Readers : (\E c \in Chats, l \in Limits : Load(r, c, l)) \/ LoadStep(r)
    \/ Crash

Spec == Init /\ [][Next]_vars

\* Threads run, system calls return, and a mutex is handed to each waiter in
\* time: nobody is overtaken for ever.
FairSpec ==
    /\ Spec
    /\ \A w \in Writers : WF_vars(WriteSome(w) \/ Sync(w) \/ Close(w)) /\ SF_vars(LockForLog(w))
    /\ \A r \in Readers : WF_vars(ReadLine(r) \/ ReadEnd(r) \/ LoadReturns(r))
                          /\ SF_vars(LockForLoad(r))

-----------------------------------------------------------------------------
(* Properties.                                                             *)

\* The mutex is held by the call that is writing or reading, and by it alone;
\* nothing is on the disk that is not in the file.
LockHeld ==
    /\ \A w \in Writers : holder = w <=> log[w].at \in {"write", "sync", "close"}
    /\ \A r \in Readers : holder = r <=> load[r].at = "read"

HistoryInv == TypeOK /\ LockHeld /\ \A f \in Files : synced[f] <= Len(file[f])

\* The pieces of a record start after piece i of a file.
At(f, m, i) == i + Pieces <= Len(file[f]) /\ SubSeq(file[f], i + 1, i + Pieces) = Payload(m)

\* What was logged successfully stays whole, in the order of success, whatever
\* fails, crashes or is logged next; through a power loss too in durable mode.
AckedKept ==
    durable \/ ~cut =>
        \A f \in Files : \E start \in [DOMAIN acked[f] -> 0..Len(file[f])] :
            /\ \A i \in DOMAIN acked[f] : At(f, acked[f][i], start[i])
            /\ \A i, j \in DOMAIN acked[f] : i < j => start[i] < start[j]

\* Without a failure the two pieces of a record are side by side, or the writer
\* that holds the mutex is between them: calls that run at once never mix
\* their records.
CleanWithoutFaults ==
    faults = 0 =>
        \A f \in Files : \A i \in DOMAIN file[f] :
            file[f][i].k = 1 =>
                \/ i < Len(file[f]) /\ file[f][i + 1] = [file[f][i] EXCEPT !.k = 2]
                \/ \E w \in Writers : /\ holder = w /\ log[w].file = f
                                      /\ log[w].k = 1 /\ i = Len(file[f])

\* A load returns the last limit lines of its file, all of them when limit is
\* 0, although it never keeps more than that many.
TailIsSuffix ==
    \A r \in Readers :
        LET tail == load[r].tail
            seen == load[r].seen
            limit == load[r].limit
        IN  /\ Len(tail) = IF limit = 0 \/ Len(seen) < limit THEN Len(seen) ELSE limit
            /\ tail = SubSeq(seen, Len(seen) - Len(tail) + 1, Len(seen))

\* Every call of the history returns: no failure leaves the mutex locked.
CallsReturn ==
    /\ \A w \in Writers : log[w].at # "idle" ~> log[w].at = "idle"
    /\ \A r \in Readers : load[r].at # "idle" ~> load[r].at = "idle"

\* load_room_history "loads the messages of the room": of no other chat.
LoadsOwnChat ==
    \A r \in Readers : load[r].at = "done" =>
        \A i \in DOMAIN load[r].tail : \A j \in DOMAIN load[r].tail[i] :
            chatOf[load[r].tail[i][j].msg] = load[r].chat
=============================================================================
