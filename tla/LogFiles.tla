------------------------------ MODULE LogFiles ------------------------------
(***************************************************************************)
(* The log files of a program: Logger objects of several threads, the      *)
(* LoggerBackendFiles they flush to, and the directory it shares with the  *)
(* backends before it and those of earlier runs of the program.            *)
(*                                                                         *)
(* A Logger asks the backend there is when it is constructed whether its   *)
(* level is logged, and flushes to the one there is when it is destroyed.  *)
(* Nothing protects g_loggerBackend: a program may replace it only while   *)
(* no thread is destroying a Logger.                                       *)
(*                                                                         *)
(* FlushMessageInternal() runs under m_mutex, but the program may be       *)
(* killed between any two of its calls, and the calls that touch the disk  *)
(* may fail.  A file is named after the moment it is opened, to a          *)
(* millisecond; the clock may stand still or be set back.                  *)
(***************************************************************************)
EXTENDS Calendar, Sequences, SequencesExt, FiniteSets

CONSTANTS
    Thread,
    Moment,        \* what the clock may show
    MaxFiles,      \* m_maxFilesInDir
    MaxMessages,   \* m_maxMessagesInFile
    MaxLogged,     \* bound: messages logged
    MaxFaults,     \* bound: failing calls, restarts and replacements of the backend
    Level,         \* the levels that are used, of messages and as m_maxLogLevel
    NoBackend,
    Nobody,
    NoFile

ASSUME LimitsAssumption ==
    /\ MaxFiles \in Nat \ {0}
    /\ MaxMessages \in Nat
    /\ MaxLogged \in Nat
    /\ MaxFaults \in Nat
    /\ Level \subseteq Nat

Name == {Printed(p) : p \in Moment}

ASSUME MomentAssumption == Moment \subseteq [seconds : Int, us : Nat]

ASSUME NobodyAssumption == Nobody \notin Thread /\ NoFile \notin Name /\ NoBackend \notin Level

VARIABLES
    now,       \* the clock
    dir,       \* the log files by name: the messages in each
    current,   \* m_currentFile
    failed,    \* the files a write to has failed: the stream stays in error until it is closed
    counter,   \* m_counter
    mutex,     \* m_mutex
    backend,   \* g_loggerBackend: its m_maxLogLevel
    level,     \* m_logLevel of each thread's Logger, while there is one
    pc,        \* where each thread is
    logged,    \* how many messages were logged, which numbers them
    message,   \* the message each thread flushes
    written,   \* history: the messages written, in this order
    unsorted,  \* history: the files opened with a name not after that of every other file
    dropped,   \* history: the messages of Loggers destroyed while there was no backend
    faults,
    swaps

logger == <<backend, level, logged, message, dropped, swaps>>

vars == <<now, dir, current, failed, counter, mutex, pc, written, unsorted, faults, logger>>

file == <<dir, current, failed, counter, written, unsorted>>

Files == DOMAIN dir

-----------------------------------------------------------------------------
Init ==
    /\ now \in Moment
    /\ dir = [f \in {} |-> << >>]
    /\ current = NoFile
    /\ failed = {}
    /\ counter = 0
    /\ mutex = Nobody
    /\ backend \in Level
    /\ level = [t \in Thread |-> 0]
    /\ pc = [t \in Thread |-> "idle"]
    /\ logged = 0
    /\ message = [t \in Thread |-> 0]
    /\ written = << >>
    /\ unsorted = {}
    /\ dropped = {}
    /\ faults = 0
    /\ swaps = 0

MayDisturb == faults + swaps < MaxFaults

Goto(t, label) == pc' = [pc EXCEPT ![t] = label]

LogEnabled(l) == backend # NoBackend /\ l <= backend

\* A Logger that is not enabled has no stream, and leaves no trace.
Construct(t) ==
    /\ pc[t] = "idle"
    /\ logged < MaxLogged
    /\ \E l \in Level : LogEnabled(l) /\ level' = [level EXCEPT ![t] = l]
    /\ logged' = logged + 1
    /\ message' = [message EXCEPT ![t] = logged + 1]
    /\ Goto(t, "open")
    /\ UNCHANGED <<now, file, mutex, backend, dropped, faults, swaps>>

\* ~Logger(): the message is formatted before the lock is taken.
\* Mutant: the level is asked for again.
FlushedIfEnabled(t) == LogEnabled(level[t])

Flushed(t) == backend # NoBackend

Destroy(t) ==
    /\ pc[t] = "open"
    /\ Goto(t, IF Flushed(t) THEN "flush" ELSE "idle")
    /\ dropped' = IF backend = NoBackend THEN dropped \cup {message[t]} ELSE dropped
    /\ level' = [level EXCEPT ![t] = 0]
    /\ UNCHANGED <<now, file, mutex, backend, logged, message, faults, swaps>>

\* SetLoggerBackend(): the old backend closes its file, the new one has opened none yet.
SetLoggerBackend ==
    /\ MayDisturb
    /\ \A t \in Thread : pc[t] \in {"idle", "open"}
    /\ backend' \in Level \cup {NoBackend}
    /\ current' = NoFile
    /\ failed' = failed \ {current}
    /\ counter' = 0
    /\ swaps' = swaps + 1
    /\ UNCHANGED <<now, dir, mutex, pc, level, logged, message, written, unsorted, dropped, faults>>

Lock(t) ==
    /\ pc[t] = "flush"
    /\ mutex = Nobody
    /\ mutex' = t
    /\ Goto(t, IF current = NoFile THEN "cleanup" ELSE "write")
    /\ UNCHANGED <<now, file, logger, faults>>

\* CleanupDir(): one round of the loop that removes all but the newest MaxFiles - 1 files.
\* Mutants: one more file stays, or one less.
TooManyByOne(n) == n > MaxFiles
TooManyEarly(n) == n > MaxFiles - 2

TooMany(n) == n > MaxFiles - 1

Removed(f) == [g \in Files \ {f} |-> dir[g]]

Oldest(f) == \A g \in Files \ {f} : Before(f, g)
Newest(f) == \A g \in Files \ {f} : Before(g, f)

\* Mutant: the list is sorted the other way round.
RemoveNewest(t) ==
    /\ pc[t] = "cleanup"
    /\ TooMany(Cardinality(Files))
    /\ \E f \in Files : Newest(f) /\ dir' = Removed(f)
    /\ UNCHANGED <<now, current, failed, counter, mutex, pc, logger, written, unsorted, faults>>

RemoveOldest(t) ==
    /\ pc[t] = "cleanup"
    /\ TooMany(Cardinality(Files))
    /\ \E f \in Files : Oldest(f) /\ dir' = Removed(f)
    /\ UNCHANGED <<now, current, failed, counter, mutex, pc, logger, written, unsorted, faults>>

\* The rest of OpenNextFile(): a file of that name is truncated.
OpenFile(t) ==
    /\ pc[t] = "cleanup"
    /\ ~TooMany(Cardinality(Files))
    /\ LET f == Printed(now) IN
          /\ dir' = [g \in Files \cup {f} |-> IF g = f THEN << >> ELSE dir[g]]
          /\ current' = f
          /\ unsorted' = IF \A g \in Files : Before(g, f) THEN unsorted ELSE unsorted \cup {f}
          /\ failed' = failed \ {f}
    /\ Goto(t, "write")
    /\ UNCHANGED <<now, counter, mutex, logger, written, faults>>

\* The file cannot be opened: the message is dropped.
OpenFails(t) ==
    /\ pc[t] = "cleanup"
    /\ ~TooMany(Cardinality(Files))
    /\ MayDisturb
    /\ faults' = faults + 1
    /\ Goto(t, "unlock")
    /\ UNCHANGED <<now, file, mutex, logger>>

\* ++m_counter > m_maxMessagesInFile closes the file.
Full(n) == n > MaxMessages

\* Mutant: the counter starts again, in the same file.
CountInSameFile ==
    IF Full(counter + 1) THEN counter' = 0 /\ UNCHANGED current
                         ELSE counter' = counter + 1 /\ UNCHANGED current

CountMessage ==
    IF Full(counter + 1) THEN counter' = 0 /\ current' = NoFile
                         ELSE counter' = counter + 1 /\ UNCHANGED current

WriteMessage(t) ==
    /\ pc[t] = "write"
    /\ current \notin failed
    /\ dir' = [dir EXCEPT ![current] = Append(@, message[t])]
    /\ written' = Append(written, message[t])
    /\ CountMessage
    /\ Goto(t, "unlock")
    /\ UNCHANGED <<now, failed, mutex, logger, unsorted, faults>>

\* A write fails, and every later one to the same file does: they count nonetheless.
WriteFails(t) ==
    /\ pc[t] = "write"
    /\ IF current \in failed THEN UNCHANGED faults
                             ELSE MayDisturb /\ faults' = faults + 1
    /\ failed' = failed \cup {current}
    /\ CountMessage
    /\ Goto(t, "unlock")
    /\ UNCHANGED <<now, dir, mutex, logger, written, unsorted>>

Unlock(t) ==
    /\ pc[t] = "unlock"
    /\ mutex' = Nobody
    /\ Goto(t, "idle")
    /\ UNCHANGED <<now, file, logger, faults>>

\* The clock moves on, or is set.
Tick ==
    /\ now' \in Moment \ {now}
    /\ UNCHANGED <<file, mutex, pc, logger, faults>>

\* The program ends, wherever its threads are, and starts with a new backend.
Restart ==
    /\ MayDisturb
    /\ faults' = faults + 1
    /\ current' = NoFile
    /\ failed' = {}
    /\ counter' = 0
    /\ mutex' = Nobody
    /\ backend' \in Level
    /\ level' = [t \in Thread |-> 0]
    /\ pc' = [t \in Thread |-> "idle"]
    /\ UNCHANGED <<now, dir, logged, message, written, unsorted, dropped, swaps>>

Step(t) ==
    \/ Construct(t) \/ Destroy(t) \/ Lock(t)
    \/ RemoveOldest(t) \/ OpenFile(t) \/ OpenFails(t)
    \/ WriteMessage(t) \/ WriteFails(t) \/ Unlock(t)

Next == (\E t \in Thread : Step(t)) \/ SetLoggerBackend \/ Tick \/ Restart

Spec == Init /\ [][Next]_vars

-----------------------------------------------------------------------------
TypeOK ==
    /\ now \in Moment
    /\ Files \subseteq Name /\ IsFiniteSet(Files)
    /\ dir \in [Files -> Seq(0 .. MaxLogged)]
    /\ current \in Files \cup {NoFile}
    /\ failed \subseteq Name
    /\ counter \in 0 .. MaxMessages
    /\ mutex \in Thread \cup {Nobody}
    /\ pc \in [Thread -> {"idle", "open", "flush", "cleanup", "write", "unlock"}]
    /\ logged \in 0 .. MaxLogged
    /\ message \in [Thread -> 0 .. MaxLogged]
    /\ written \in Seq(0 .. MaxLogged)
    /\ unsorted \subseteq Name
    /\ backend \in Level \cup {NoBackend}
    /\ level \in [Thread -> Level \cup {0}]
    /\ dropped \subseteq 0 .. MaxLogged
    /\ faults \in 0 .. MaxFaults
    /\ swaps \in 0 .. MaxFaults

\* The directory never holds more files than asked for, whatever fails and however often the
\* program is restarted (LoggerBackendFiles::CleanupDir, MaxFiles > 0).
FilesBounded == Cardinality(Files) <= MaxFiles

\* No file has more than one message above the limit (the counter is compared after it was
\* increased), with several threads logging and after files that failed.
FileBounded == \A f \in Files : Len(dir[f]) <= MaxMessages + 1

\* The files, read one after the other in the order of their names, hold the last messages
\* written, all of them and in the order they were written: no message is lost between two that
\* are kept.  It takes a clock that has moved on whenever a file is opened.
Nth(k) == CHOOSE f \in Files : Cardinality({g \in Files : g = f \/ Before(g, f)}) = k

SortedFiles == [k \in 1 .. Cardinality(Files) |-> Nth(k)]

Lines == FlattenSeq([i \in DOMAIN SortedFiles |-> dir[SortedFiles[i]]])

LastLinesKept == unsorted = {} => IsSuffix(Lines, written)

\* As long as nothing fails and no backend is replaced, the files hold at least as many of the
\* last messages as fit into all files but one.
EnoughKept ==
    unsorted = {} /\ faults = 0 /\ swaps = 0 =>
        Len(Lines) >= Len(written) \/ Len(Lines) >= (MaxFiles - 1) * (MaxMessages + 1)

\* As long as nothing fails, a message that was logged when its Logger was constructed is written,
\* once, whatever the level of the backend it is flushed to, unless there is none by then (Logger).
Pending(t) == pc[t] \in {"open", "flush", "cleanup", "write"}

Unwritten == {message[t] : t \in {u \in Thread : Pending(u)}}

NoneLost ==
    faults = 0 =>
        /\ Range(written) \cup Unwritten \cup dropped = 1 .. logged
        /\ IsInjective(written)
        /\ Range(written) \cap (Unwritten \cup dropped) = {}

-----------------------------------------------------------------------------
(* What the two properties of the files' contents rest on.                 *)

\* Each file holds what was written from its place on, up to the place of the next file; the
\* last one holds the last messages.
Follows(f, g) == Before(f, g) /\ ~\E h \in Files : Before(f, h) /\ Before(h, g)

Layout(place) ==
    /\ \A f \in Files :
          /\ place[f] + Len(dir[f]) <= Len(written)
          /\ \A i \in 1 .. Len(dir[f]) : dir[f][i] = written[place[f] + i]
          /\ Newest(f) => place[f] + Len(dir[f]) = Len(written)
    /\ \A f, g \in Files : Follows(f, g) => place[f] + Len(dir[f]) = place[g]

\* The open file is the newest.  As long as nothing fails all others are full, and a message is
\* gone only if there are enough of them.
Closed == Files \ {current}

Filled(place) ==
    /\ \A f \in Closed : Len(dir[f]) = MaxMessages + 1
    /\ current # NoFile => Len(dir[current]) = counter
    /\ \/ /\ \A f \in Files : Oldest(f) => place[f] = 0
          /\ Files = {} => written = << >>
       \/ Cardinality(Closed) >= MaxFiles - 1

Laid ==
    unsorted = {} =>
        /\ current # NoFile => Newest(current)
        /\ \E place \in [Files -> 0 .. Len(written)] :
              /\ Layout(place)
              /\ faults = 0 /\ swaps = 0 => Filled(place)

=============================================================================
