------------------------------ MODULE Loggers ------------------------------
(***************************************************************************)
(* boost_project/concurrency: three asynchronous loggers - logger.cpp (one *)
(* file), advanced_logger.cpp (a queue under a mutex, seven output         *)
(* strategies) and advanced_logger_lockfree.cpp (a bounded lock-free queue *)
(* and a counter of pending entries).  Threads log; a worker takes entries *)
(* from the queue and gives each to every strategy in turn; main joins the *)
(* threads and destroys the logger.  The program may be run again on the   *)
(* files of the last run.                                                  *)
(*                                                                         *)
(* Only the worker uses the strategies, so an entry going through all of   *)
(* them is one step; the network and the database may fail at any step.    *)
(***************************************************************************)
EXTENDS Integers, Sequences, FiniteSets, SequencesExt, Functions

CONSTANTS Loggers,       \* subset of {"simple", "advanced", "lockfree"}
          LogThreads,
          LevelOf, SizeOf,  \* of the i-th entry of a thread
          QueueCapacity,    \* of the lock-free queue
          MaxFileSize, MaxFiles,  \* of the rotating file
          MaxRuns, MaxDays, MaxOutages

VARIABLES logger, run, logQueue, logWorker, logThread, logMain, stopRequested, pendingCount,
          strategy, rotating, remote, accepted
logVars == <<logger, run, logQueue, logWorker, logThread, logMain, stopRequested, pendingCount,
             strategy, rotating, remote, accepted>>

(***************************************************************************)
(* The strategies and their levels (TRACE 0 .. FATAL 5), from the mains.   *)
(***************************************************************************)
write_to_file == [file |-> 0]
AdvancedStrategies == [file |-> 0, console |-> 3, udp |-> 4, tcp |-> 4, syslog |-> 2, postgres |-> 3]
LockFreeStrategies == [file |-> 0, console |-> 2, udp |-> 3]
Minimum(kind) ==
  CASE kind = "simple"   -> write_to_file
    [] kind = "advanced" -> AdvancedStrategies
    [] kind = "lockfree" -> LockFreeStrategies
RotatingMinimum == 1
should_output(level, minimum) == level >= minimum

Entry(p, i) == [run |-> run, thread |-> p, n |-> i, level |-> LevelOf[p][i], size |-> SizeOf[p][i]]

(***************************************************************************)
(* FileOutputStrategy with rotation: the file, and its backups .1, .2, ... *)
(***************************************************************************)
\* Renaming from the highest number down; what was .MaxFiles is overwritten.
\* MUTANT: the loop starts one short.
rotate_files_short(r) ==
  [r EXCEPT !.backups = <<r.current>> \o (IF Len(@) = MaxFiles - 1 THEN Front(@) ELSE @), !.current = <<>>, !.size = 0]
rotate_files(r) ==
  [r EXCEPT !.backups = <<r.current>> \o (IF Len(@) = MaxFiles THEN Front(@) ELSE @), !.current = <<>>, !.size = 0]
file_output(r, e) ==
  LET into == IF r.size + e.size > MaxFileSize THEN rotate_files(r) ELSE r
  IN IF should_output(e.level, RotatingMinimum)
     THEN [into EXCEPT !.current = Append(@, e), !.size = @ + e.size] ELSE r

(***************************************************************************)
(* Strategies that need a peer.  A peer is up or down; what is sent after  *)
(* it went down is lost, with or without an error.                         *)
(***************************************************************************)
Lost(s) == strategy[s]
Kept(s, e) == Append(strategy[s], e)

udp_outputs(e) == {<<Lost("udp"), remote>>, <<Kept("udp", e), remote>>}

\* What is sent on a dead connection is lost without an error, or send fails
\* (or kills the process: Killed); reconnect makes a new connection, or leaves the
\* socket at -1, after which output returns at once.
tcp_outputs(e) ==
  LET reconnect == [remote EXCEPT !.tcp = IF remote.up THEN "connected" ELSE "none"]
  IN CASE remote.tcp = "none" -> {<<Lost("tcp"), remote>>}
       [] remote.tcp = "connected" -> {<<Kept("tcp", e), remote>>}
       [] remote.tcp = "dead" -> {<<Lost("tcp"), remote>>, <<Lost("tcp"), reconnect>>}

\* A new day is a new table.  create_table_if_not_exists swallows its own
\* failure, so the name of the table is current whether it is there or not;
\* an insert that fails reconnects.
create_table_if_not_exists(rem) ==
  IF rem.db = "connected" THEN [rem EXCEPT !.tables = @ \cup {rem.day}] ELSE rem
Named == IF remote.table = remote.day THEN remote
         ELSE [create_table_if_not_exists(remote) EXCEPT !.table = remote.day]
InsertFails == remote.db = "dead" \/ (remote.db = "connected" /\ Named.table \notin Named.tables)
postgres_outputs(e) ==
  LET reconnect == [Named EXCEPT !.db = IF remote.up THEN "connected" ELSE "none"]
  IN IF remote.db = "none" THEN {<<Lost("postgres"), remote>>}
     ELSE IF InsertFails THEN {<<Lost("postgres"), reconnect>>}
     ELSE {<<Kept("postgres", e), Named>>}

file_outputs(e) == {<<Kept("file", e), remote>>}
console_outputs(e) == {<<Kept("console", e), remote>>}
syslog_outputs(e) == {<<Kept("syslog", e), remote>>}
lockfree_outputs(s, e) == IF s = "udp" THEN udp_outputs(e) ELSE {<<Kept(s, e), remote>>}
\* What strategy s may do with entry e.
Outputs(s, e) ==
  IF ~should_output(e.level, Minimum(logger)[s]) THEN {<<strategy[s], remote>>}
  ELSE IF logger = "lockfree" THEN lockfree_outputs(s, e)
  ELSE CASE s = "file" -> file_outputs(e)
         [] s = "console" -> console_outputs(e)
         [] s = "udp" -> udp_outputs(e)
         [] s = "tcp" -> tcp_outputs(e)
         [] s = "syslog" -> syslog_outputs(e)
         [] s = "postgres" -> postgres_outputs(e)
\* All strategies of the logger, one after the other.  Each of them has its
\* own part of "remote".
OutputAll(e) ==
  \E choice \in [DOMAIN strategy -> {1, 2}] :
    LET Result(s) == LET o == SetToSeq(Outputs(s, e)) IN o[IF choice[s] <= Len(o) THEN choice[s] ELSE 1]
    IN /\ \A s \in DOMAIN strategy : Cardinality(Outputs(s, e)) = 1 => choice[s] = 1
       /\ strategy' = [s \in DOMAIN strategy |-> Result(s)[1]]
       /\ remote' = IF logger # "advanced" THEN remote
                    ELSE [Result("postgres")[2] EXCEPT !.tcp = Result("tcp")[2].tcp]
       /\ rotating' = IF logger = "advanced" THEN file_output(rotating, e) ELSE rotating

(***************************************************************************)
(* A run of the program.                                                   *)
(***************************************************************************)
Fresh == /\ logQueue = <<>> /\ stopRequested = FALSE /\ pendingCount = 0
         /\ logWorker = [pc |-> "check", entry |-> "none"]
         /\ logThread = [p \in LogThreads |-> [pc |-> "log", i |-> 1]]
         /\ logMain = "join"
LoggerInit ==
  /\ logger \in Loggers /\ run = 1 /\ Fresh /\ accepted = <<>>
  /\ strategy = [s \in DOMAIN Minimum(logger) |-> <<>>]
  /\ rotating = [current |-> <<>>, size |-> 0, backups |-> <<>>]
  /\ remote = [up |-> TRUE, tcp |-> "connected", db |-> "connected", day |-> 1, table |-> 1, tables |-> {1},
               outages |-> 0]

\* The constructors of the strategies open the files to append, and connect.
Restart ==
  /\ logMain = "done" /\ run < MaxRuns /\ run' = run + 1
  /\ logQueue' = <<>> /\ stopRequested' = FALSE /\ pendingCount' = 0
  /\ logWorker' = [pc |-> "check", entry |-> "none"]
  /\ logThread' = [p \in LogThreads |-> [pc |-> "log", i |-> 1]]
  /\ logMain' = "join"
  /\ remote' = IF remote.up THEN [remote EXCEPT !.tcp = "connected", !.db = "connected", !.table = remote.day,
                                                !.tables = @ \cup {remote.day}]
               ELSE [remote EXCEPT !.tcp = "none", !.db = "none", !.table = 0]
  /\ UNCHANGED <<logger, strategy, rotating, accepted>>

\* queue_mutex_ is held by the worker between the predicate and the wait.
Unlocked == logWorker.pc # "holds"
ThreadAt(p, pc) == logThread[p].pc = pc
Queued(p, next) ==
  /\ ThreadAt(p, "log") /\ ~stopRequested
  /\ logQueue' = Append(logQueue, Entry(p, logThread[p].i))
  /\ accepted' = Append(accepted, Entry(p, logThread[p].i))
  /\ logThread' = [logThread EXCEPT ![p].pc = next]
  /\ UNCHANGED <<logger, run, logWorker, logMain, stopRequested, pendingCount, strategy, rotating, remote>>
\* log: the entry is queued under the lock, or pushed if there is room.
Logger_log(p) == logger = "simple" /\ Unlocked /\ Queued(p, "notify")
AdvancedLogger_log(p) == logger = "advanced" /\ Unlocked /\ Queued(p, "notify")
LockFree_log(p) == logger = "lockfree" /\ Len(logQueue) < QueueCapacity /\ Queued(p, "count")
Logged(p) == [logThread EXCEPT ![p] = [pc |-> IF @.i = Len(LevelOf[p]) THEN "end" ELSE "log",
                                       i |-> IF @.i = Len(LevelOf[p]) THEN @.i ELSE @.i + 1]]
Woken == [logWorker EXCEPT !.pc = IF @ = "asleep" THEN "check" ELSE @]
logNotify(p) ==
  /\ ThreadAt(p, "notify")
  /\ logThread' = Logged(p) /\ logWorker' = Woken
  /\ UNCHANGED <<logger, run, logQueue, logMain, stopRequested, pendingCount, strategy, rotating, remote, accepted>>
\* pending_count_++ comes after the push.
logCount(p) ==
  /\ ThreadAt(p, "count")
  /\ logThread' = Logged(p) /\ pendingCount' = pendingCount + 1
  /\ UNCHANGED <<logger, run, logQueue, logWorker, logMain, stopRequested, strategy, rotating, remote, accepted>>
\* The queue stays full for all the retries: the entry is dropped.
logDrop(p) ==
  /\ ThreadAt(p, "log") /\ logger = "lockfree" /\ Len(logQueue) = QueueCapacity
  /\ logThread' = Logged(p)
  /\ UNCHANGED <<logger, run, logQueue, logWorker, logMain, stopRequested, pendingCount, strategy, rotating, remote, accepted>>

(***************************************************************************)
(* The workers.                                                            *)
(***************************************************************************)
Take == /\ logWorker' = [pc |-> "output", entry |-> Head(logQueue)]
        /\ logQueue' = Tail(logQueue)
WaitOrTake ==
  /\ \/ /\ logWorker.pc = "check"
        /\ IF logQueue # <<>> THEN Take
           ELSE /\ logWorker' = [logWorker EXCEPT !.pc = IF stopRequested THEN "done" ELSE "holds"]
                /\ UNCHANGED logQueue
     \/ /\ logWorker.pc = "holds"
        /\ logWorker' = [logWorker EXCEPT !.pc = "asleep"] /\ UNCHANGED logQueue
  /\ UNCHANGED <<logger, run, logThread, logMain, stopRequested, pendingCount, strategy, rotating, remote, accepted>>
Logger_worker == logger = "simple" /\ WaitOrTake
worker_thread == logger = "advanced" /\ WaitOrTake
lockfree_worker ==
  /\ logger = "lockfree"
  /\ \/ /\ logWorker.pc = "check"
        /\ IF logQueue # <<>> THEN Take
           ELSE logWorker' = [logWorker EXCEPT !.pc = "empty"] /\ UNCHANGED logQueue
     \/ /\ logWorker.pc = "empty"
        /\ logWorker' = [logWorker EXCEPT !.pc = IF stopRequested /\ pendingCount = 0 THEN "done" ELSE "check"]
        /\ UNCHANGED logQueue
  /\ UNCHANGED <<logger, run, logThread, logMain, stopRequested, pendingCount, strategy, rotating, remote, accepted>>
writeEntry ==
  /\ logWorker.pc = "output"
  /\ OutputAll(logWorker.entry)
  /\ logWorker' = [pc |-> IF logger = "lockfree" THEN "count" ELSE "check", entry |-> "none"]
  /\ UNCHANGED <<logger, run, logQueue, logThread, logMain, stopRequested, pendingCount, accepted>>
\* The process ends in the middle of the strategies of an entry.  SIGPIPE is at
\* its default and send has no MSG_NOSIGNAL: a second send to a peer that has
\* gone kills it, with file and console written.  And PostgreSQL's reconnect
\* destroys the connection before the transaction on it, which is undefined;
\* that strategy is the last.
Killed ==
  /\ logWorker.pc = "output" /\ logger = "advanced"
  /\ LET e == logWorker.entry
         Admits(s) == should_output(e.level, AdvancedStrategies[s])
         Written(done) == strategy' = [s \in DOMAIN strategy |->
                            IF s \in done /\ Admits(s) THEN Kept(s, e) ELSE strategy[s]]
     IN \/ /\ Admits("tcp") /\ remote.tcp = "dead"
           /\ Written({"file", "console"}) /\ UNCHANGED rotating
        \/ /\ Admits("postgres") /\ InsertFails
           /\ Written({"file", "console", "syslog"}) /\ rotating' = file_output(rotating, e)
  /\ logWorker' = [pc |-> "killed", entry |-> "none"]
  /\ logThread' = [p \in LogThreads |-> [logThread[p] EXCEPT !.pc = "killed"]]
  /\ logMain' = "killed" /\ logQueue' = <<>>
  /\ UNCHANGED <<logger, run, stopRequested, pendingCount, remote, accepted>>
countDown ==
  /\ logWorker.pc = "count"
  /\ pendingCount' = pendingCount - 1
  /\ logWorker' = [logWorker EXCEPT !.pc = "check"]
  /\ UNCHANGED <<logger, run, logQueue, logThread, logMain, stopRequested, strategy, rotating, remote, accepted>>

(***************************************************************************)
(* main, and the destructor of the logger.                                 *)
(***************************************************************************)
MainGoes(from, to) == logMain = from /\ logMain' = to
joinThreads ==
  /\ MainGoes("join", IF logger = "lockfree" THEN "wait" ELSE "stop")
  /\ \A p \in LogThreads : ThreadAt(p, "end")
  /\ UNCHANGED <<logger, run, logQueue, logWorker, logThread, stopRequested, pendingCount, strategy, rotating, remote, accepted>>
wait_for_completion ==
  /\ MainGoes("wait", "stop") /\ pendingCount <= 0
  /\ UNCHANGED <<logger, run, logQueue, logWorker, logThread, stopRequested, pendingCount, strategy, rotating, remote, accepted>>
StopThen(next) ==
  /\ MainGoes("stop", next) /\ stopRequested' = TRUE
  /\ UNCHANGED <<logger, run, logQueue, logWorker, logThread, pendingCount, strategy, rotating, remote, accepted>>
Logger_stop == logger = "simple" /\ Unlocked /\ StopThen("notify")
\* MUTANT: stop_requested_ is set without the lock.
AdvancedLogger_stop_unlocked == logger = "advanced" /\ StopThen("notify")
AdvancedLogger_stop == logger = "advanced" /\ Unlocked /\ StopThen("notify")
LockFree_stop == logger = "lockfree" /\ StopThen("joinWorker")
stopNotify ==
  /\ MainGoes("notify", "joinWorker") /\ logWorker' = Woken
  /\ UNCHANGED <<logger, run, logQueue, logThread, stopRequested, pendingCount, strategy, rotating, remote, accepted>>
joinWorker ==
  /\ MainGoes("joinWorker", "done") /\ logWorker.pc = "done"
  /\ UNCHANGED <<logger, run, logQueue, logWorker, logThread, stopRequested, pendingCount, strategy, rotating, remote, accepted>>

(***************************************************************************)
(* The peers, and the date.                                                *)
(***************************************************************************)
Outage ==
  /\ logger = "advanced" /\ remote.up /\ remote.outages < MaxOutages
  /\ remote' = [remote EXCEPT !.up = FALSE, !.outages = @ + 1,
                              !.tcp = IF @ = "connected" THEN "dead" ELSE @,
                              !.db = IF @ = "connected" THEN "dead" ELSE @]
  /\ UNCHANGED <<logger, run, logQueue, logWorker, logThread, logMain, stopRequested, pendingCount, strategy, rotating, accepted>>
Repaired ==
  /\ ~remote.up /\ remote' = [remote EXCEPT !.up = TRUE]
  /\ UNCHANGED <<logger, run, logQueue, logWorker, logThread, logMain, stopRequested, pendingCount, strategy, rotating, accepted>>
Midnight ==
  /\ logger = "advanced" /\ remote.day < MaxDays
  /\ remote' = [remote EXCEPT !.day = @ + 1]
  /\ UNCHANGED <<logger, run, logQueue, logWorker, logThread, logMain, stopRequested, pendingCount, strategy, rotating, accepted>>

WorkerStep == Logger_worker \/ worker_thread \/ lockfree_worker \/ writeEntry \/ Killed \/ countDown
ThreadStep(p) == Logger_log(p) \/ AdvancedLogger_log(p) \/ LockFree_log(p) \/ logNotify(p) \/ logCount(p) \/ logDrop(p)
LogMainStep == joinThreads \/ wait_for_completion \/ Logger_stop \/ AdvancedLogger_stop \/ LockFree_stop \/ stopNotify \/ joinWorker
LoggerNext == \/ WorkerStep \/ LogMainStep \/ \E p \in LogThreads : ThreadStep(p)
              \/ Restart \/ Outage \/ Repaired \/ Midnight
LoggerFairness == /\ WF_logVars(WorkerStep) /\ WF_logVars(LogMainStep)
                  /\ \A p \in LogThreads : WF_logVars(ThreadStep(p))
LoggerSpec == LoggerInit /\ [][LoggerNext]_logVars /\ LoggerFairness

(***************************************************************************)
(* Properties.                                                             *)
(***************************************************************************)
InHand == IF logWorker.pc = "output" THEN <<logWorker.entry>> ELSE <<>>
Admitted(es, minimum) == SelectSeq(es, LAMBDA e : e.level >= minimum)

\* Nothing is lost, repeated or reordered on the way to the local strategies:
\* what a file, the console or syslog holds, with what is still on its way,
\* is every accepted entry of its level, in the order of acceptance.  When
\* wait_for_completion or the destructor returns, nothing is on its way.  A
\* process killed in output() (by SIGPIPE from the TCP strategy, or in PostgreSQL's
\* reconnect) has written a beginning of them: the queue dies with it.
AcceptedIsWritten ==
  /\ \A s \in DOMAIN strategy \ {"udp", "tcp", "postgres"} :
       LET all == Admitted(accepted, Minimum(logger)[s])
       IN IF logMain = "killed" THEN IsPrefix(strategy[s], all)
          ELSE strategy[s] \o Admitted(InHand \o logQueue, Minimum(logger)[s]) = all
  /\ logMain \in {"done"} \/ (logger = "lockfree" /\ logMain \in {"stop", "joinWorker"}) => InHand \o logQueue = <<>>

\* The rotating file and its backups together are the newest entries of its
\* level, oldest backup first, over restarts too; a file above the limit
\* holds a single entry (it comes after TCP, so a process killed there leaves it
\* one entry behind the other file).
RotationKeepsNewest == logger = "advanced" /\ logMain # "killed" =>
  LET kept == FlattenSeq(Reverse(rotating.backups)) \o rotating.current
      all == Admitted(strategy.file, RotatingMinimum)
      SizeSum(f) == FoldSeq(LAMBDA e, sum : e.size + sum, 0, f)
      full == Len(rotating.backups) = MaxFiles
  IN /\ IsSuffix(kept, all) /\ (~full => kept = all)
     /\ \A f \in ToSet(rotating.backups) \cup {rotating.current} : SizeSum(f) > MaxFileSize => Len(f) = 1

\* So the files hold the accepted entries, and the rotating ones keep the newest.
LogIsComplete == AcceptedIsWritten /\ RotationKeepsNewest
=============================================================================
