----------------------------- MODULE MpLogging -----------------------------
(***************************************************************************)
(* The log of a chain run with multi-processing                            *)
(* (src/src/clev2er/tools/run_chain.py).  Each process that runs the chain *)
(* on a file hands its messages to a shared log_queue: a buffer and a      *)
(* feeder thread in the process, and one pipe.  A logger process takes     *)
(* them from the pipe and writes them to a temporary file, info.log.mp.    *)
(* When the processes have been joined the controller puts None in the     *)
(* queue to stop the logger, sorts the temporary file by file number,      *)
(* inserts it in the main log and removes it.  It does not wait for the    *)
(* logger.                                                                 *)
(*                                                                         *)
(* The processes of all chunks run concurrently here, which includes the   *)
(* order in which a run starts them chunk after chunk.  A message is one   *)
(* line; all lines have the same length.                                   *)
(***************************************************************************)
EXTENDS Integers, Sequences, FiniteSets

CONSTANTS
    NFiles,       \* number of L1b files
    NMsgs,        \* largest number of messages a file logs
    PipeCapacity  \* messages that fit in the pipe of log_queue

ASSUME SizesAssumption ==
    NFiles \in Nat \ {0} /\ NMsgs \in Nat /\ PipeCapacity \in Nat \ {0}

Files == 0..NFiles - 1
(* What is not a message: the end marker, and the NUL bytes of a hole in a *)
(* file, a line without the marker [fN].                                   *)
None == [file |-> -1, n |-> 0]
Hole == [file |-> 0, n |-> 0]

VARIABLES
    emitted,      \* emitted[f]: number of messages process f has logged
    child,        \* child[f]: "running", "exiting" (flushing its queue) or "ended"
    feeder,       \* feeder[f]: messages in the buffer of process f
    pipe,         \* messages in the pipe
    logger,       \* "starting", "waiting" (in queue.get) or "stopped"
    offset,       \* lines written by the logger: where its next line goes
    mpLog,        \* the lines of info.log.mp
    mpExists,     \* whether info.log.mp exists
    pc,           \* the controller
    joined,       \* number of processes joined
    parentFeeder, \* buffer of the controller's own end of the queue
    lines,        \* lines read by sort_file_by_number()
    mainLog,      \* lines inserted in the main log
    handled       \* history: handled[f]: messages of file f the logger has taken

vars == <<emitted, child, feeder, pipe, logger, offset, mpLog, mpExists, pc,
          joined, parentFeeder, lines, mainLog, handled>>
childVars == <<emitted, child, feeder>>
loggerVars == <<logger, offset, handled>>
parentVars == <<pc, joined, parentFeeder, lines, mainLog>>

Messages == [file : Files, n : 1..NMsgs]

Init ==
    /\ emitted = [f \in Files |-> 0]
    /\ child = [f \in Files |-> "running"]
    /\ feeder = [f \in Files |-> <<>>]
    /\ pipe = <<>>
    /\ logger = "starting" /\ offset = 0
    /\ mpLog = <<>> /\ mpExists = FALSE
    /\ pc = "join" /\ joined = 0
    /\ parentFeeder = <<>>
    /\ lines = <<>> /\ mainLog = <<>>
    /\ handled = [f \in Files |-> 0]
-----------------------------------------------------------------------------
(* The processes.                                                          *)

(* A message of an algorithm: QueueHandler.emit().                         *)
Log(f) ==
    /\ child[f] = "running" /\ emitted[f] < NMsgs
    /\ emitted' = [emitted EXCEPT ![f] = @ + 1]
    /\ feeder' = [feeder EXCEPT ![f] = Append(@, [file |-> f, n |-> emitted'[f]])]
    /\ UNCHANGED <<child, pipe, loggerVars, parentVars, mpLog, mpExists>>

(* The feeder thread; it blocks while the pipe is full.                    *)
Feed(f) ==
    /\ feeder[f] # <<>> /\ Len(pipe) < PipeCapacity
    /\ pipe' = Append(pipe, Head(feeder[f]))
    /\ feeder' = [feeder EXCEPT ![f] = Tail(@)]
    /\ UNCHANGED <<emitted, child, loggerVars, parentVars, mpLog, mpExists>>

(* run_chain_on_single_file() returns or raises: the process does not end  *)
(* before its feeder thread has written everything.                        *)
Exit(f) ==
    /\ child[f] = "running"
    /\ child' = [child EXCEPT ![f] = "exiting"]
    /\ UNCHANGED <<emitted, feeder, pipe, loggerVars, parentVars, mpLog, mpExists>>

End(f) ==
    /\ child[f] = "exiting" /\ feeder[f] = <<>>
    /\ child' = [child EXCEPT ![f] = "ended"]
    /\ UNCHANGED <<emitted, feeder, pipe, loggerVars, parentVars, mpLog, mpExists>>
-----------------------------------------------------------------------------
(* The logger process.                                                     *)

(* The logger process has started and opens its file with mode "w".        *)
OpenLog ==
    /\ logger = "starting"
    /\ logger' = "waiting"
    /\ mpExists' = TRUE
    /\ UNCHANGED <<childVars, pipe, offset, handled, parentVars, mpLog>>

(* The logger wrote `offset` lines to the file it opened with mode "w" and *)
(* goes on at that position, whatever the file holds by then.              *)
WriteAt(file, position, line) ==
    [i \in 1..position + 1 |->
        IF i = position + 1 THEN line
        ELSE IF i <= Len(file) THEN file[i] ELSE Hole]

HandleMessage ==
    /\ logger = "waiting" /\ pipe # <<>> /\ Head(pipe) # None
    /\ pipe' = Tail(pipe)
    /\ mpLog' = IF mpExists THEN WriteAt(mpLog, offset, Head(pipe)) ELSE mpLog
    /\ offset' = offset + 1
    /\ handled' = [handled EXCEPT ![Head(pipe).file] = @ + 1]
    /\ UNCHANGED <<childVars, logger, parentVars, mpExists>>

StopLogger ==
    /\ logger = "waiting" /\ pipe # <<>> /\ Head(pipe) = None
    /\ pipe' = Tail(pipe)
    /\ logger' = "stopped"
    /\ UNCHANGED <<childVars, offset, handled, parentVars, mpLog, mpExists>>
-----------------------------------------------------------------------------
(* The controller.                                                         *)

(* Mutant for WrittenBeforeStop: the queue is closed before the last       *)
(* process was joined.                                                     *)
PutNoneEarly ==
    /\ pc = "join" /\ joined >= NFiles - 1
    /\ parentFeeder' = <<None>>
    /\ pc' = "sort"
    /\ UNCHANGED <<childVars, pipe, loggerVars, mpLog, joined, lines, mainLog, mpExists>>

Join ==
    /\ pc = "join" /\ joined < NFiles /\ child[joined] = "ended"
    /\ joined' = joined + 1
    /\ UNCHANGED <<childVars, pipe, loggerVars, mpLog, pc, parentFeeder, lines,
                   mainLog, mpExists>>

(* Mutant for Shutdown: the end of the queue is not announced.             *)
PutNoneForgotten ==
    /\ pc = "join" /\ joined = NFiles
    /\ pc' = "sort"
    /\ UNCHANGED <<childVars, pipe, loggerVars, mpLog, joined, parentFeeder, lines,
                   mainLog, mpExists>>

(* log_queue.put(None), through the feeder thread of the controller.       *)
PutNone ==
    /\ pc = "join" /\ joined = NFiles
    /\ parentFeeder' = <<None>>
    /\ pc' = "sort"
    /\ UNCHANGED <<childVars, pipe, loggerVars, mpLog, joined, lines, mainLog, mpExists>>

FeedNone ==
    /\ parentFeeder # <<>> /\ Len(pipe) < PipeCapacity
    /\ pipe' = Append(pipe, None)
    /\ parentFeeder' = <<>>
    /\ UNCHANGED <<childVars, loggerVars, mpLog, pc, joined, lines, mainLog, mpExists>>

(* An exception that leaves run_chain() while files are processed.         *)
Raise ==
    /\ pc = "join" /\ joined < NFiles
    /\ pc' = "raised"
    /\ UNCHANGED <<childVars, pipe, loggerVars, mpLog, joined, parentFeeder, lines,
                   mainLog, mpExists>>

(* custom_key(): the number of the marker [fN], 0 for a line without one.  *)
Key(line) == line.file

(* Mutant for LinesInOrder: the newest line of a file first.               *)
UpToNewestFirst(ls, i) ==
    {j \in DOMAIN ls :
        Key(ls[j]) < Key(ls[i]) \/ (Key(ls[j]) = Key(ls[i]) /\ j >= i)}

(* sorted() is stable: line i comes after those with a smaller key, and    *)
(* after those with the same key that were before it.                      *)
UpTo(ls, i) ==
    {j \in DOMAIN ls :
        Key(ls[j]) < Key(ls[i]) \/ (Key(ls[j]) = Key(ls[i]) /\ j <= i)}
Rank(ls, i) == Cardinality(UpTo(ls, i))
SortedByKey(ls) ==
    [p \in DOMAIN ls |-> ls[CHOOSE i \in DOMAIN ls : Rank(ls, i) = p]]

(* open() raises if the logger has not created the file yet.               *)
SortRead ==
    /\ pc = "sort"
    /\ \/ mpExists /\ lines' = mpLog /\ pc' = "rewrite"
       \/ ~mpExists /\ pc' = "raised" /\ UNCHANGED lines
    /\ UNCHANGED <<childVars, pipe, loggerVars, mpLog, joined, parentFeeder, mainLog, mpExists>>

(* The file is truncated and written again.                                *)
SortWrite ==
    /\ pc = "rewrite"
    /\ mpLog' = SortedByKey(lines)
    /\ pc' = "merge"
    /\ UNCHANGED <<childVars, pipe, loggerVars, joined, parentFeeder, lines, mainLog, mpExists>>

Merge ==
    /\ pc = "merge"
    /\ mainLog' = mainLog \o mpLog
    /\ pc' = "remove"
    /\ UNCHANGED <<childVars, pipe, loggerVars, mpLog, joined, parentFeeder, lines, mpExists>>

RemoveMpLog ==
    /\ pc = "remove"
    /\ mpExists' = FALSE
    /\ pc' = "end"
    /\ UNCHANGED <<childVars, pipe, loggerVars, mpLog, joined, parentFeeder, lines, mainLog>>

Parent == Join \/ PutNone \/ SortRead \/ SortWrite \/ Merge \/ RemoveMpLog

Logger == OpenLog \/ HandleMessage \/ StopLogger

Next ==
    \/ \E f \in Files : Log(f) \/ Feed(f) \/ Exit(f) \/ End(f)
    \/ Logger \/ Parent \/ FeedNone \/ Raise

(* The operating system runs every process, and the chain on a file ends.  *)
Fairness ==
    /\ \A f \in Files : WF_vars(Feed(f)) /\ WF_vars(Exit(f)) /\ WF_vars(End(f))
    /\ WF_vars(Logger) /\ WF_vars(Parent) /\ WF_vars(FeedNone)

Spec == Init /\ [][Next]_vars /\ Fairness
-----------------------------------------------------------------------------
(* Properties.                                                             *)

(* The messages that have been logged.                                     *)
Logged == {m \in Messages : m.n <= emitted[m.file]}

(* The buffers hold what their owner put there, the pipe never holds more  *)
(* than fits, and info.log.mp no more lines than the logger has written.   *)
TypeOK ==
    /\ emitted \in [Files -> 0..NMsgs]
    /\ child \in [Files -> {"running", "exiting", "ended"}]
    /\ feeder \in [Files -> Seq(Messages)]
    /\ pipe \in Seq(Messages \cup {None}) /\ Len(pipe) <= PipeCapacity
    /\ logger \in {"starting", "waiting", "stopped"}
    /\ mpLog \in Seq(Messages \cup {Hole}) /\ mpExists \in BOOLEAN
    /\ offset \in Nat /\ Len(mpLog) <= offset
    /\ pc \in {"join", "sort", "rewrite", "merge", "remove", "end", "raised"}
    /\ joined \in 0..NFiles
    /\ parentFeeder \in {<<>>, <<None>>}
    /\ handled \in [Files -> 0..NMsgs]

(* The logger stops only after it has written every message that any       *)
(* process logged: join() returns when a process has flushed its queue,    *)
(* and None is queued after the last join().                               *)
WrittenBeforeStop ==
    logger = "stopped" => \A f \in Files : handled[f] = emitted[f]

(* A message passes through buffer, pipe and temporary file in the order   *)
(* in which its process logged it, whatever the other processes log, and   *)
(* sorting keeps that order: no line of a file is ever before an older one.*)
OrderKept ==
    \A ls \in {mpLog, lines, mainLog} : \A i, j \in DOMAIN ls :
        i < j /\ ls[i].file = ls[j].file /\ ls[i].n > 0 /\ ls[j].n > 0 => ls[i].n < ls[j].n

(* If the logger had written everything by the time the temporary file was *)
(* read, the main log holds every message once and nothing else, file      *)
(* after file in the order of each file, as documented.                    *)
CleanMerge ==
    pc = "end" /\ Logged \subseteq {lines[i] : i \in DOMAIN lines} =>
        /\ {mainLog[i] : i \in DOMAIN mainLog} = Logged
        /\ \A i, j \in DOMAIN mainLog : i < j =>
             LET a == mainLog[i]  b == mainLog[j]
             IN  a.file < b.file \/ (a.file = b.file /\ a.n < b.n)

(* No line overtakes an older one of its file, on its way to the logger or *)
(* in the merged log.                                                      *)
LinesInOrder == TypeOK /\ OrderKept /\ CleanMerge

(* Unless run_chain() is left by an exception, the run ends and the logger *)
(* process stops: no process waits on a full pipe or an empty one for ever.*)
Shutdown == <>(pc = "raised" \/ (pc = "end" /\ logger = "stopped"))
=============================================================================
