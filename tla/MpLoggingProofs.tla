-------------------------- MODULE MpLoggingProofs --------------------------
(***************************************************************************)
(* Proofs about MpLogging for any number of files and messages and any     *)
(* capacity of the pipe.                                                   *)
(***************************************************************************)
EXTENDS MpLogging, FiniteSetTheorems, TLAPS

-----------------------------------------------------------------------------
(* The inductive invariant of the queue.                                   *)

(* Types of what is no log file.                                           *)
QueueTypes ==
    /\ emitted \in [Files -> 0..NMsgs] /\ handled \in [Files -> 0..NMsgs]
    /\ child \in [Files -> {"running", "exiting", "ended"}]
    /\ feeder \in [Files -> Seq(Messages)]
    /\ pipe \in Seq(Messages \cup {None}) /\ Len(pipe) <= PipeCapacity
    /\ logger \in {"starting", "waiting", "stopped"}
    /\ pc \in {"join", "sort", "rewrite", "merge", "remove", "end", "raised"}
    /\ joined \in 0..NFiles
    /\ parentFeeder \in {<<>>, <<None>>}

(* The messages of file f that have left its process.                      *)
Sent(f) == emitted[f] - Len(feeder[f])

(* The buffer of a process has its newest messages, in order.              *)
Buffered ==
    \A f \in Files : /\ Len(feeder[f]) <= emitted[f]
                     /\ \A k \in 1..Len(feeder[f]) :
                          feeder[f][k] = [file |-> f, n |-> Sent(f) + k]

(* The pipe has what was sent and not yet taken by the logger, each        *)
(* message once, and those of a file in order.                             *)
Piped ==
    /\ \A f \in Files : /\ handled[f] <= Sent(f)
                        /\ \A n \in handled[f] + 1..Sent(f) :
                             \E i \in 1..Len(pipe) : pipe[i] = [file |-> f, n |-> n]
    /\ \A i \in 1..Len(pipe) : pipe[i] # None =>
         handled[pipe[i].file] < pipe[i].n /\ pipe[i].n <= Sent(pipe[i].file)
    /\ \A i, j \in 1..Len(pipe) :
         i < j /\ pipe[i] # None /\ pipe[j] # None /\ pipe[i].file = pipe[j].file =>
            pipe[i].n < pipe[j].n

(* A process that has been joined has nothing left to send.                *)
Joined ==
    /\ \A f \in Files : child[f] = "ended" => feeder[f] = <<>>
    /\ \A f \in Files : f < joined => child[f] = "ended"
    /\ pc \notin {"join", "raised"} => joined = NFiles
    /\ parentFeeder # <<>> => joined = NFiles
    /\ pc = "join" => /\ parentFeeder = <<>> /\ logger # "stopped"
                      /\ \A i \in 1..Len(pipe) : pipe[i] # None

(* None is the last in the pipe, and there is only one.                    *)
NoneLast ==
    /\ \A i \in 1..Len(pipe) : pipe[i] = None =>
         i = Len(pipe) /\ joined = NFiles /\ parentFeeder = <<>> /\ logger # "stopped"
    /\ logger = "stopped" => joined = NFiles /\ pipe = <<>> /\ parentFeeder = <<>>

QInv == QueueTypes /\ Buffered /\ Piped /\ Joined /\ NoneLast
-----------------------------------------------------------------------------
(* The inductive invariant of the logs.                                    *)

(* A line that is a message is one the logger has taken.                   *)
Taken(ls) == \A i \in 1..Len(ls) : ls[i] # Hole => ls[i].n <= handled[ls[i].file]

Ordered(ls) ==
    \A i, j \in 1..Len(ls) :
       i < j /\ ls[i].file = ls[j].file /\ ls[i].n > 0 /\ ls[j].n > 0 => ls[i].n < ls[j].n

(* Before the file is written again it has no holes.                       *)
Filed ==
    /\ mpLog \in Seq(Messages \cup {Hole}) /\ mpExists \in BOOLEAN
    /\ offset \in Nat /\ Len(mpLog) <= offset
    /\ lines \in Seq(Messages) /\ Len(lines) <= offset
    /\ mainLog \in Seq(Messages \cup {Hole})
    /\ pc \in {"join", "sort"} => /\ mpLog \in Seq(Messages) /\ Len(mpLog) = offset
                                  /\ mpExists <=> logger # "starting"
    /\ pc \notin {"remove", "end"} => mainLog = <<>>
    /\ offset > 0 => logger # "starting"

(* When everything had been written by then, nothing is written after it.  *)
AllRead == Logged \subseteq {lines[i] : i \in DOMAIN lines}

Merged ==
    /\ pc = "merge" /\ AllRead => mpLog = SortedByKey(lines)
    /\ pc \in {"remove", "end"} /\ AllRead => mainLog = SortedByKey(lines)

LInv ==
    /\ QInv /\ Filed /\ Merged
    /\ Taken(mpLog) /\ Taken(lines) /\ Taken(mainLog)
    /\ Ordered(mpLog) /\ Ordered(lines) /\ Ordered(mainLog)
-----------------------------------------------------------------------------
(* Messages and sequences.                                                 *)

LEMMA MessageFacts ==
    /\ \A m \in Messages : /\ m.file \in Files /\ m.n \in 1..NMsgs /\ m.n \in Nat \ {0}
                           /\ m = [file |-> m.file, n |-> m.n] /\ m # None /\ m # Hole
    /\ \A f \in Files, n \in 1..NMsgs : [file |-> f, n |-> n] \in Messages
    /\ Files \subseteq Nat /\ NMsgs \in Nat /\ NFiles \in Nat \ {0}
    /\ Hole.n = 0 /\ Hole.file = 0 /\ None \notin Messages
<1>1. Files \subseteq Nat /\ NMsgs \in Nat /\ NFiles \in Nat \ {0}
  BY SizesAssumption DEF Files
<1>2. \A m \in Messages : /\ m.file \in Files /\ m.n \in 1..NMsgs
                         /\ m = [file |-> m.file, n |-> m.n]
  BY DEF Messages
<1>3. Hole.n = 0 /\ Hole.file = 0 /\ None.file = -1
  BY DEF Hole, None
<1>4. \A m \in Messages : m.n \in Nat \ {0} /\ m # None /\ m # Hole
  BY <1>1, <1>2, <1>3
<1> QED
  BY <1>1, <1>2, <1>3, <1>4 DEF Messages

LEMMA AppendFacts ==
    ASSUME NEW T, NEW s \in Seq(T), NEW x \in T
    PROVE  /\ Append(s, x) \in Seq(T) /\ Len(Append(s, x)) = Len(s) + 1
           /\ \A i \in 1..Len(s) : Append(s, x)[i] = s[i]
           /\ Append(s, x)[Len(s) + 1] = x
  OBVIOUS

LEMMA TailFacts ==
    ASSUME NEW T, NEW s \in Seq(T), s # <<>>
    PROVE  /\ Len(s) \in Nat \ {0} /\ Tail(s) \in Seq(T) /\ Len(Tail(s)) = Len(s) - 1
           /\ \A i \in 1..Len(s) - 1 : Tail(s)[i] = s[i + 1]
           /\ Head(s) = s[1] /\ s[1] \in T
  OBVIOUS
-----------------------------------------------------------------------------
(* The queue.                                                              *)

LEMMA LogQInv ==
    ASSUME QInv, NEW f \in Files, Log(f)
    PROVE  QInv'
<1> DEFINE m == [file |-> f, n |-> emitted[f] + 1]
<1>0. QueueTypes /\ Buffered /\ Piped /\ Joined /\ NoneLast
  BY DEF QInv
<1>1. /\ child[f] = "running" /\ emitted[f] < NMsgs
      /\ emitted' = [emitted EXCEPT ![f] = @ + 1]
      /\ feeder' = [feeder EXCEPT ![f] = Append(@, m)]
      /\ UNCHANGED <<child, pipe, logger, handled, pc, joined, parentFeeder>>
  BY <1>0 DEF Log, loggerVars, parentVars, QueueTypes
<1>2. /\ emitted[f] \in Nat /\ emitted[f] + 1 \in 1..NMsgs /\ m \in Messages
      /\ feeder[f] \in Seq(Messages) /\ Len(feeder[f]) \in Nat
  <2>1. emitted[f] \in 0..NMsgs /\ NMsgs \in Nat /\ feeder[f] \in Seq(Messages)
    BY <1>0, MessageFacts DEF QueueTypes
  <2>2. emitted[f] \in Nat /\ emitted[f] + 1 \in 1..NMsgs /\ Len(feeder[f]) \in Nat
    BY <1>1, <2>1
  <2> QED
    BY <2>1, <2>2, MessageFacts
<1>3. /\ feeder'[f] \in Seq(Messages) /\ Len(feeder'[f]) = Len(feeder[f]) + 1
      /\ \A i \in 1..Len(feeder[f]) : feeder'[f][i] = feeder[f][i]
      /\ feeder'[f][Len(feeder[f]) + 1] = m
  BY <1>0, <1>1, <1>2, AppendFacts DEF QueueTypes
<1>4. /\ emitted'[f] = emitted[f] + 1
      /\ \A g \in Files : g # f => feeder'[g] = feeder[g] /\ emitted'[g] = emitted[g]
  BY <1>0, <1>1 DEF QueueTypes
<1> HIDE DEF m
<1>5. QueueTypes'
  <2>1. emitted[f] + 1 \in 0..NMsgs
    BY <1>2, MessageFacts
  <2>2. emitted' \in [Files -> 0..NMsgs] /\ feeder' \in [Files -> Seq(Messages)]
    BY <1>0, <1>1, <1>3, <2>1 DEF QueueTypes
  <2> QED
    BY <1>0, <1>1, <2>2 DEF QueueTypes
<1>6. \A g \in Files : Sent(g)' = Sent(g)
  <2>1. Sent(f)' = Sent(f)
    BY <1>2, <1>3, <1>4, SMTT(30) DEF Sent
  <2> QED
    BY <1>4, <2>1 DEF Sent
<1>7. Buffered'
  <2>1. ASSUME NEW g \in Files, NEW k \in 1..Len(feeder'[g])
        PROVE  feeder'[g][k] = [file |-> g, n |-> Sent(g)' + k]
    <3>1. CASE g # f
      BY <1>0, <1>4, <1>6, <3>1 DEF Buffered
    <3>2. CASE g = f /\ k <= Len(feeder[f])
      BY <1>0, <1>2, <1>3, <1>6, <3>2 DEF Buffered
    <3>3. CASE g = f /\ k = Len(feeder[f]) + 1
      BY <1>2, <1>3, <1>6, <3>3 DEF Sent, m
    <3> QED
      BY <1>2, <1>3, <3>1, <3>2, <3>3
  <2>2. \A g \in Files : Len(feeder'[g]) <= emitted'[g]
    BY <1>0, <1>2, <1>3, <1>4 DEF Buffered
  <2> QED
    BY <2>1, <2>2 DEF Buffered
<1>8. Piped'
  <2>1. \A i \in 1..Len(pipe) : pipe[i] # None => pipe[i].file \in Files
    BY <1>0, MessageFacts DEF QueueTypes
  <2> QED
    BY <1>0, <1>1, <1>6, <2>1 DEF Piped
<1>9. Joined' /\ NoneLast'
  BY <1>0, <1>1, <1>4 DEF Joined, NoneLast
<1> QED
  BY <1>5, <1>7, <1>8, <1>9 DEF QInv

LEMMA FeedQInv ==
    ASSUME QInv, NEW f \in Files, Feed(f)
    PROVE  QInv'
<1> DEFINE m == Head(feeder[f])
<1>0. QueueTypes /\ Buffered /\ Piped /\ Joined /\ NoneLast
  BY DEF QInv
<1>1. /\ feeder[f] # <<>> /\ Len(pipe) < PipeCapacity
      /\ pipe' = Append(pipe, m)
      /\ feeder' = [feeder EXCEPT ![f] = Tail(@)]
      /\ UNCHANGED <<emitted, child, logger, handled, pc, joined, parentFeeder>>
  BY DEF Feed, loggerVars, parentVars
<1>2. /\ feeder[f] \in Seq(Messages) /\ Len(feeder[f]) \in Nat \ {0}
      /\ feeder'[f] \in Seq(Messages) /\ Len(feeder'[f]) = Len(feeder[f]) - 1
      /\ \A i \in 1..Len(feeder[f]) - 1 : feeder'[f][i] = feeder[f][i + 1]
      /\ m = feeder[f][1] /\ m \in Messages
  <2>1. feeder[f] \in Seq(Messages) /\ feeder'[f] = Tail(feeder[f])
    BY <1>0, <1>1 DEF QueueTypes
  <2> QED
    BY <1>1, <2>1, TailFacts
<1> HIDE DEF m
<1>3. /\ emitted[f] \in Nat /\ handled[f] \in Nat /\ Len(feeder[f]) <= emitted[f]
      /\ m = [file |-> f, n |-> Sent(f) + 1] /\ Sent(f) \in Nat
      /\ m.file = f /\ m.n = Sent(f) + 1
  <2>1. emitted[f] \in 0..NMsgs /\ handled[f] \in 0..NMsgs /\ NMsgs \in Nat
    BY <1>0, MessageFacts DEF QueueTypes
  <2>2. 1 \in 1..Len(feeder[f]) /\ Len(feeder[f]) <= emitted[f]
    BY <1>0, <1>2 DEF Buffered
  <2>3. feeder[f][1] = [file |-> f, n |-> Sent(f) + 1]
    BY <1>0, <2>2 DEF Buffered
  <2>4. Sent(f) \in Nat
    BY <1>2, <2>1, <2>2 DEF Sent
  <2> QED
    BY <1>2, <2>1, <2>2, <2>3, <2>4
<1>4. \A g \in Files : g # f => feeder'[g] = feeder[g]
  BY <1>0, <1>1 DEF QueueTypes
<1>5. Sent(f)' = Sent(f) + 1 /\ \A g \in Files : g # f => Sent(g)' = Sent(g)
  BY <1>1, <1>2, <1>3, <1>4 DEF Sent
<1>6. /\ pipe' \in Seq(Messages \cup {None}) /\ Len(pipe') = Len(pipe) + 1 /\ Len(pipe) \in Nat
      /\ \A i \in 1..Len(pipe) : pipe'[i] = pipe[i]
      /\ pipe'[Len(pipe) + 1] = m
  <2>1. pipe \in Seq(Messages \cup {None}) /\ m \in Messages \cup {None}
    BY <1>0, <1>2 DEF QueueTypes
  <2> QED
    BY <1>1, <2>1, AppendFacts
<1>7. QueueTypes'
  BY <1>0, <1>1, <1>2, <1>6, SizesAssumption DEF QueueTypes
<1>8. child[f] # "ended" /\ joined # NFiles
  <2>1. child[f] # "ended"
    BY <1>0, <1>1 DEF Joined
  <2>2. f < NFiles
    BY SizesAssumption DEF Files
  <2> QED
    BY <1>0, <2>1, <2>2 DEF Joined
<1>9. \A i \in 1..Len(pipe) : pipe[i] # None
  BY <1>0, <1>8 DEF NoneLast
<1>10. Buffered'
  <2>1. ASSUME NEW g \in Files, NEW k \in 1..Len(feeder'[g])
        PROVE  feeder'[g][k] = [file |-> g, n |-> Sent(g)' + k]
    <3>1. CASE g # f
      BY <1>0, <1>4, <1>5, <3>1 DEF Buffered
    <3>2. CASE g = f
      <4>1. k \in 1..Len(feeder[f]) - 1 /\ k + 1 \in 1..Len(feeder[f]) /\ k \in Nat
        BY <1>2, <3>2
      <4>2. feeder[f][k + 1] = [file |-> f, n |-> Sent(f) + (k + 1)]
        BY <1>0, <4>1 DEF Buffered
      <4> QED
        BY <1>2, <1>3, <1>5, <3>2, <4>1, <4>2
    <3> QED
      BY <3>1, <3>2
  <2>2. \A g \in Files : Len(feeder'[g]) <= emitted'[g]
    BY <1>0, <1>1, <1>2, <1>3, <1>4 DEF Buffered
  <2> QED
    BY <2>1, <2>2 DEF Buffered
<1>11. Piped'
  <2>0. \A i \in 1..Len(pipe) : pipe[i] \in Messages /\ pipe[i].file \in Files
                               /\ pipe[i].n \in Nat
    BY <1>0, <1>9, MessageFacts DEF QueueTypes
  <2>1. ASSUME NEW g \in Files
        PROVE  /\ handled'[g] <= Sent(g)'
               /\ \A n \in handled'[g] + 1..Sent(g)' :
                    \E i \in 1..Len(pipe') : pipe'[i] = [file |-> g, n |-> n]
    <3>1. CASE g # f
      BY <1>0, <1>1, <1>5, <1>6, <3>1 DEF Piped
    <3>2. CASE g = f
      <4>1. handled'[f] <= Sent(f)'
        BY <1>0, <1>1, <1>3, <1>5 DEF Piped
      <4>2. ASSUME NEW n \in handled[f] + 1..Sent(f)'
            PROVE  \E i \in 1..Len(pipe') : pipe'[i] = [file |-> f, n |-> n]
        <5>1. CASE n \in handled[f] + 1..Sent(f)
          BY <1>0, <1>6, <5>1 DEF Piped
        <5>2. CASE n = Sent(f) + 1
          BY <1>3, <1>6, <5>2
        <5> QED
          BY <1>3, <1>5, <5>1, <5>2
      <4> QED
        BY <1>1, <3>2, <4>1, <4>2
    <3> QED
      BY <3>1, <3>2
  <2>2. ASSUME NEW i \in 1..Len(pipe')
        PROVE  \E g \in Files : /\ g = pipe'[i].file
                                /\ handled'[g] < pipe'[i].n /\ pipe'[i].n <= Sent(g)'
    <3>1. CASE i \in 1..Len(pipe)
      <4>1. /\ handled[pipe[i].file] < pipe[i].n /\ pipe[i].n <= Sent(pipe[i].file)
            /\ pipe[i].file \in Files /\ pipe[i].n \in Nat
        BY <1>0, <1>9, <2>0, <3>1 DEF Piped
      <4>2. CASE pipe[i].file = f
        <5>1. pipe[i].n <= Sent(f) + 1
          BY <1>3, <4>1, <4>2
        <5> QED
          BY <1>1, <1>5, <1>6, <3>1, <4>1, <4>2, <5>1
      <4>3. CASE pipe[i].file # f
        BY <1>1, <1>5, <1>6, <3>1, <4>1, <4>3
      <4> QED
        BY <4>2, <4>3
    <3>2. CASE i = Len(pipe) + 1
      <4>1. handled[f] <= Sent(f)
        BY <1>0 DEF Piped
      <4> QED
        BY <1>1, <1>3, <1>5, <1>6, <3>2, <4>1
    <3> QED
      BY <1>6, <3>1, <3>2
  <2>3. ASSUME NEW i \in 1..Len(pipe'), NEW j \in 1..Len(pipe'), i < j,
               pipe'[i].file = pipe'[j].file
        PROVE  pipe'[i].n < pipe'[j].n
    <3>1. i \in 1..Len(pipe) /\ pipe'[i] = pipe[i]
      BY <1>6, <2>3
    <3>2. CASE j \in 1..Len(pipe)
      BY <1>0, <1>6, <1>9, <2>3, <3>1, <3>2 DEF Piped
    <3>3. CASE j = Len(pipe) + 1
      <4>1. pipe[i].file = f /\ pipe'[j].n = Sent(f) + 1
        BY <1>3, <1>6, <2>3, <3>1, <3>3
      <4>2. pipe[i].n <= Sent(f) /\ pipe[i].n \in Nat
        BY <1>0, <1>9, <2>0, <3>1, <4>1 DEF Piped
      <4> QED
        BY <1>3, <3>1, <4>1, <4>2
    <3> QED
      BY <1>6, <3>2, <3>3
  <2> QED
    BY <2>1, <2>2, <2>3 DEF Piped
<1>12. \A i \in 1..Len(pipe') : pipe'[i] # None
  <2>1. m # None
    BY <1>2, MessageFacts
  <2> QED
    BY <1>6, <1>9, <2>1
<1>13. Joined' /\ NoneLast'
  BY <1>0, <1>1, <1>4, <1>8, <1>12 DEF Joined, NoneLast
<1> QED
  BY <1>7, <1>10, <1>11, <1>13 DEF QInv

(* The message that the logger takes is the oldest of its file that it has *)
(* not taken.                                                              *)
LEMMA NextOfFile ==
    ASSUME QInv, pipe # <<>>, Head(pipe) # None
    PROVE  /\ Head(pipe) = pipe[1] /\ pipe[1] \in Messages
           /\ pipe[1].n = handled[pipe[1].file] + 1
<1> DEFINE m == pipe[1]
           g == pipe[1].file
<1>0. QueueTypes /\ Piped
  BY DEF QInv
<1>1. Len(pipe) \in Nat \ {0} /\ Head(pipe) = m /\ m \in Messages /\ m # None
  BY <1>0, TailFacts DEF QueueTypes
<1>2. g \in Files /\ m.n \in Nat /\ handled[g] \in Nat /\ 1 \in 1..Len(pipe)
  BY <1>0, <1>1, MessageFacts DEF QueueTypes
<1>3. handled[g] < m.n /\ m.n <= Sent(g) /\ Sent(g) \in Int
  <2>1. emitted[g] \in Int /\ Len(feeder[g]) \in Int
    BY <1>0, <1>2 DEF QueueTypes
  <2> QED
    BY <1>0, <1>1, <1>2, <2>1 DEF Piped, Sent
<1>4. ASSUME m.n # handled[g] + 1 PROVE FALSE
  <2>1. handled[g] + 1 \in handled[g] + 1..Sent(g)
    BY <1>2, <1>3
  <2>2. PICK i \in 1..Len(pipe) : pipe[i] = [file |-> g, n |-> handled[g] + 1]
    BY <1>0, <1>2, <2>1 DEF Piped
  <2>3. i # 1 /\ 1 < i /\ pipe[i].file = g /\ pipe[i].n = handled[g] + 1
    BY <1>1, <1>4, <2>2
  <2>4. pipe[i] # None
    BY <1>2, <2>3, MessageFacts DEF None
  <2>5. m.n < pipe[i].n
    BY <1>0, <1>1, <1>2, <2>3, <2>4 DEF Piped
  <2> QED
    BY <1>2, <1>3, <2>3, <2>5
<1> QED
  BY <1>1, <1>4

LEMMA HandleQInv ==
    ASSUME QInv, HandleMessage
    PROVE  QInv'
<1> DEFINE m == pipe[1]
           g == pipe[1].file
<1>0. QueueTypes /\ Buffered /\ Piped /\ Joined /\ NoneLast
  BY DEF QInv
<1>1. /\ pipe # <<>> /\ Head(pipe) # None /\ pipe' = Tail(pipe)
      /\ handled' = [handled EXCEPT ![Head(pipe).file] = @ + 1]
      /\ UNCHANGED <<emitted, child, feeder, logger, pc, joined, parentFeeder>>
      /\ logger = "waiting"
  BY DEF HandleMessage, childVars, parentVars
<1>2. /\ Head(pipe) = m /\ m \in Messages /\ m.n = handled[g] + 1
      /\ g \in Files /\ m.n \in 1..NMsgs /\ m # None
  BY <1>0, <1>1, NextOfFile, MessageFacts
<1>3. /\ Len(pipe) \in Nat \ {0} /\ pipe' \in Seq(Messages \cup {None})
      /\ Len(pipe') = Len(pipe) - 1 /\ \A i \in 1..Len(pipe) - 1 : pipe'[i] = pipe[i + 1]
  BY <1>0, <1>1, TailFacts DEF QueueTypes
<1>4. /\ handled'[g] = handled[g] + 1 /\ handled[g] \in Nat
      /\ \A h \in Files : h # g => handled'[h] = handled[h]
  BY <1>0, <1>1, <1>2, MessageFacts DEF QueueTypes
<1>5. QueueTypes'
  <2>1. handled[g] + 1 \in 0..NMsgs
    BY <1>2, MessageFacts
  <2>2. handled' \in [Files -> 0..NMsgs]
    BY <1>0, <1>1, <1>2, <2>1 DEF QueueTypes
  <2>3. Len(pipe') <= PipeCapacity
    BY <1>0, <1>3, SizesAssumption DEF QueueTypes
  <2> QED
    BY <1>0, <1>1, <1>3, <2>2, <2>3 DEF QueueTypes
<1>6. \A h \in Files : Sent(h)' = Sent(h) /\ Sent(h) \in Int
  <2>1. \A h \in Files : emitted[h] \in Int /\ Len(feeder[h]) \in Int
    BY <1>0 DEF QueueTypes
  <2> QED
    BY <1>1, <2>1 DEF Sent
<1>7. Buffered'
  BY <1>0, <1>1, <1>6 DEF Buffered
<1>8. ASSUME NEW i \in 1..Len(pipe') PROVE i + 1 \in 1..Len(pipe) /\ 1 < i + 1 /\ pipe'[i] = pipe[i + 1]
  BY <1>3
<1>9. Piped'
  <2>1. ASSUME NEW h \in Files
        PROVE  /\ handled'[h] <= Sent(h)'
               /\ \A n \in handled'[h] + 1..Sent(h)' :
                    \E i \in 1..Len(pipe') : pipe'[i] = [file |-> h, n |-> n]
    <3>1. handled'[h] <= Sent(h)
      <4>1. 1 \in 1..Len(pipe)
        BY <1>3
      <4>2. m.n <= Sent(g)
        BY <1>0, <1>2, <4>1 DEF Piped
      <4>3. handled[h] <= Sent(h)
        BY <1>0 DEF Piped
      <4> QED
        BY <1>2, <1>4, <4>2, <4>3
    <3>2. ASSUME NEW n \in handled'[h] + 1..Sent(h)
          PROVE  \E i \in 1..Len(pipe') : pipe'[i] = [file |-> h, n |-> n]
      <4>0. handled[h] \in Nat
        BY <1>0, MessageFacts DEF QueueTypes
      <4>1. n \in handled[h] + 1..Sent(h)
        BY <1>4, <1>6, <3>2, <4>0
      <4>2. PICK i \in 1..Len(pipe) : pipe[i] = [file |-> h, n |-> n]
        BY <1>0, <4>1 DEF Piped
      <4>3. i # 1
        <5>1. CASE h = g
          BY <1>2, <1>4, <3>2, <4>2, <5>1
        <5>2. CASE h # g
          BY <4>2, <5>2
        <5> QED
          BY <5>1, <5>2
      <4>4. i - 1 \in 1..Len(pipe') /\ pipe'[i - 1] = pipe[i]
        BY <1>3, <4>3
      <4> QED
        BY <4>2, <4>4
    <3> QED
      BY <1>6, <3>1, <3>2
  <2>2. ASSUME NEW i \in 1..Len(pipe'), pipe'[i] # None
        PROVE  \E h \in Files : /\ h = pipe'[i].file
                                /\ handled'[h] < pipe'[i].n /\ pipe'[i].n <= Sent(h)'
    <3>1. /\ i + 1 \in 1..Len(pipe) /\ 1 < i + 1 /\ 1 \in 1..Len(pipe)
          /\ pipe'[i] = pipe[i + 1] /\ pipe[i + 1] # None
      BY <1>3, <1>8, <2>2
    <3>2. pipe[i + 1] \in Messages
      BY <1>0, <3>1 DEF QueueTypes
    <3>3. /\ handled[pipe[i + 1].file] < pipe[i + 1].n
          /\ pipe[i + 1].n <= Sent(pipe[i + 1].file)
          /\ pipe[i + 1].file \in Files /\ pipe[i + 1].n \in Nat
      BY <1>0, <3>1, <3>2, MessageFacts DEF Piped
    <3>4. CASE pipe[i + 1].file # g
      BY <1>4, <1>6, <3>1, <3>3, <3>4
    <3>5. CASE pipe[i + 1].file = g
      <4>1. m.n < pipe[i + 1].n
        BY <1>0, <1>2, <3>1, <3>5 DEF Piped
      <4> QED
        BY <1>2, <1>4, <1>6, <3>1, <3>3, <3>5, <4>1
    <3> QED
      BY <3>4, <3>5
  <2>3. ASSUME NEW i \in 1..Len(pipe'), NEW j \in 1..Len(pipe'), i < j,
               pipe'[i] # None, pipe'[j] # None, pipe'[i].file = pipe'[j].file
        PROVE  pipe'[i].n < pipe'[j].n
    <3>1. /\ i + 1 \in 1..Len(pipe) /\ j + 1 \in 1..Len(pipe) /\ i + 1 < j + 1
          /\ pipe'[i] = pipe[i + 1] /\ pipe'[j] = pipe[j + 1]
      BY <1>8, <2>3
    <3> QED
      BY <1>0, <2>3, <3>1 DEF Piped
  <2> QED
    BY <2>1, <2>2, <2>3 DEF Piped
<1>10. Joined'
  BY <1>0, <1>1, <1>8 DEF Joined
<1>11. NoneLast'
  <2>1. ASSUME NEW i \in 1..Len(pipe'), pipe'[i] = None
        PROVE  i = Len(pipe') /\ joined = NFiles /\ parentFeeder = <<>>
    BY <1>0, <1>3, <1>8, <2>1 DEF NoneLast
  <2> QED
    BY <1>1, <2>1 DEF NoneLast
<1> QED
  BY <1>5, <1>7, <1>9, <1>10, <1>11 DEF QInv

LEMMA StopQInv ==
    ASSUME QInv, StopLogger
    PROVE  QInv'
<1>0. QueueTypes /\ Buffered /\ Piped /\ Joined /\ NoneLast
  BY DEF QInv
<1>1. /\ pipe # <<>> /\ Head(pipe) = None /\ pipe' = Tail(pipe) /\ logger' = "stopped"
      /\ UNCHANGED <<emitted, child, feeder, handled, pc, joined, parentFeeder>>
  BY DEF StopLogger, childVars, parentVars
<1>2. /\ Len(pipe) \in Nat \ {0} /\ pipe' \in Seq(Messages \cup {None})
      /\ Len(pipe') = Len(pipe) - 1 /\ pipe[1] = None
  BY <1>0, <1>1, TailFacts DEF QueueTypes
<1>3. Len(pipe) = 1 /\ joined = NFiles /\ parentFeeder = <<>>
  BY <1>0, <1>2 DEF NoneLast
<1>4. pipe' = <<>> /\ Len(pipe') = 0
  BY <1>2, <1>3
<1>5. QueueTypes'
  BY <1>0, <1>1, <1>2, <1>4, SizesAssumption DEF QueueTypes
<1>6. \A h \in Files : Sent(h)' = Sent(h) /\ Sent(h) \in Int
  <2>1. \A h \in Files : emitted[h] \in Int /\ Len(feeder[h]) \in Int
    BY <1>0 DEF QueueTypes
  <2> QED
    BY <1>1, <2>1 DEF Sent
<1>7. Buffered'
  BY <1>0, <1>1, <1>6 DEF Buffered
<1>8. Piped'
  <2>1. ASSUME NEW h \in Files, NEW n \in handled[h] + 1..Sent(h) PROVE FALSE
    <3>1. PICK i \in 1..Len(pipe) : pipe[i] = [file |-> h, n |-> n]
      BY <1>0, <2>1 DEF Piped
    <3>2. i = 1 /\ h = -1
      BY <1>2, <1>3, <3>1 DEF None
    <3> QED
      BY <3>2, MessageFacts
  <2> QED
    BY <1>0, <1>1, <1>4, <1>6, <2>1 DEF Piped
<1>9. pc # "join" /\ 1..Len(pipe') = {}
  <2>1. 1 \in 1..Len(pipe)
    BY <1>3
  <2>2. pc # "join"
    BY <1>0, <1>2, <2>1 DEF Joined
  <2> QED
    BY <1>4, <2>2
<1>10. Joined'
  BY <1>0, <1>1, <1>3, <1>9 DEF Joined
<1>11. NoneLast'
  BY <1>1, <1>3, <1>4, <1>9 DEF NoneLast
<1> QED
  BY <1>5, <1>7, <1>8, <1>10, <1>11 DEF QInv

LEMMA FeedNoneQInv ==
    ASSUME QInv, FeedNone
    PROVE  QInv'
<1>0. QueueTypes /\ Buffered /\ Piped /\ Joined /\ NoneLast
  BY DEF QInv
<1>1. /\ parentFeeder # <<>> /\ Len(pipe) < PipeCapacity
      /\ pipe' = Append(pipe, None) /\ parentFeeder' = <<>>
      /\ UNCHANGED <<emitted, child, feeder, logger, handled, pc, joined>>
  BY DEF FeedNone, childVars, loggerVars
<1>2. /\ pipe' \in Seq(Messages \cup {None}) /\ Len(pipe') = Len(pipe) + 1 /\ Len(pipe) \in Nat
      /\ \A i \in 1..Len(pipe) : pipe'[i] = pipe[i]
      /\ pipe'[Len(pipe) + 1] = None
  <2>1. pipe \in Seq(Messages \cup {None}) /\ None \in Messages \cup {None}
    BY <1>0 DEF QueueTypes
  <2> QED
    BY <1>1, <2>1, AppendFacts
<1>3. joined = NFiles /\ pc # "join" /\ logger # "stopped"
      /\ \A i \in 1..Len(pipe) : pipe[i] # None
  BY <1>0, <1>1 DEF Joined, NoneLast
<1>4. QueueTypes'
  BY <1>0, <1>1, <1>2, SizesAssumption DEF QueueTypes
<1>5. \A h \in Files : Sent(h)' = Sent(h)
  BY <1>1 DEF Sent
<1>6. Buffered'
  BY <1>0, <1>1, <1>5 DEF Buffered
<1>7. Piped'
  <2>0. \A i \in 1..Len(pipe) : pipe[i] \in Messages /\ pipe[i].file \in Files
    BY <1>0, <1>3, MessageFacts DEF QueueTypes
  <2>1. \A h \in Files : /\ handled'[h] <= Sent(h)'
                         /\ \A n \in handled'[h] + 1..Sent(h)' :
                              \E i \in 1..Len(pipe') : pipe'[i] = [file |-> h, n |-> n]
    BY <1>0, <1>1, <1>2, <1>5 DEF Piped
  <2>2. ASSUME NEW i \in 1..Len(pipe'), pipe'[i] # None
        PROVE  i \in 1..Len(pipe) /\ pipe'[i] = pipe[i]
    BY <1>2, <2>2
  <2>3. ASSUME NEW i \in 1..Len(pipe'), pipe'[i] # None
        PROVE  \E h \in Files : /\ h = pipe'[i].file
                                /\ handled'[h] < pipe'[i].n /\ pipe'[i].n <= Sent(h)'
    <3>1. pipe'[i] = pipe[i] /\ i \in 1..Len(pipe) /\ pipe[i].file \in Files
      BY <2>0, <2>2, <2>3
    <3> QED
      BY <1>0, <1>1, <1>3, <1>5, <3>1 DEF Piped
  <2>4. ASSUME NEW i \in 1..Len(pipe'), NEW j \in 1..Len(pipe'), i < j,
               pipe'[i] # None, pipe'[j] # None, pipe'[i].file = pipe'[j].file
        PROVE  pipe'[i].n < pipe'[j].n
    BY <1>0, <2>2, <2>4 DEF Piped
  <2> QED
    BY <2>1, <2>3, <2>4 DEF Piped
<1>8. Joined'
  BY <1>0, <1>1, <1>3 DEF Joined
<1>9. NoneLast'
  BY <1>1, <1>2, <1>3 DEF NoneLast
<1> QED
  BY <1>4, <1>6, <1>7, <1>8, <1>9 DEF QInv

(* The steps that leave buffers and pipe alone.                            *)
LEMMA OtherQInv ==
    ASSUME QInv,
           \/ \E f \in Files : Exit(f) \/ End(f)
           \/ OpenLog \/ Join \/ PutNone \/ Raise \/ SortRead \/ SortWrite \/ Merge
           \/ RemoveMpLog
    PROVE  QInv'
<1>0. QueueTypes /\ Buffered /\ Piped /\ Joined /\ NoneLast
  BY DEF QInv
<1>1. UNCHANGED <<emitted, feeder, pipe, handled>>
  BY DEF Exit, End, OpenLog, Join, PutNone, Raise, SortRead, SortWrite, Merge, RemoveMpLog,
         childVars, loggerVars, parentVars
<1>2. Buffered' /\ Piped'
  <2>1. \A i \in 1..Len(pipe) : pipe[i] # None => pipe[i].file \in Files
    BY <1>0, MessageFacts DEF QueueTypes
  <2> QED
    BY <1>0, <1>1, <2>1 DEF Buffered, Piped, Sent
<1>3. CASE \E f \in Files : Exit(f) \/ End(f)
  BY <1>0, <1>1, <1>2, <1>3
  DEF Exit, End, loggerVars, parentVars, QueueTypes, Joined, NoneLast, QInv
<1>4. CASE Join
  <2>1. /\ pc = "join" /\ joined < NFiles /\ child[joined] = "ended" /\ joined' = joined + 1
        /\ UNCHANGED <<child, logger, pc, parentFeeder>> /\ joined \in 0..NFiles
    BY <1>0, <1>4 DEF Join, childVars, loggerVars, QueueTypes
  <2>2. QueueTypes'
    BY <1>0, <1>1, <2>1, SizesAssumption DEF QueueTypes
  <2>3. \A f \in Files : f < joined' => child[f] = "ended"
    BY <1>0, <2>1, MessageFacts DEF Joined
  <2>4. Joined' /\ NoneLast'
    BY <1>0, <1>1, <2>1, <2>3 DEF Joined, NoneLast
  <2> QED
    BY <1>2, <2>2, <2>4 DEF QInv
<1>5. CASE OpenLog \/ PutNone \/ Raise \/ SortRead \/ SortWrite \/ Merge \/ RemoveMpLog
  <2>1. QueueTypes'
    BY <1>0, <1>1, <1>5
    DEF OpenLog, PutNone, Raise, SortRead, SortWrite, Merge, RemoveMpLog, QueueTypes,
        childVars, loggerVars, parentVars
  <2>2. Joined'
    BY <1>0, <1>1, <1>5
    DEF OpenLog, PutNone, Raise, SortRead, SortWrite, Merge, RemoveMpLog, Joined,
        childVars, loggerVars, parentVars
  <2>3. NoneLast'
    BY <1>0, <1>1, <1>5
    DEF OpenLog, PutNone, Raise, SortRead, SortWrite, Merge, RemoveMpLog, NoneLast, Joined,
        childVars, loggerVars, parentVars
  <2> QED
    BY <1>2, <2>1, <2>2, <2>3 DEF QInv
<1> QED
  BY <1>3, <1>4, <1>5

LEMMA NextQInv == QInv /\ [Next]_vars => QInv'
<1> SUFFICES ASSUME QInv, [Next]_vars PROVE QInv'
  OBVIOUS
<1>1. CASE UNCHANGED vars
  <2>1. UNCHANGED <<emitted, child, feeder, pipe, logger, pc, joined, parentFeeder, handled>>
    BY <1>1 DEF vars
  <2>2. QueueTypes' /\ Joined' /\ NoneLast'
    BY <2>1 DEF QInv, QueueTypes, Joined, NoneLast
  <2>3. Buffered' /\ Piped'
    <3>1. \A i \in 1..Len(pipe) : pipe[i] # None => pipe[i].file \in Files
      BY MessageFacts DEF QInv, QueueTypes
    <3> QED
      BY <2>1, <3>1 DEF QInv, Buffered, Piped, Sent
  <2> QED
    BY <2>2, <2>3 DEF QInv
<1>2. CASE Next
  BY <1>2, LogQInv, FeedQInv, HandleQInv, StopQInv, FeedNoneQInv, OtherQInv
  DEF Next, Logger, Parent
<1> QED
  BY <1>1, <1>2

LEMMA InitQInv == Init => QInv
<1> SUFFICES ASSUME Init PROVE QInv
  OBVIOUS
<1>1. QueueTypes
  BY SizesAssumption DEF Init, QueueTypes
<1>2. \A f \in Files : emitted[f] = 0 /\ handled[f] = 0 /\ Sent(f) = 0 /\ Len(feeder[f]) = 0
  BY DEF Init, Sent
<1>3. 1..Len(pipe) = {}
  BY DEF Init
<1>4. Buffered /\ Piped
  BY <1>2, <1>3 DEF Buffered, Piped
<1>5. Joined /\ NoneLast
  BY <1>3, MessageFacts DEF Init, Joined, NoneLast
<1> QED
  BY <1>1, <1>4, <1>5 DEF QInv

LEMMA QInvariant == Spec => []QInv
  BY InitQInv, NextQInv, PTL DEF Spec

(* However the processes, their feeder threads, the logger and the         *)
(* controller are scheduled, and however small the pipe is: the None that  *)
(* run_chain() queues after the last join() reaches the logger behind      *)
(* every message that was logged.                                          *)
THEOREM NothingUnwritten == Spec => []WrittenBeforeStop
<1>1. QInv => WrittenBeforeStop
  <2> SUFFICES ASSUME QInv, logger = "stopped", NEW f \in Files
               PROVE  handled[f] = emitted[f]
    BY DEF WrittenBeforeStop
  <2>0. QueueTypes /\ Piped /\ Joined /\ NoneLast
    BY DEF QInv
  <2>1. joined = NFiles /\ pipe = <<>> /\ Len(pipe) = 0 /\ f < NFiles
    BY <2>0, SizesAssumption DEF NoneLast, Files
  <2>2. feeder[f] = <<>> /\ Len(feeder[f]) = 0
    BY <2>0, <2>1 DEF Joined
  <2>3. emitted[f] \in Nat /\ handled[f] \in Nat /\ Sent(f) = emitted[f]
    BY <2>0, <2>2, MessageFacts DEF QueueTypes, Sent
  <2>4. \A n \in handled[f] + 1..emitted[f] : FALSE
    BY <2>0, <2>1, <2>3 DEF Piped
  <2>5. handled[f] <= emitted[f]
    BY <2>0, <2>3 DEF Piped
  <2> QED
    BY <2>3, <2>4, <2>5
<1> QED
  BY <1>1, QInvariant, PTL
-----------------------------------------------------------------------------
(* sort_file_by_number() for any lines: a permutation that is sorted by    *)
(* the key and keeps the order of lines with the same key.                 *)

Lines == Messages \cup {Hole}

LEMMA LineFacts == \A l \in Lines : l.file \in Nat /\ l.n \in Nat /\ Key(l) \in Nat
  BY MessageFacts DEF Lines, Key

LEMMA UpToNumber ==
    ASSUME NEW n \in Nat
    PROVE  IsFiniteSet(1..n) /\ Cardinality(1..n) = n
<1>1. 1 \in Int /\ n \in Int
  OBVIOUS
<1>2. /\ IsFiniteSet(1..n) /\ Cardinality(1..n) = IF 1 > n THEN 0 ELSE n - 1 + 1
  BY <1>1, FS_Interval
<1> QED
  BY <1>2

LEMMA RankOrder ==
    ASSUME NEW ls \in Seq(Lines), NEW i \in DOMAIN ls, NEW k \in DOMAIN ls, i # k,
           i \in UpTo(ls, k)
    PROVE  /\ Rank(ls, i) < Rank(ls, k) /\ Rank(ls, i) \in 1..Len(ls)
           /\ Rank(ls, k) \in 1..Len(ls)
<1>1. /\ DOMAIN ls = 1..Len(ls) /\ Len(ls) \in Nat
      /\ \A j \in DOMAIN ls : Key(ls[j]) \in Nat /\ j \in Nat
  BY LineFacts
<1>2. /\ IsFiniteSet(DOMAIN ls) /\ Cardinality(DOMAIN ls) = Len(ls)
  BY <1>1, UpToNumber
<1>3. \A j \in DOMAIN ls : UpTo(ls, j) \in SUBSET (DOMAIN ls) /\ j \in UpTo(ls, j)
  BY <1>1 DEF UpTo
<1>4. \A j \in DOMAIN ls : /\ IsFiniteSet(UpTo(ls, j)) /\ Rank(ls, j) <= Len(ls)
                          /\ Rank(ls, j) \in Nat /\ Rank(ls, j) # 0
  <2> TAKE j \in DOMAIN ls
  <2>1. IsFiniteSet(UpTo(ls, j)) /\ Rank(ls, j) <= Len(ls)
    BY <1>2, <1>3, FS_Subset DEF Rank
  <2> QED
    BY <1>3, <2>1, FS_CardinalityType, FS_EmptySet DEF Rank
<1>5. k \notin UpTo(ls, i) /\ UpTo(ls, i) \in SUBSET UpTo(ls, k)
  BY <1>1 DEF UpTo
<1>6. Rank(ls, i) <= Rank(ls, k) /\ Rank(ls, i) # Rank(ls, k)
  BY <1>3, <1>4, <1>5, FS_Subset DEF Rank
<1> QED
  BY <1>1, <1>4, <1>6

LEMMA RankBijection ==
    ASSUME NEW ls \in Seq(Lines)
    PROVE  /\ \A p \in DOMAIN ls : \E i \in DOMAIN ls : Rank(ls, i) = p
           /\ \A i, k \in DOMAIN ls : Rank(ls, i) = Rank(ls, k) => i = k
           /\ \A i \in DOMAIN ls : Rank(ls, i) \in DOMAIN ls
<1> DEFINE D == DOMAIN ls
           f == [i \in D |-> Rank(ls, i)]
<1>1. D = 1..Len(ls) /\ Len(ls) \in Nat /\ \A j \in D : Key(ls[j]) \in Nat /\ j \in Nat
  BY LineFacts
<1>2. IsFiniteSet(D) /\ Cardinality(D) = Len(ls)
  BY <1>1, UpToNumber
<1>3. \A i \in D : Rank(ls, i) \in D
  <2> TAKE i \in D
  <2>1. UpTo(ls, i) \in SUBSET D /\ i \in UpTo(ls, i)
    BY <1>1 DEF UpTo
  <2>2. IsFiniteSet(UpTo(ls, i)) /\ Rank(ls, i) <= Len(ls)
    BY <1>2, <2>1, FS_Subset DEF Rank
  <2>3. Rank(ls, i) \in Nat /\ Rank(ls, i) # 0
    BY <2>1, <2>2, FS_CardinalityType, FS_EmptySet DEF Rank
  <2> QED
    BY <1>1, <2>2, <2>3
<1>4. \A i, k \in D : Rank(ls, i) = Rank(ls, k) => i = k
  <2> SUFFICES ASSUME NEW i \in D, NEW k \in D, i # k PROVE Rank(ls, i) # Rank(ls, k)
    OBVIOUS
  <2>0. Rank(ls, i) \in Nat /\ Rank(ls, k) \in Nat
    BY <1>1, <1>3
  <2>1. CASE i \in UpTo(ls, k)
    BY <2>0, <2>1, RankOrder
  <2>2. CASE k \in UpTo(ls, i)
    BY <2>0, <2>2, RankOrder
  <2>3. i \in UpTo(ls, k) \/ k \in UpTo(ls, i)
    BY <1>1 DEF UpTo
  <2> QED
    BY <2>1, <2>2, <2>3
<1>5. f \in Injection(D, D)
  BY <1>3, <1>4 DEF Injection, IsInjective
<1>6. f \in Surjection(D, D)
  BY <1>2, <1>5, FS_Injection
<1>7. \A p \in D : \E i \in D : f[i] = p
  BY <1>6 DEF Surjection
<1> QED
  BY <1>3, <1>4, <1>7

(* The line that comes to place p.                                         *)
Origin(ls, p) == CHOOSE i \in DOMAIN ls : Rank(ls, i) = p

LEMMA SortFacts ==
    ASSUME NEW ls \in Seq(Lines)
    PROVE  /\ SortedByKey(ls) \in Seq(Lines) /\ Len(SortedByKey(ls)) = Len(ls)
           /\ \A p \in 1..Len(ls) : /\ Origin(ls, p) \in 1..Len(ls)
                                    /\ SortedByKey(ls)[p] = ls[Origin(ls, p)]
           /\ \A i \in 1..Len(ls) : \E p \in 1..Len(ls) : SortedByKey(ls)[p] = ls[i]
           /\ \A p, q \in 1..Len(ls) : p < q =>
                \/ Key(ls[Origin(ls, p)]) < Key(ls[Origin(ls, q)])
                \/ /\ Key(ls[Origin(ls, p)]) = Key(ls[Origin(ls, q)])
                   /\ Origin(ls, p) < Origin(ls, q)
<1> DEFINE D == 1..Len(ls)
           S == SortedByKey(ls)
<1>1. DOMAIN ls = D /\ Len(ls) \in Nat /\ \A j \in D : Key(ls[j]) \in Nat /\ j \in Nat
  BY LineFacts
<1>2. \A p \in D : Origin(ls, p) \in D /\ Rank(ls, Origin(ls, p)) = p
  BY <1>1, RankBijection DEF Origin
<1>3. S = [p \in D |-> ls[Origin(ls, p)]]
  BY <1>1 DEF SortedByKey, Origin
<1>4. \A p \in D : ls[Origin(ls, p)] \in Lines
  BY <1>1, <1>2
<1>5. S \in Seq(Lines) /\ Len(S) = Len(ls)
  BY <1>1, <1>3, <1>4
<1>6. \A i \in D : \E p \in D : S[p] = ls[i]
  <2> TAKE i \in D
  <2>1. Rank(ls, i) \in D
    BY <1>1, RankBijection
  <2>2. Origin(ls, Rank(ls, i)) = i
    BY <1>1, <1>2, <2>1, RankBijection
  <2> QED
    BY <1>3, <2>1, <2>2
<1>7. ASSUME NEW p \in D, NEW q \in D, p < q
      PROVE  \/ Key(ls[Origin(ls, p)]) < Key(ls[Origin(ls, q)])
             \/ /\ Key(ls[Origin(ls, p)]) = Key(ls[Origin(ls, q)])
                /\ Origin(ls, p) < Origin(ls, q)
  <2> DEFINE i == Origin(ls, p)
             k == Origin(ls, q)
  <2>1. i \in D /\ k \in D /\ Rank(ls, i) = p /\ Rank(ls, k) = q /\ i # k
    BY <1>1, <1>2, <1>7
  <2> HIDE DEF i, k
  <2>2. k \notin UpTo(ls, i)
    BY <1>1, <1>7, <2>1, RankOrder
  <2>3. Key(ls[i]) < Key(ls[k]) \/ (Key(ls[i]) = Key(ls[k]) /\ i < k)
    BY <1>1, <2>1, <2>2 DEF UpTo
  <2> QED
    BY <2>3 DEF i, k
<1> QED
  BY <1>2, <1>3, <1>5, <1>6, <1>7
-----------------------------------------------------------------------------
(* The logs.                                                               *)

Logs == <<mpLog, lines, mainLog>>
LogsOK ==
    /\ Taken(mpLog) /\ Taken(lines) /\ Taken(mainLog)
    /\ Ordered(mpLog) /\ Ordered(lines) /\ Ordered(mainLog)

LEMMA FrameLogs ==
    ASSUME LogsOK, UNCHANGED <<Logs, handled>>
    PROVE  LogsOK'
  BY DEF LogsOK, Logs, Taken, Ordered

(* What was sent was logged.                                               *)
LEMMA SentLogged ==
    ASSUME QInv, NEW m \in Messages, m.n <= handled[m.file]
    PROVE  m \in Logged
<1>1. m.file \in Files /\ m.n \in Nat
  BY MessageFacts
<1>2. handled[m.file] <= Sent(m.file) /\ Len(feeder[m.file]) \in Nat
      /\ emitted[m.file] \in Nat /\ handled[m.file] \in Nat
  BY <1>1, MessageFacts DEF QInv, Piped, QueueTypes
<1> QED
  BY <1>1, <1>2 DEF Sent, Logged

(* The steps of the processes, and those of the controller before it reads *)
(* the file.                                                               *)
LEMMA OtherLInv ==
    ASSUME LInv, QInv',
           \/ \E f \in Files : Log(f) \/ Feed(f) \/ Exit(f) \/ End(f)
           \/ OpenLog \/ StopLogger \/ Join \/ PutNone \/ FeedNone \/ Raise
    PROVE  LInv'
<1>0. QInv /\ Filed /\ Merged /\ LogsOK
  BY DEF LInv, LogsOK
<1>1. UNCHANGED <<mpLog, lines, mainLog, handled, offset>>
  BY DEF Log, Feed, Exit, End, OpenLog, StopLogger, Join, PutNone, FeedNone, Raise,
         childVars, loggerVars, parentVars
<1>2. LogsOK'
  BY <1>0, <1>1, FrameLogs DEF Logs
<1>3. Filed'
  <2>1. CASE OpenLog \/ StopLogger
    BY <1>0, <1>1, <2>1 DEF Filed, OpenLog, StopLogger, parentVars
  <2>2. CASE UNCHANGED <<logger, mpExists>>
    <3>1. /\ pc' \in {"join", "sort"} => pc \in {"join", "sort"}
          /\ pc' \notin {"remove", "end"} => pc \notin {"remove", "end"}
      BY DEF Log, Feed, Exit, End, OpenLog, StopLogger, Join, PutNone, FeedNone, Raise,
             parentVars
    <3> QED
      BY <1>0, <1>1, <2>2, <3>1 DEF Filed
  <2> QED
    BY <2>1, <2>2 DEF Log, Feed, Exit, End, Join, PutNone, FeedNone, Raise, loggerVars
<1>4. Merged'
  <2>1. CASE \E f \in Files : Log(f)
    <3>1. PICK f \in Files : child[f] = "running" /\ pc' = pc
      BY <2>1 DEF Log, parentVars
    <3>2. f < NFiles
      BY SizesAssumption DEF Files
    <3>3. pc \in {"join", "raised"}
      BY <1>0, <3>1, <3>2 DEF QInv, Joined
    <3> QED
      BY <3>1, <3>3 DEF Merged
  <2>2. CASE UNCHANGED emitted
    <3>1. AllRead' <=> AllRead
      BY <1>1, <2>2 DEF AllRead, Logged
    <3>2. pc' \in {"merge", "remove", "end"} => pc' = pc
      BY DEF Log, Feed, Exit, End, OpenLog, StopLogger, Join, PutNone, FeedNone, Raise,
             parentVars
    <3> QED
      BY <1>0, <1>1, <3>1, <3>2 DEF Merged
  <2> QED
    BY <2>1, <2>2 DEF Feed, Exit, End, OpenLog, StopLogger, Join, PutNone, FeedNone, Raise,
                      childVars
<1> QED
  BY <1>2, <1>3, <1>4 DEF LInv, LogsOK

LEMMA HandleLInv ==
    ASSUME LInv, QInv', HandleMessage
    PROVE  LInv'
<1> DEFINE m == pipe[1]
           g == pipe[1].file
<1>0. QInv /\ QueueTypes /\ Filed /\ Merged /\ LogsOK
  BY DEF LInv, LogsOK, QInv
<1>1. /\ pipe # <<>> /\ Head(pipe) # None /\ logger = "waiting" /\ offset' = offset + 1
      /\ mpLog' = IF mpExists THEN WriteAt(mpLog, offset, Head(pipe)) ELSE mpLog
      /\ handled' = [handled EXCEPT ![Head(pipe).file] = @ + 1]
      /\ UNCHANGED <<emitted, logger, pc, mpExists, lines, mainLog>>
  BY DEF HandleMessage, childVars, parentVars
<1>2. /\ Head(pipe) = m /\ m \in Messages /\ m.n = handled[g] + 1 /\ g \in Files
      /\ handled[g] \in Nat /\ m.n > 0 /\ m # Hole
  BY <1>0, <1>1, NextOfFile, MessageFacts DEF QueueTypes
<1>3. /\ handled'[g] = handled[g] + 1
      /\ \A h \in Files : handled[h] \in Nat /\ handled[h] <= handled'[h] /\ handled'[h] \in Nat
  BY <1>0, <1>1, <1>2, MessageFacts DEF QueueTypes
<1>4. ASSUME NEW ls \in Seq(Lines), Taken(ls)
      PROVE  \A i \in 1..Len(ls) : ls[i] # Hole => ls[i].n <= handled'[ls[i].file]
  <2> TAKE i \in 1..Len(ls)
  <2> HAVE ls[i] # Hole
  <2>1. ls[i] \in Messages /\ ls[i].file \in Files /\ ls[i].n \in Nat
    BY MessageFacts DEF Lines
  <2>2. ls[i].n <= handled[ls[i].file]
    BY <1>4 DEF Taken
  <2> QED
    BY <1>3, <2>1, <2>2
<1>5. mpLog \in Seq(Lines) /\ lines \in Seq(Lines) /\ mainLog \in Seq(Lines) /\ offset \in Nat
  BY <1>0 DEF Filed, Lines
<1>6. Taken(lines)' /\ Taken(mainLog)' /\ Ordered(lines)' /\ Ordered(mainLog)'
  <2>1. Taken(lines) /\ Taken(mainLog) /\ Ordered(lines) /\ Ordered(mainLog)
    BY <1>0 DEF LogsOK
  <2> QED
    BY <1>1, <1>4, <1>5, <2>1 DEF Taken, Ordered
<1>7. ASSUME ~mpExists
      PROVE  Filed' /\ Taken(mpLog)' /\ Ordered(mpLog)'
  <2>1. pc \notin {"join", "sort"}
    BY <1>0, <1>1, <1>7 DEF Filed
  <2>2. Filed'
    BY <1>0, <1>1, <1>7, <2>1 DEF Filed
  <2>3. Taken(mpLog)' /\ Ordered(mpLog)'
    <3>1. Taken(mpLog) /\ Ordered(mpLog)
      BY <1>0 DEF LogsOK
    <3> QED
      BY <1>1, <1>4, <1>5, <1>7, <3>1 DEF Taken, Ordered
  <2> QED
    BY <2>2, <2>3
<1>8. ASSUME mpExists
      PROVE  Filed' /\ Taken(mpLog)' /\ Ordered(mpLog)'
  <2>1. /\ mpLog' \in Seq(Lines) /\ Len(mpLog') = offset + 1
        /\ \A i \in 1..Len(mpLog) : mpLog'[i] = mpLog[i]
        /\ \A i \in 1..offset : i > Len(mpLog) => mpLog'[i] = Hole
        /\ mpLog'[offset + 1] = m
        /\ Len(mpLog) \in Nat /\ Len(mpLog) <= offset
    <3>1. Len(mpLog) \in Nat /\ Len(mpLog) <= offset
      BY <1>0, <1>5 DEF Filed
    <3>2. mpLog' = [i \in 1..offset + 1 |->
                      IF i = offset + 1 THEN m ELSE IF i <= Len(mpLog) THEN mpLog[i] ELSE Hole]
      BY <1>1, <1>2, <1>8 DEF WriteAt
    <3>3. \A i \in 1..offset + 1 : mpLog'[i] \in Lines
      <4> TAKE i \in 1..offset + 1
      <4>1. m \in Lines /\ Hole \in Lines
        BY <1>2 DEF Lines
      <4>2. i <= Len(mpLog) => mpLog[i] \in Lines
        BY <1>5, <3>1
      <4> QED
        BY <3>2, <4>1, <4>2
    <3>4. mpLog' \in Seq(Lines) /\ Len(mpLog') = offset + 1
      <4> DEFINE s == mpLog'
                 k == offset + 1
      <4>1. k \in Nat /\ s = [i \in 1..k |-> s[i]] /\ \A i \in 1..k : s[i] \in Lines
        BY <1>5, <3>2, <3>3
      <4> HIDE DEF s, k
      <4>2. s \in Seq(Lines) /\ Len(s) = k
        BY <4>1
      <4> QED
        BY <4>2 DEF s, k
    <3> QED
      BY <1>5, <3>1, <3>2, <3>4
  <2>2. Filed'
    <3>1. pc \in {"join", "sort"} => mpLog' \in Seq(Messages)
      <4> HAVE pc \in {"join", "sort"}
      <4>1. mpLog \in Seq(Messages) /\ Len(mpLog) = offset
        BY <1>0 DEF Filed
      <4>2. \A i \in 1..offset + 1 : mpLog'[i] \in Messages
        BY <1>2, <1>5, <2>1, <4>1
      <4> QED
        BY <1>5, <2>1, <4>2
    <3>2. mpLog' \in Seq(Messages \cup {Hole})
      BY <2>1 DEF Lines
    <3> QED
      BY <1>0, <1>1, <1>5, <2>1, <3>1, <3>2 DEF Filed
  <2>3. ASSUME NEW i \in 1..Len(mpLog'), mpLog'[i] # Hole
        PROVE  mpLog'[i].n <= handled'[mpLog'[i].file]
    <3>1. CASE i \in 1..Len(mpLog)
      BY <1>0, <1>4, <1>5, <2>1, <2>3, <3>1 DEF LogsOK
    <3>2. CASE i = offset + 1
      BY <1>2, <1>3, <2>1, <3>2
    <3> QED
      BY <1>5, <2>1, <2>3, <3>1, <3>2
  <2>4. ASSUME NEW i \in 1..Len(mpLog'), NEW j \in 1..Len(mpLog'), i < j,
               mpLog'[i].file = mpLog'[j].file, mpLog'[i].n > 0, mpLog'[j].n > 0
        PROVE  mpLog'[i].n < mpLog'[j].n
    <3>0. Hole.n = 0
      BY DEF Hole
    <3>1. i \in 1..Len(mpLog) /\ mpLog'[i] = mpLog[i]
      <4>1. i \in 1..offset
        BY <1>5, <2>1, <2>4
      <4>2. ~(i > Len(mpLog))
        BY <2>1, <2>4, <3>0, <4>1
      <4> QED
        BY <1>5, <2>1, <4>1, <4>2
    <3>2. CASE j \in 1..Len(mpLog)
      BY <1>0, <2>1, <2>4, <3>1, <3>2 DEF LogsOK, Ordered
    <3>3. CASE j = offset + 1
      <4>1. mpLog[i] # Hole /\ mpLog[i].file = g
        BY <2>1, <2>4, <3>1, <3>3, MessageFacts
      <4>2. mpLog[i].n <= handled[g] /\ mpLog[i].n \in Nat
        BY <1>0, <1>5, <3>1, <4>1, LineFacts DEF LogsOK, Taken
      <4> QED
        BY <1>2, <2>1, <3>1, <3>3, <4>2
    <3>4. j \in 1..Len(mpLog) \/ j = offset + 1
      <4>1. j \in 1..offset \/ j = offset + 1
        BY <1>5, <2>1
      <4>2. ~(j \in 1..offset /\ j > Len(mpLog))
        BY <2>1, <2>4, <3>0
      <4> QED
        BY <1>5, <2>1, <4>1, <4>2
    <3> QED
      BY <3>2, <3>3, <3>4
  <2>5. Taken(mpLog)'
    BY <2>3 DEF Taken
  <2>6. Ordered(mpLog)'
    BY <2>4 DEF Ordered
  <2> QED
    BY <2>2, <2>5, <2>6
<1>9. ~AllRead'
  <2>1. m \in Logged
    <3>1. 1 \in 1..Len(pipe)
      BY <1>0, <1>1, TailFacts DEF QueueTypes
    <3>2. m # None
      BY <1>1, <1>2
    <3>3. m.n <= Sent(g)
      BY <1>0, <3>1, <3>2 DEF QInv, Piped
    <3>4. Len(feeder[g]) \in Nat /\ emitted[g] \in Nat /\ m.n \in Nat
      BY <1>0, <1>2, MessageFacts DEF QueueTypes
    <3> QED
      BY <1>2, <3>3, <3>4, SMTT(30) DEF Sent, Logged
  <2>2. \A i \in 1..Len(lines) : lines[i] # m
    BY <1>0, <1>2 DEF LogsOK, Taken
  <2>3. m \notin {lines[i] : i \in DOMAIN lines}
    BY <1>5, <2>2
  <2>4. ~AllRead
    BY <2>1, <2>3 DEF AllRead
  <2> QED
    BY <1>1, <2>4 DEF AllRead, Logged
<1> QED
  BY <1>6, <1>7, <1>8, <1>9 DEF LInv, Merged

LEMMA ControllerLInv ==
    ASSUME LInv, QInv', SortRead \/ SortWrite \/ Merge \/ RemoveMpLog
    PROVE  LInv'
<1>0. QInv /\ Filed /\ Merged /\ LogsOK
  BY DEF LInv, LogsOK
<1>1. UNCHANGED <<emitted, handled, offset, logger>>
  BY DEF SortRead, SortWrite, Merge, RemoveMpLog, childVars, loggerVars
<1>2. CASE SortRead
  <2>1. /\ pc = "sort" /\ UNCHANGED <<mpLog, mpExists, mainLog>>
        /\ \/ lines' = mpLog /\ pc' = "rewrite"
           \/ lines' = lines /\ pc' = "raised"
    BY <1>2 DEF SortRead
  <2>2. Filed'
    BY <1>0, <1>1, <2>1 DEF Filed
  <2>3. LogsOK'
    BY <1>0, <1>1, <2>1 DEF LogsOK, Taken, Ordered
  <2> QED
    BY <2>1, <2>2, <2>3 DEF LInv, LogsOK, Merged
<1>3. CASE SortWrite
  <2>1. /\ pc = "rewrite" /\ pc' = "merge" /\ mpLog' = SortedByKey(lines)
        /\ UNCHANGED <<lines, mainLog, mpExists>>
    BY <1>3 DEF SortWrite
  <2>2. lines \in Seq(Messages) /\ lines \in Seq(Lines) /\ Len(lines) <= offset
        /\ Len(lines) \in Nat
    BY <1>0 DEF Filed, Lines
  <2>3. /\ mpLog' \in Seq(Lines) /\ Len(mpLog') = Len(lines)
        /\ \A p \in 1..Len(lines) : /\ Origin(lines, p) \in 1..Len(lines)
                                    /\ mpLog'[p] = lines[Origin(lines, p)]
    BY <2>1, <2>2, SortFacts
  <2>4. Filed'
    BY <1>0, <1>1, <2>1, <2>2, <2>3 DEF Filed, Lines
  <2>5. Taken(mpLog)'
    BY <1>0, <1>1, <2>3 DEF LogsOK, Taken
  <2>6. ASSUME NEW p \in 1..Len(mpLog'), NEW q \in 1..Len(mpLog'), p < q,
               mpLog'[p].file = mpLog'[q].file, mpLog'[p].n > 0, mpLog'[q].n > 0
        PROVE  mpLog'[p].n < mpLog'[q].n
    <3> DEFINE i == Origin(lines, p)
               k == Origin(lines, q)
    <3>1. /\ i \in 1..Len(lines) /\ k \in 1..Len(lines)
          /\ mpLog'[p] = lines[i] /\ mpLog'[q] = lines[k]
      BY <2>3
    <3>2. Key(lines[i]) < Key(lines[k]) \/ i < k
      BY <2>2, <2>3, <2>6, SortFacts
    <3> HIDE DEF i, k
    <3>3. Key(lines[i]) = Key(lines[k]) /\ Key(lines[i]) \in Nat
      BY <2>2, <2>6, <3>1, LineFacts DEF Key
    <3>4. i < k
      BY <3>2, <3>3
    <3> QED
      BY <1>0, <2>6, <3>1, <3>4 DEF LogsOK, Ordered
  <2>7. LogsOK'
    BY <1>0, <1>1, <2>1, <2>5, <2>6 DEF LogsOK, Taken, Ordered
  <2>8. Merged'
    BY <2>1 DEF Merged
  <2> QED
    BY <2>4, <2>7, <2>8 DEF LInv, LogsOK
<1>4. CASE Merge
  <2>1. /\ pc = "merge" /\ pc' = "remove" /\ mainLog' = mainLog \o mpLog
        /\ UNCHANGED <<lines, mpLog, mpExists>>
    BY <1>4 DEF Merge
  <2>2. mainLog = <<>> /\ mpLog \in Seq(Lines)
    BY <1>0, <2>1 DEF Filed, Lines
  <2>3. mainLog' = mpLog
    BY <2>1, <2>2
  <2>4. Filed'
    BY <1>0, <1>1, <2>1, <2>2, <2>3 DEF Filed, Lines
  <2>5. LogsOK'
    BY <1>0, <1>1, <2>1, <2>3 DEF LogsOK, Taken, Ordered
  <2>6. Merged'
    <3>1. AllRead' <=> AllRead
      BY <1>1, <2>1 DEF AllRead, Logged
    <3> QED
      BY <1>0, <2>1, <2>3, <3>1 DEF Merged
  <2> QED
    BY <2>4, <2>5, <2>6 DEF LInv, LogsOK
<1>5. CASE RemoveMpLog
  <2>1. /\ pc = "remove" /\ pc' = "end" /\ mpExists' = FALSE
        /\ UNCHANGED <<lines, mpLog, mainLog>>
    BY <1>5 DEF RemoveMpLog
  <2>2. Filed'
    BY <1>0, <1>1, <2>1 DEF Filed
  <2>3. LogsOK'
    BY <1>0, <1>1, <2>1, FrameLogs DEF Logs
  <2>4. Merged'
    <3>1. AllRead' <=> AllRead
      BY <1>1, <2>1 DEF AllRead, Logged
    <3> QED
      BY <1>0, <2>1, <3>1 DEF Merged
  <2> QED
    BY <2>2, <2>3, <2>4 DEF LInv, LogsOK
<1> QED
  BY <1>2, <1>3, <1>4, <1>5

LEMMA NextLInv == LInv /\ [Next]_vars => LInv'
<1> SUFFICES ASSUME LInv, [Next]_vars PROVE LInv'
  OBVIOUS
<1>0. QInv'
  BY NextQInv DEF LInv
<1>1. CASE UNCHANGED vars
  <2>1. LogsOK'
    BY <1>1, FrameLogs DEF LInv, LogsOK, Logs, vars
  <2>2. Filed' /\ Merged'
    BY <1>1 DEF LInv, vars, Filed, Merged, AllRead, Logged
  <2> QED
    BY <1>0, <2>1, <2>2 DEF LInv, LogsOK
<1>2. CASE Next
  BY <1>0, <1>2, OtherLInv, HandleLInv, ControllerLInv DEF Next, Logger, Parent
<1> QED
  BY <1>1, <1>2

LEMMA InitLInv == Init => LInv
<1> SUFFICES ASSUME Init PROVE LInv
  OBVIOUS
<1>1. mpLog = <<>> /\ lines = <<>> /\ mainLog = <<>> /\ offset = 0 /\ pc = "join"
      /\ mpExists = FALSE /\ logger = "starting"
  BY DEF Init
<1>2. Filed /\ Merged
  <2>1. <<>> \in Seq(Messages) /\ <<>> \in Seq(Messages \cup {Hole}) /\ Len(<<>>) = 0
    OBVIOUS
  <2>2. mpExists \in BOOLEAN /\ (mpExists <=> logger # "starting")
    BY <1>1
  <2>3. 0 \in Nat /\ ~(offset > 0) /\ Len(<<>>) <= offset
    BY <1>1, <2>1
  <2>4. Filed
    BY <1>1, <2>1, <2>2, <2>3 DEF Filed
  <2> QED
    BY <1>1, <2>4 DEF Merged
<1>3. \A i \in 1..Len(<<>>) : FALSE
  OBVIOUS
<1>4. LogsOK
  BY <1>1, <1>3 DEF LogsOK, Taken, Ordered
<1> QED
  BY <1>2, <1>4, InitQInv DEF LInv, LogsOK

LEMMA LInvariant == Spec => []LInv
  BY InitLInv, NextLInv, PTL DEF Spec

(* Lines of a file stay in the order in which they were logged, in the     *)
(* temporary log, as it is read, sorted and written again while the logger *)
(* may still write to it, and in the main log; and when the logger was     *)
(* done in time the main log is the documented one.                        *)
THEOREM LinesStayInOrder == Spec => []LinesInOrder
<1>1. LInv => TypeOK
  BY SizesAssumption DEF LInv, QInv, QueueTypes, Filed, TypeOK
<1>2. LInv => OrderKept
  <2> SUFFICES ASSUME LInv PROVE OrderKept
    OBVIOUS
  <2>1. Ordered(mpLog) /\ Ordered(lines) /\ Ordered(mainLog)
    BY DEF LInv
  <2>2. /\ DOMAIN mpLog = 1..Len(mpLog) /\ DOMAIN lines = 1..Len(lines)
        /\ DOMAIN mainLog = 1..Len(mainLog)
    BY DEF LInv, Filed
  <2> QED
    BY <2>1, <2>2 DEF OrderKept, Ordered
<1>3. LInv => CleanMerge
  <2> SUFFICES ASSUME LInv, pc = "end", AllRead
               PROVE  /\ {mainLog[i] : i \in DOMAIN mainLog} = Logged
                      /\ \A i, j \in DOMAIN mainLog : i < j =>
                           \/ mainLog[i].file < mainLog[j].file
                           \/ /\ mainLog[i].file = mainLog[j].file
                              /\ mainLog[i].n < mainLog[j].n
    BY DEF CleanMerge, AllRead
  <2>1. /\ mainLog = SortedByKey(lines) /\ lines \in Seq(Messages) /\ lines \in Seq(Lines)
        /\ QInv /\ Taken(lines) /\ Ordered(lines)
    BY DEF LInv, Filed, Merged, Lines
  <2>0. /\ SortedByKey(lines) \in Seq(Lines)
        /\ Len(SortedByKey(lines)) = Len(lines)
    BY <2>1, SortFacts
  <2>2. /\ DOMAIN mainLog = 1..Len(lines) /\ DOMAIN lines = 1..Len(lines)
        /\ \A p \in 1..Len(lines) : /\ Origin(lines, p) \in 1..Len(lines)
                                    /\ mainLog[p] = lines[Origin(lines, p)]
        /\ \A i \in 1..Len(lines) : \E p \in 1..Len(lines) : mainLog[p] = lines[i]
    <3>1. DOMAIN mainLog = 1..Len(lines) /\ DOMAIN lines = 1..Len(lines)
      BY <2>0, <2>1
    <3> QED
      BY <2>1, <3>1, SortFacts
  <2>3. \A i \in 1..Len(lines) : lines[i] \in Messages /\ lines[i] \in Logged
    <3> TAKE i \in 1..Len(lines)
    <3>1. lines[i] \in Messages /\ lines[i] # Hole
      BY <2>1, MessageFacts
    <3> QED
      BY <2>1, <3>1, SentLogged DEF Taken
  <2>4. {mainLog[i] : i \in DOMAIN mainLog} = Logged
    <3>1. ASSUME NEW x \in {mainLog[i] : i \in DOMAIN mainLog} PROVE x \in Logged
      <4>1. PICK p \in 1..Len(lines) : x = mainLog[p]
        BY <2>2
      <4> QED
        BY <2>2, <2>3, <4>1
    <3>2. ASSUME NEW x \in Logged PROVE x \in {mainLog[i] : i \in DOMAIN mainLog}
      <4>1. PICK i \in 1..Len(lines) : x = lines[i]
        BY <2>2 DEF AllRead
      <4>2. PICK p \in 1..Len(lines) : mainLog[p] = lines[i]
        BY <2>2
      <4> QED
        BY <2>2, <4>1, <4>2
    <3> QED
      BY <3>1, <3>2
  <2>5. ASSUME NEW p \in 1..Len(lines), NEW q \in 1..Len(lines), p < q
        PROVE  \/ mainLog[p].file < mainLog[q].file
               \/ mainLog[p].file = mainLog[q].file /\ mainLog[p].n < mainLog[q].n
    <3> DEFINE i == Origin(lines, p)
               k == Origin(lines, q)
    <3>1. /\ i \in 1..Len(lines) /\ k \in 1..Len(lines)
          /\ mainLog[p] = lines[i] /\ mainLog[q] = lines[k]
      BY <2>2
    <3>2. \/ Key(lines[i]) < Key(lines[k])
          \/ Key(lines[i]) = Key(lines[k]) /\ i < k
      BY <2>1, <2>5, SortFacts
    <3> HIDE DEF i, k
    <3>3. lines[i].n > 0 /\ lines[k].n > 0
      BY <2>3, <3>1, MessageFacts
    <3> QED
      BY <2>1, <3>1, <3>2, <3>3 DEF Ordered, Key
  <2> QED
    BY <2>2, <2>4, <2>5
<1> QED
  BY <1>1, <1>2, <1>3, LInvariant, PTL DEF LinesInOrder
=============================================================================
