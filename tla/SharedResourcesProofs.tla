----------------------- MODULE SharedResourcesProofs -----------------------
(***************************************************************************)
(* Proofs about SharedResources for any number of runs, algorithms and     *)
(* grids.                                                                  *)
(***************************************************************************)
EXTENDS SharedResources, TLAPS

-----------------------------------------------------------------------------
(* Algorithms, objects and segments.                                       *)

Loads(a) == Algorithms[a].loads
Cleans(a) == Algorithms[a].cleans

LEMMA AlgorithmFacts ==
    /\ Len(Algorithms) \in Nat \ {0} /\ Algs \subseteq Nat \ {0} /\ 1 \in Algs
    /\ \A a \in Algs :
         /\ Loads(a) \in Seq(Names) /\ Len(Loads(a)) \in Nat \ {0}
         /\ Cleans(a) \in Seq(Nat) /\ Len(Cleans(a)) \in Nat \ {0}
<1>1. /\ Len(Algorithms) \in Nat \ {0} /\ Algs \subseteq Nat \ {0} /\ 1 \in Algs
      /\ \A a \in Algs : Algorithms[a] \in [loads : Seq(Names), cleans : Seq(Nat)]
  <2> DEFINE T == [loads : Seq(Names), cleans : Seq(Nat)]
  <2>1. Algorithms \in Seq(T) /\ Len(Algorithms) > 0
    BY AlgorithmsAssumption
  <2> HIDE DEF T
  <2>2. /\ Len(Algorithms) \in Nat \ {0} /\ Algs \subseteq Nat \ {0} /\ 1 \in Algs
        /\ \A a \in Algs : Algorithms[a] \in T
    BY <2>1 DEF Algs
  <2> QED
    BY <2>2 DEF T
<1>2. ASSUME NEW a \in Algs
      PROVE  /\ Loads(a) \in Seq(Names) /\ Len(Loads(a)) \in Nat \ {0}
             /\ Cleans(a) \in Seq(Nat) /\ Len(Cleans(a)) \in Nat \ {0}
  <2>1. Loads(a) \in Seq(Names) /\ Cleans(a) \in Seq(Nat) /\ Loads(a) # <<>>
    BY <1>1, AlgorithmsAssumption DEF Loads, Cleans
  <2>2. Len(Loads(a)) \in Nat \ {0}
    BY <2>1
  <2>3. 1 \in DOMAIN Loads(a)
    BY <2>1, <2>2
  <2>4. DOMAIN Cleans(a) # {}
    BY <2>3, CleanUpAssumption DEF Loads, Cleans
  <2> QED
    BY <2>1, <2>2, <2>4
<1> QED
  BY <1>1, <1>2

LEMMA ObjectFacts ==
    /\ \A a, k : <<a, k>> \in Objects <=> a \in Algs /\ k \in 1..Len(Loads(a))
    /\ \A o \in Objects : /\ o = <<o[1], o[2]>> /\ o[1] \in Algs /\ o[2] \in Nat \ {0}
                          /\ o[2] \in 1..Len(Loads(o[1])) /\ Name(o) \in Names
    /\ <<1, 1>> \in Objects
<1>1. \A a \in Algs : /\ DOMAIN Loads(a) = 1..Len(Loads(a)) /\ Len(Loads(a)) \in Nat \ {0}
                      /\ \A k \in 1..Len(Loads(a)) : Loads(a)[k] \in Names
  BY AlgorithmFacts
<1>2. \A o : o \in Objects <=> \E a \in Algs : \E k \in 1..Len(Loads(a)) : o = <<a, k>>
  BY <1>1 DEF Objects, Loads
<1>3. \A a, k : <<a, k>> \in Objects <=> a \in Algs /\ k \in 1..Len(Loads(a))
  BY <1>2
<1>4. ASSUME NEW o \in Objects
      PROVE  /\ o = <<o[1], o[2]>> /\ o[1] \in Algs /\ o[2] \in Nat \ {0}
             /\ o[2] \in 1..Len(Loads(o[1])) /\ Name(o) \in Names
  <2>0. PICK a \in Algs : \E k \in 1..Len(Loads(a)) : o = <<a, k>>
    BY <1>2
  <2>1. PICK k \in 1..Len(Loads(a)) : o = <<a, k>>
    BY <2>0
  <2>2. Name(o) = Loads(a)[k]
    BY <2>1 DEF Name, Loads
  <2> QED
    BY <1>1, <2>1, <2>2
<1>5. <<1, 1>> \in Objects
  BY <1>1, <1>3, AlgorithmFacts
<1> QED
  BY <1>3, <1>4, <1>5

LEMMA ObjectPairs == Objects \subseteq Algs \X (Nat \ {0})
<1> SUFFICES ASSUME NEW o \in Objects PROVE o \in Algs \X (Nat \ {0})
  OBVIOUS
<1>1. o = <<o[1], o[2]>> /\ o[1] \in Algs /\ o[2] \in Nat \ {0}
  BY ObjectFacts
<1> QED
  BY <1>1

LEMMA IdFacts ==
    /\ NoSeg \notin Ids
    /\ \A i \in Ids : i = <<i[1], i[2]>> /\ i[1] \in Runs /\ i[2] \in Objects
  BY DEF Ids, NoSeg
-----------------------------------------------------------------------------
(* The inductive invariant for runs that share names.                      *)

Loading == {"attach", "create", "size", "fill"}

(* The order in which init() of the algorithms loads the objects.          *)
Before(o, p) == o[1] < p[1] \/ (o[1] = p[1] /\ o[2] < p[2])

(* A run that loads is at one of its objects, one that cleans up at one of *)
(* the clean-ups of an algorithm.                                          *)
Place ==
    \A r \in Runs :
       /\ pc[r] \in Loading => at[r] \in Objects /\ failed[r] = 0
       /\ pc[r] \in {"idle", "process"} => at[r] = <<1, 1>> /\ failed[r] = 0
       /\ pc[r] = "finalize" => at[r][2] \in 1..Len(Cleans(at[r][1]))

(* A segment has been created only for an object that the run has reached. *)
Fresh ==
    \A r \in Runs, o \in Objects : content[<<r, o>>] # "none" =>
       /\ pc[r] # "idle"
       /\ pc[r] \in {"attach", "create"} => Before(o, at[r])
       /\ pc[r] \in {"size", "fill"} => Before(o, at[r]) \/ o = at[r]

(* Segments and objects agree on names, and what an object holds has a     *)
(* size.                                                                   *)
Named ==
    /\ \A n \in Names : seg[n] # NoSeg => Name(seg[n][2]) = n /\ content[seg[n]] # "none"
    /\ \A r \in Runs, o \in Objects :
         /\ obj[r][o].id # NoSeg => /\ content[obj[r][o].id] \in {"zeros", "grid"}
                                    /\ Name(obj[r][o].id[2]) = Name(o)
         /\ obj[r][o].child => obj[r][o].id # NoSeg

(* A segment is not filled only while its creator is at work on it, or     *)
(* when the creator died there.                                            *)
Dead == {"killed", "lost", "ended"}
Unfilled ==
    /\ \A r \in Runs, o \in Objects :
         /\ content[<<r, o>>] = "empty" => (pc[r] = "size" /\ at[r] = o) \/ pc[r] \in Dead
         /\ content[<<r, o>>] = "zeros" => (pc[r] = "fill" /\ at[r] = o) \/ pc[r] \in Dead
    /\ \A r \in Runs : /\ pc[r] = "size" => content[<<r, at[r]>>] = "empty"
                       /\ pc[r] = "fill" => content[<<r, at[r]>>] = "zeros"

(* An object holds a segment of its own run only when it is complete.      *)
Own ==
    \A r \in Runs, o \in Objects :
       obj[r][o].id # NoSeg /\ obj[r][o].id[1] = r => content[obj[r][o].id] = "grid"

SInv == TypeOK /\ Place /\ Fresh /\ Named /\ Unfilled /\ Own

-----------------------------------------------------------------------------
(* The inductive invariant for a run that is alone.                        *)

(* A clean-up of object o is still to come when clean-up p is the next.    *)
PendingAt(p, o) ==
    \E c \in 1..Len(Cleans(o[1])) :
       Cleans(o[1])[c] = o[2] /\ ~Before(<<o[1], c>>, p)

Pending(r, o) == PendingAt(at[r], o)

(* An object that is no child holds the segment it created.                *)
Maker(r, o) == obj[r][o].id # NoSeg /\ ~obj[r][o].child
Makers == \A r \in Runs, o \in Objects : Maker(r, o) => obj[r][o].id = <<r, o>>

(* No other run acts, and all segments are those of run r.                 *)
Single(r) ==
    /\ \A q \in Runs \ {r} : ~Active(q)
    /\ \A n \in Names : seg[n] # NoSeg => seg[n][1] = r

(* Each segment belongs to the object that created it, and that object     *)
(* will be cleaned up, unless its init() raised.                           *)
Owned(r) ==
    /\ pc[r] \in Loading \cup {"process", "finalize"} =>
         \A n \in Names : seg[n] # NoSeg =>
            \/ obj[r][seg[n][2]] = [id |-> seg[n], child |-> FALSE]
            \/ pc[r] \in {"size", "fill"} /\ seg[n][2] = at[r]
    /\ pc[r] \in {"size", "fill"} => seg[Name(at[r])] = <<r, at[r]>>
    /\ pc[r] = "finalize" =>
         /\ failed[r] # 0 => at[r][1] < failed[r]
         /\ \A n \in Names : seg[n] # NoSeg =>
              /\ Pending(r, seg[n][2])
              /\ failed[r] # 0 => seg[n][2][1] <= failed[r]

(* The creator of a mask whose clean-up is to come still has its segment.  *)
Kept(r) ==
    \A o \in Objects :
       /\ Maker(r, o) /\ Name(o) \in Masks
       /\ pc[r] \in Loading \cup {"process"} \/ (pc[r] = "finalize" /\ Pending(r, o))
       => seg[Name(o)] = <<r, o>>

(* CleanWhenAlone for run r.                                               *)
Tidy(r) ==
    pc[r] = "returned" =>
       \A n \in Names : seg[n] # NoSeg => failed[r] # 0 /\ seg[n][2][1] = failed[r]

Solo(r) == Owned(r) /\ Kept(r) /\ Tidy(r)

AInv == SInv /\ Makers /\ \A r \in Runs : alone[r] /\ Active(r) => Single(r) /\ Solo(r)
-----------------------------------------------------------------------------
(* What the parts of the actions do.                                       *)

(* A run that moves stays at a control point.                              *)
Points == {"idle", "attach", "create", "size", "fill", "process", "finalize", "returned",
           "aborted", "raised", "killed", "lost", "ended"}

LEMMA MovesToPoint ==
    ASSUME TypeOK, NEW r \in Runs, pc' = [pc EXCEPT ![r] = pc'[r]], pc'[r] \in Points
    PROVE  pc' \in [Runs -> Points]
BY DEF TypeOK, Points

(* After an object comes a later one of the run, or the chunks.            *)
LEMMA LoadedEffect ==
    ASSUME TypeOK, NEW r \in Runs, at[r] \in Objects, Loaded(r)
    PROVE  /\ at' = [at EXCEPT ![r] = at'[r]] /\ pc' = [pc EXCEPT ![r] = pc'[r]]
           /\ \/ /\ pc'[r] = "attach" /\ at'[r] \in Objects
                 /\ \A o \in Objects : Before(o, at[r]) \/ o = at[r] => Before(o, at'[r])
              \/ pc'[r] = "process" /\ at'[r] = <<1, 1>>
<1> DEFINE a == at[r][1]
           k == at[r][2]
<1>1. /\ a \in Algs /\ k \in 1..Len(Loads(a)) /\ a \in Nat /\ k \in Nat
      /\ Len(Loads(a)) \in Nat /\ Len(Algorithms) \in Nat
  BY ObjectFacts, AlgorithmFacts
<1>2. at \in [Runs -> Algs \X (Nat \ {0})] /\ pc = [q \in Runs |-> pc[q]]
  BY DEF TypeOK
<1>3. \A o \in Objects : o[1] \in Nat /\ o[2] \in Nat /\ o = <<o[1], o[2]>>
  BY ObjectFacts, AlgorithmFacts
<1>4. CASE k < Len(Loads(a))
  <2>1. at' = [at EXCEPT ![r] = <<a, k + 1>>] /\ pc' = [pc EXCEPT ![r] = "attach"]
    BY <1>4 DEF Loaded, Goto, Loads
  <2>2. <<a, k + 1>> \in Objects
    BY <1>1, <1>4, ObjectFacts
  <2> QED
    BY <1>1, <1>2, <1>3, <2>1, <2>2 DEF Before
<1>5. CASE ~(k < Len(Loads(a))) /\ a < Len(Algorithms)
  <2>1. at' = [at EXCEPT ![r] = <<a + 1, 1>>] /\ pc' = [pc EXCEPT ![r] = "attach"]
    BY <1>5 DEF Loaded, Goto, Loads
  <2>2. a + 1 \in Algs
    BY <1>1, <1>5 DEF Algs
  <2>3. <<a + 1, 1>> \in Objects
    BY <2>2, ObjectFacts, AlgorithmFacts, SMTT(30)
  <2> QED
    BY <1>1, <1>2, <1>3, <2>1, <2>3 DEF Before
<1>6. CASE ~(k < Len(Loads(a))) /\ ~(a < Len(Algorithms))
  <2>1. at' = [at EXCEPT ![r] = <<1, 1>>] /\ pc' = [pc EXCEPT ![r] = "process"]
    BY <1>6 DEF Loaded, Goto, Loads
  <2> QED
    BY <1>2, <2>1
<1> QED
  BY <1>4, <1>5, <1>6

(* After a clean-up comes the next one, or run_chain() returns.            *)
LEMMA CleanedEffect ==
    ASSUME TypeOK, NEW r \in Runs, Place, pc[r] = "finalize", Cleaned(r)
    PROVE  /\ at' = [at EXCEPT ![r] = at'[r]] /\ pc' = [pc EXCEPT ![r] = pc'[r]]
           /\ pc'[r] \in {"finalize", "returned"} /\ at'[r] \in Algs \X (Nat \ {0})
           /\ pc'[r] = "finalize" => at'[r][2] \in 1..Len(Cleans(at'[r][1]))
<1> DEFINE a == at[r][1]
           c == at[r][2]
           last == IF failed[r] = 0 THEN Len(Algorithms) ELSE failed[r] - 1
<1>1. /\ a \in Algs /\ c \in 1..Len(Cleans(a)) /\ a \in Nat /\ c \in Nat
      /\ Len(Cleans(a)) \in Nat /\ Len(Algorithms) \in Nat /\ failed[r] \in 0..Len(Algorithms)
  BY AlgorithmFacts DEF TypeOK, Place
<1>2. at \in [Runs -> Algs \X (Nat \ {0})] /\ pc = [q \in Runs |-> pc[q]]
  BY DEF TypeOK
<1>4. CASE c < Len(Cleans(a))
  <2>1. at' = [at EXCEPT ![r] = <<a, c + 1>>] /\ pc' = pc
    BY <1>4 DEF Cleaned, Cleans
  <2> QED
    BY <1>1, <1>2, <1>4, <2>1
<1>5. CASE ~(c < Len(Cleans(a))) /\ a < last
  <2>1. at' = [at EXCEPT ![r] = <<a + 1, 1>>] /\ pc' = pc
    BY <1>5 DEF Cleaned, Cleans
  <2>2. a + 1 \in Algs
    BY <1>1, <1>5 DEF Algs
  <2>3. Len(Cleans(a + 1)) \in Nat \ {0}
    BY <2>2, AlgorithmFacts
  <2> QED
    BY <1>2, <2>1, <2>2, <2>3
<1>6. CASE ~(c < Len(Cleans(a))) /\ ~(a < last)
  <2>1. at' = at /\ pc' = [pc EXCEPT ![r] = "returned"]
    BY <1>6 DEF Cleaned, Goto, Cleans
  <2> QED
    BY <1>2, <2>1
<1> QED
  BY <1>4, <1>5, <1>6

(* The object that a clean-up is for.                                      *)
LEMMA CleaningObject ==
    ASSUME TypeOK, NEW r \in Runs, Place, pc[r] = "finalize"
    PROVE  /\ Cleaning(r) \in Objects /\ Name(Cleaning(r)) \in Names
           /\ Cleaning(r)[1] = at[r][1] /\ Cleaning(r)[2] = Cleans(at[r][1])[at[r][2]]
<1>1. at[r][1] \in Algs /\ at[r][2] \in 1..Len(Cleans(at[r][1]))
  BY DEF TypeOK, Place
<1>2. Cleans(at[r][1])[at[r][2]] \in 1..Len(Loads(at[r][1]))
  <2>1. at[r][2] \in DOMAIN Cleans(at[r][1])
    BY <1>1, AlgorithmFacts
  <2>2. Cleans(at[r][1])[at[r][2]] \in DOMAIN Loads(at[r][1])
    BY <1>1, <2>1, CleanUpAssumption DEF Loads, Cleans
  <2> QED
    BY <1>1, <2>2, AlgorithmFacts
<1>3. Cleaning(r) = <<at[r][1], Cleans(at[r][1])[at[r][2]]>>
  BY DEF Cleaning, Cleans
<1> QED
  BY <1>1, <1>2, <1>3, ObjectFacts
-----------------------------------------------------------------------------
(* Steps that load.                                                        *)

LEMMA SInvFacts ==
    ASSUME SInv
    PROVE  /\ TypeOK /\ Place /\ Fresh /\ Named /\ Unfilled /\ Own
           /\ \A n \in Names : seg[n] # NoSeg =>
                /\ seg[n] \in Ids /\ seg[n] = <<seg[n][1], seg[n][2]>>
                /\ seg[n][1] \in Runs /\ seg[n][2] \in Objects
           /\ \A r \in Runs, o \in Objects :
                /\ Name(o) \in Names /\ <<r, o>> \in Ids /\ <<r, o>> # NoSeg
                /\ obj[r][o].id # NoSeg =>
                     /\ obj[r][o].id \in Ids /\ obj[r][o].id[2] \in Objects
                     /\ obj[r][o].id = <<obj[r][o].id[1], obj[r][o].id[2]>>
<1>1. TypeOK /\ Place /\ Fresh /\ Named /\ Unfilled /\ Own
  BY DEF SInv
<1>2. \A n \in Names : seg[n] # NoSeg => seg[n] \in Ids
  BY <1>1 DEF TypeOK
<1>3. \A r \in Runs, o \in Objects :
         Name(o) \in Names /\ <<r, o>> \in Ids /\ <<r, o>> # NoSeg
  BY ObjectFacts, IdFacts DEF Ids
<1>4. \A r \in Runs, o \in Objects : obj[r][o].id # NoSeg => obj[r][o].id \in Ids
  BY <1>1 DEF TypeOK
<1> QED
  BY <1>1, <1>2, <1>3, <1>4, IdFacts

(* The steps that only move a run on: none of them touches a segment or an *)
(* object, and a run that leaves a segment unfilled dies.                  *)
LEMMA MoveSInv ==
    ASSUME SInv, NEW r \in Runs, UNCHANGED <<seg, content, obj>>,
           pc' = [pc EXCEPT ![r] = pc'[r]], at' = [at EXCEPT ![r] = at'[r]],
           Place', TypeOK', pc'[r] \notin {"idle", "ended", "size", "fill"},
           pc[r] \notin Dead, pc[r] \in {"size", "fill"} => pc'[r] \in Dead,
           pc'[r] \in {"attach", "create"} =>
              \A o \in Objects : content[<<r, o>>] # "none" => Before(o, at'[r])
    PROVE  SInv'
<1>1. TypeOK /\ Fresh /\ Named /\ Unfilled /\ Own
  BY DEF SInv
<1>2. \A q \in Runs \ {r} : pc'[q] = pc[q] /\ at'[q] = at[q]
  BY <1>1 DEF TypeOK
<1>3. Fresh'
  BY <1>1, <1>2 DEF Fresh
<1>4. Named'
  BY <1>1 DEF Named
<1>5. Unfilled'
  BY <1>1, <1>2 DEF Unfilled
<1>6. Own'
  BY <1>1 DEF Own
<1> QED
  BY <1>3, <1>4, <1>5, <1>6 DEF SInv

(* An init() that raises, in a run that is loading.                        *)
LEMMA InitRaisesSInv ==
    ASSUME SInv, NEW r \in Runs, pc[r] \in {"attach", "create"}, InitRaises(r),
           UNCHANGED <<seg, content, obj, tracker, alone>>
    PROVE  SInv'
<1>1. /\ TypeOK /\ Place /\ at[r] \in Objects
      /\ at[r][1] \in Algs /\ at[r][1] \in 0..Len(Algorithms) /\ <<1, 1>> \in Algs \X (Nat \ {0})
  <2>1. at[r] \in Objects
    BY DEF SInv, Place, Loading
  <2>2. at[r][1] \in 1..Len(Algorithms) /\ Len(Algorithms) \in Nat /\ 1 \in Algs
    BY <2>1, ObjectFacts, AlgorithmFacts DEF Algs
  <2> QED
    BY <2>1, <2>2 DEF SInv, Algs
<1>2. /\ failed' = [failed EXCEPT ![r] = at[r][1]] /\ at' = [at EXCEPT ![r] = <<1, 1>>]
      /\ pc' = [pc EXCEPT ![r] = pc'[r]] /\ pc'[r] \in {"returned", "finalize"}
  BY <1>1 DEF InitRaises, Goto, TypeOK
<1>3. TypeOK'
  <2>1. pc' \in [Runs -> Points]
    BY <1>1, <1>2, MovesToPoint DEF Points
  <2>2. at' \in [Runs -> Algs \X (Nat \ {0})]
    BY <1>1, <1>2 DEF TypeOK
  <2>3. failed' \in [Runs -> 0..Len(Algorithms)]
    BY <1>1, <1>2 DEF TypeOK
  <2>4. UNCHANGED <<seg, content, obj, tracker, alone>>
    BY DEF InitRaises
  <2> QED BY <1>1, <2>1, <2>2, <2>3, <2>4 DEF TypeOK, Points
<1>4. Place'
  <2>1. at'[r] = <<1, 1>> /\ Len(Cleans(1)) \in Nat \ {0}
    BY <1>1, <1>2, AlgorithmFacts DEF TypeOK
  <2>2. \A q \in Runs \ {r} : pc'[q] = pc[q] /\ at'[q] = at[q] /\ failed'[q] = failed[q]
    BY <1>1, <1>2 DEF TypeOK
  <2> QED
    BY <1>1, <1>2, <2>1, <2>2 DEF Place, Loading
<1> QED
  BY <1>1, <1>2, <1>3, <1>4, MoveSInv DEF Dead, TypeOK

(* The next object is loaded without one of the earlier steps having left  *)
(* anything: Dem.load() that finds no file.                                *)
LEMMA LoadedPlace ==
    ASSUME TypeOK, Place, NEW r \in Runs, pc[r] \in Loading, Loaded(r), UNCHANGED failed
    PROVE  /\ Place' /\ at' \in [Runs -> Algs \X (Nat \ {0})]
           /\ pc' = [pc EXCEPT ![r] = pc'[r]] /\ at' = [at EXCEPT ![r] = at'[r]]
           /\ pc'[r] \in {"attach", "process"}
           /\ pc'[r] = "attach" =>
                \A o \in Objects : Before(o, at[r]) \/ o = at[r] => Before(o, at'[r])
<1>1. at[r] \in Objects /\ failed[r] = 0
  BY DEF Place
<1>2. /\ at' = [at EXCEPT ![r] = at'[r]] /\ pc' = [pc EXCEPT ![r] = pc'[r]]
      /\ \/ /\ pc'[r] = "attach" /\ at'[r] \in Objects
            /\ \A o \in Objects : Before(o, at[r]) \/ o = at[r] => Before(o, at'[r])
         \/ pc'[r] = "process" /\ at'[r] = <<1, 1>>
  BY <1>1, LoadedEffect
<1>3. at'[r] \in Algs \X (Nat \ {0})
  <2>1. at'[r] \in Objects
    BY <1>2, ObjectFacts
  <2> QED
    BY <2>1, ObjectPairs
<1>4. \A q \in Runs \ {r} : pc'[q] = pc[q] /\ at'[q] = at[q] /\ failed'[q] = failed[q]
  BY <1>2 DEF TypeOK
<1>5. Place'
  BY <1>1, <1>2, <1>4 DEF Place, Loading
<1>6. at' \in [Runs -> Algs \X (Nat \ {0})]
  BY <1>2, <1>3 DEF TypeOK
<1> QED
  BY <1>2, <1>5, <1>6

LEMMA SimpleSInv ==
    ASSUME SInv, NEW r \in Runs,
           Start(r) \/ ImportFails(r) \/ FileMissing(r) \/ Process(r) \/ Kill(r)
    PROVE  SInv'
<1>0. TypeOK /\ Place /\ Fresh
  BY DEF SInv
<1>1. CASE Start(r)
  <2>1. /\ pc[r] = "idle" /\ pc' = [pc EXCEPT ![r] = "attach"]
        /\ UNCHANGED <<seg, content, at, obj, tracker, failed>>
    BY <1>1 DEF Start, Goto
  <2>2. alone' \in [Runs -> BOOLEAN]
    BY <1>0, <1>1 DEF Start, TypeOK
  <2>3. TypeOK'
    BY <1>0, <2>1, <2>2 DEF TypeOK
  <2>4. Place'
    BY <1>0, <2>1, ObjectFacts DEF Place, TypeOK, Loading
  <2>5. \A o \in Objects : content[<<r, o>>] = "none"
    BY <1>0, <2>1 DEF Fresh
  <2>6. pc'[r] = "attach" /\ at' = [at EXCEPT ![r] = at'[r]]
    BY <1>0, <2>1 DEF TypeOK
  <2> QED
    BY <2>1, <2>3, <2>4, <2>5, <2>6, MoveSInv DEF Dead
<1>2. CASE ImportFails(r) \/ Kill(r)
  <2>1. /\ UNCHANGED <<seg, content, at, obj, tracker, failed, alone>>
        /\ pc' = [pc EXCEPT ![r] = pc'[r]] /\ pc'[r] \in {"aborted", "killed", "lost"}
        /\ pc[r] \notin Dead /\ (pc[r] \in {"size", "fill"} => pc'[r] \in Dead)
    BY <1>0, <1>2 DEF ImportFails, Kill, Goto, TypeOK, Dead
  <2>2. TypeOK'
    <3>1. pc' \in [Runs -> Points]
      BY <1>0, <2>1, MovesToPoint DEF Points
    <3> QED BY <1>0, <2>1, <3>1 DEF TypeOK, Points
  <2>3. Place' /\ at' = [at EXCEPT ![r] = at'[r]]
    BY <1>0, <2>1 DEF Place, TypeOK, Loading
  <2> QED
    BY <2>1, <2>2, <2>3, MoveSInv
<1>3. CASE FileMissing(r)
  <2>1. CASE InitRaises(r)
    BY <1>3, <2>1, InitRaisesSInv DEF FileMissing
  <2>2. CASE Loaded(r) /\ UNCHANGED failed
    <3>1. pc[r] = "attach" /\ UNCHANGED <<seg, content, obj, tracker, alone, failed>>
      BY <1>3, <2>2 DEF FileMissing
    <3>2. /\ Place' /\ at' \in [Runs -> Algs \X (Nat \ {0})]
          /\ pc' = [pc EXCEPT ![r] = pc'[r]] /\ at' = [at EXCEPT ![r] = at'[r]]
          /\ pc'[r] \in {"attach", "process"}
          /\ pc'[r] = "attach" =>
               \A o \in Objects : Before(o, at[r]) \/ o = at[r] => Before(o, at'[r])
      BY <1>0, <2>2, <3>1, LoadedPlace DEF Loading
    <3>3. TypeOK'
      <4>1. pc' \in [Runs -> Points]
        BY <1>0, <3>2, MovesToPoint DEF Points
      <4> QED
        BY <1>0, <3>1, <3>2, <4>1 DEF TypeOK, Points
    <3>4. \A o \in Objects : content[<<r, o>>] # "none" => Before(o, at[r])
      BY <1>0, <3>1 DEF Fresh
    <3> QED
      BY <3>1, <3>2, <3>3, <3>4, MoveSInv DEF Dead
  <2> QED
    BY <1>3, <2>1, <2>2 DEF FileMissing
<1>4. CASE Process(r)
  <2>1. /\ UNCHANGED <<seg, content, at, obj, tracker, failed, alone>>
        /\ pc' = [pc EXCEPT ![r] = pc'[r]] /\ pc'[r] \in {"finalize", "raised"}
        /\ pc[r] = "process"
    BY <1>0, <1>4 DEF Process, Goto, TypeOK
  <2>2. TypeOK'
    BY <1>0, <2>1 DEF TypeOK
  <2>4. Place' /\ at' = [at EXCEPT ![r] = at'[r]]
    <3>1. at[r] = <<1, 1>> /\ Len(Cleans(1)) \in Nat \ {0}
      BY <1>0, <2>1, AlgorithmFacts DEF Place
    <3> QED
      BY <1>0, <2>1, <3>1 DEF Place, TypeOK, Loading
  <2> QED
    BY <2>1, <2>2, <2>4, MoveSInv DEF Dead
<1> QED
  BY <1>1, <1>2, <1>3, <1>4

(* Attaching by name: the segment is there, with a size, and if it is one  *)
(* of this run it was filled before.                                       *)
LEMMA AttachSInv ==
    ASSUME SInv, NEW r \in Runs, Attach(r)
    PROVE  SInv'
<1> DEFINE n == Name(at[r])
<1>0. TypeOK /\ Place /\ Fresh /\ Named /\ Unfilled /\ Own
  BY DEF SInv
<1>1. /\ pc[r] = "attach" /\ at[r] \in Objects /\ n \in Names
      /\ UNCHANGED <<seg, content, alone>>
  BY <1>0, ObjectFacts DEF Attach, Place, Loading
<1>2. CASE seg[n] = NoSeg
  <2>1. pc' = [pc EXCEPT ![r] = "create"] /\ UNCHANGED <<at, obj, tracker, failed>>
    BY <1>2 DEF Attach, Goto
  <2>2. TypeOK' /\ at' = [at EXCEPT ![r] = at'[r]] /\ pc'[r] = "create"
    BY <1>0, <1>1, <2>1 DEF TypeOK
  <2>3. Place'
    BY <1>0, <1>1, <2>1 DEF Place, TypeOK, Loading
  <2>4. \A o \in Objects : content[<<r, o>>] # "none" => Before(o, at[r])
    BY <1>0, <1>1 DEF Fresh
  <2> QED
    BY <1>1, <2>1, <2>2, <2>3, <2>4, MoveSInv DEF Dead
<1>3. CASE seg[n] # NoSeg /\ content[seg[n]] = "empty"
  <2>1. InitRaises(r) /\ UNCHANGED <<obj, tracker>>
    BY <1>3 DEF Attach
  <2> QED
    BY <1>1, <2>1, InitRaisesSInv
<1>4. CASE seg[n] # NoSeg /\ content[seg[n]] # "empty"
  <2>1. /\ obj' = [obj EXCEPT ![r][at[r]] = [id |-> seg[n], child |-> TRUE]]
        /\ tracker' = [tracker EXCEPT ![r] = @ \cup {n}]
        /\ Loaded(r) /\ UNCHANGED failed
    BY <1>4 DEF Attach, Register
  <2>2. /\ Place' /\ at' \in [Runs -> Algs \X (Nat \ {0})]
        /\ pc' = [pc EXCEPT ![r] = pc'[r]] /\ at' = [at EXCEPT ![r] = at'[r]]
        /\ pc'[r] \in {"attach", "process"}
        /\ pc'[r] = "attach" =>
             \A o \in Objects : Before(o, at[r]) \/ o = at[r] => Before(o, at'[r])
    BY <1>0, <1>1, <2>1, LoadedPlace DEF Loading
  <2>3. \A q \in Runs \ {r} : pc'[q] = pc[q] /\ at'[q] = at[q]
    BY <1>0, <2>2 DEF TypeOK
  <2>4. /\ \A q \in Runs, o \in Objects :
             <<q, o>> # <<r, at[r]>> => obj'[q][o] = obj[q][o]
        /\ obj'[r][at[r]] = [id |-> seg[n], child |-> TRUE]
    BY <1>0, <1>1, <2>1 DEF TypeOK
  <2>5. TypeOK'
    <3>1. obj' \in [Runs -> [Objects -> [id : Ids \cup {NoSeg}, child : BOOLEAN]]]
      BY <1>0, <1>1, <2>1 DEF TypeOK
    <3>2. tracker' \in [Runs -> SUBSET Names]
      BY <1>0, <1>1, <2>1 DEF TypeOK
    <3>3. pc' \in [Runs -> {"idle", "attach", "create", "size", "fill", "process",
                            "finalize", "returned", "aborted", "raised", "killed",
                            "lost", "ended"}]
      BY <1>0, <2>2 DEF TypeOK
    <3> QED
      BY <1>0, <1>1, <2>1, <2>2, <3>1, <3>2, <3>3 DEF TypeOK
  <2>6. Fresh'
    BY <1>0, <1>1, <2>2, <2>3 DEF Fresh
  <2>7. Name(seg[n][2]) = n /\ content[seg[n]] \in {"zeros", "grid"}
    BY <1>0, <1>1, <1>4 DEF Named, TypeOK
  <2>8. Named'
    BY <1>0, <1>1, <1>4, <2>4, <2>7 DEF Named
  <2>9. Unfilled'
    BY <1>0, <1>1, <2>2, <2>3 DEF Unfilled, Dead
  <2>10. Own'
    <3>1. seg[n] \in Ids /\ seg[n] = <<seg[n][1], seg[n][2]>> /\ seg[n][2] \in Objects
      BY <1>1, <1>4, SInvFacts
    <3>2. seg[n][1] = r => content[seg[n]] = "grid"
      BY <1>0, <1>1, <2>7, <3>1 DEF Unfilled, Dead
    <3> QED
      BY <1>0, <1>1, <2>4, <3>2 DEF Own
  <2> QED
    BY <2>2, <2>5, <2>6, <2>8, <2>9, <2>10 DEF SInv
<1> QED
  BY <1>2, <1>3, <1>4

(* Creating: the segment is new, so no object holds it.                    *)
LEMMA CreateSInv ==
    ASSUME SInv, NEW r \in Runs, Create(r)
    PROVE  SInv'
<1> DEFINE n == Name(at[r])
           id == <<r, at[r]>>
<1>0. TypeOK /\ Place /\ Fresh /\ Named /\ Unfilled /\ Own
  BY DEF SInv
<1>1. /\ pc[r] = "create" /\ at[r] \in Objects /\ n \in Names
      /\ UNCHANGED <<obj, tracker, alone>> /\ id \in Ids /\ id # NoSeg
  BY <1>0, ObjectFacts, IdFacts DEF Create, Place, Loading, Ids
<1>2. CASE seg[n] # NoSeg
  <2>1. InitRaises(r) /\ UNCHANGED <<seg, content>>
    BY <1>2 DEF Create
  <2> QED
    BY <1>1, <2>1, InitRaisesSInv
<1>3. CASE seg[n] = NoSeg
  <2>1. /\ seg' = [seg EXCEPT ![n] = id] /\ content' = [content EXCEPT ![id] = "empty"]
        /\ pc' = [pc EXCEPT ![r] = "size"] /\ UNCHANGED <<at, failed>>
    BY <1>3 DEF Create, Goto
  <2>2. content[id] = "none"
    <3>1. at[r][1] \in Nat /\ at[r][2] \in Nat
      BY <1>1, ObjectFacts, AlgorithmFacts
    <3>2. ~Before(at[r], at[r])
      BY <3>1 DEF Before
    <3> QED
      BY <1>0, <1>1, <3>2 DEF Fresh
  <2>3. /\ \A m \in Names : seg'[m] = IF m = n THEN id ELSE seg[m]
        /\ \A i \in Ids : content'[i] = IF i = id THEN "empty" ELSE content[i]
        /\ \A q \in Runs : pc'[q] = IF q = r THEN "size" ELSE pc[q]
    BY <1>0, <1>1, <2>1 DEF TypeOK
  <2>4. TypeOK'
    BY <1>0, <1>1, <2>1 DEF TypeOK
  <2>5. Place'
    BY <1>0, <1>1, <2>1, <2>3 DEF Place, Loading
  <2>6. Fresh'
    <3> SUFFICES ASSUME NEW q \in Runs, NEW o \in Objects, content'[<<q, o>>] # "none"
                 PROVE  /\ pc'[q] # "idle"
                        /\ pc'[q] \in {"attach", "create"} => Before(o, at[q])
                        /\ pc'[q] \in {"size", "fill"} => Before(o, at[q]) \/ o = at[q]
      BY <2>1 DEF Fresh
    <3>1. <<q, o>> \in Ids
      BY DEF Ids
    <3>2. CASE <<q, o>> = id
      BY <2>3, <3>2
    <3>3. CASE <<q, o>> # id
      BY <1>0, <1>1, <2>3, <3>1, <3>3 DEF Fresh
    <3> QED
      BY <3>2, <3>3
  <2>7. Name(id[2]) = n /\ id[1] = r
    OBVIOUS
  <2>8. Named'
    <3>1. ASSUME NEW m \in Names, seg'[m] # NoSeg
          PROVE  Name(seg'[m][2]) = m /\ content'[seg'[m]] # "none"
      <4>1. CASE m = n
        BY <1>1, <2>3, <2>7, <4>1
      <4>2. CASE m # n
        <5>1. seg'[m] = seg[m] /\ seg[m] # NoSeg
          BY <2>3, <3>1, <4>2
        <5>2. seg[m] \in Ids /\ Name(seg[m][2]) = m /\ content[seg[m]] # "none"
          BY <1>0, <5>1, SInvFacts DEF Named
        <5> QED
          BY <2>3, <5>1, <5>2
      <4> QED
        BY <4>1, <4>2
    <3>2. ASSUME NEW q \in Runs, NEW o \in Objects
          PROVE  /\ obj[q][o].id # NoSeg =>
                      /\ content'[obj[q][o].id] \in {"zeros", "grid"}
                      /\ Name(obj[q][o].id[2]) = Name(o)
                 /\ obj[q][o].child => obj[q][o].id # NoSeg
      <4>1. /\ obj[q][o].id # NoSeg =>
                 /\ content[obj[q][o].id] \in {"zeros", "grid"}
                 /\ Name(obj[q][o].id[2]) = Name(o)
            /\ obj[q][o].child => obj[q][o].id # NoSeg
        BY <1>0, SInvFacts DEF Named
      <4>2. obj[q][o].id # NoSeg => obj[q][o].id \in Ids
        BY <1>0, SInvFacts DEF TypeOK
      <4> QED BY <1>0, <2>2, <2>3, <4>1, <4>2
    <3> QED
      BY <1>1, <3>1, <3>2 DEF Named
  <2>9. Unfilled'
    <3>1. ASSUME NEW q \in Runs, NEW o \in Objects
          PROVE  /\ content'[<<q, o>>] = "empty" =>
                      (pc'[q] = "size" /\ at[q] = o) \/ pc'[q] \in Dead
                 /\ content'[<<q, o>>] = "zeros" =>
                      (pc'[q] = "fill" /\ at[q] = o) \/ pc'[q] \in Dead
      <4>1. <<q, o>> \in Ids
        BY DEF Ids
      <4>2. CASE <<q, o>> = id
        BY <2>3, <4>1, <4>2
      <4>3. CASE <<q, o>> # id
        BY <1>0, <1>1, <2>3, <4>1, <4>3 DEF Unfilled, Dead
      <4> QED
        BY <4>2, <4>3
    <3>2. ASSUME NEW q \in Runs
          PROVE  /\ pc'[q] = "size" => content'[<<q, at[q]>>] = "empty"
                 /\ pc'[q] = "fill" => content'[<<q, at[q]>>] = "zeros"
      <4>1. CASE q = r
        BY <1>1, <2>3, <4>1
      <4>2. CASE q # r
        <5>1. pc'[q] \in {"size", "fill"} => <<q, at[q]>> \in Ids /\ <<q, at[q]>> # id
          BY <1>0, <2>3, <4>2 DEF Place, Loading, Ids
        <5> QED
          BY <1>0, <2>3, <4>2, <5>1 DEF Unfilled
      <4> QED
        BY <4>1, <4>2
    <3> QED
      BY <2>1, <3>1, <3>2 DEF Unfilled
  <2>10. Own'
    <3> SUFFICES ASSUME NEW q \in Runs, NEW o \in Objects, obj[q][o].id # NoSeg,
                        obj[q][o].id[1] = q
                 PROVE  content'[obj[q][o].id] = "grid"
      BY <1>1 DEF Own
    <3>1. obj[q][o].id \in Ids /\ content[obj[q][o].id] = "grid"
      BY <1>0, SInvFacts DEF Own
    <3> QED
      BY <2>2, <2>3, <3>1
  <2> QED
    BY <2>4, <2>5, <2>6, <2>8, <2>9, <2>10 DEF SInv
<1> QED
  BY <1>2, <1>3

(* The new segment gets its size, and its name is registered.              *)
LEMMA SizeSInv ==
    ASSUME SInv, NEW r \in Runs, Size(r)
    PROVE  SInv'
<1> DEFINE n == Name(at[r])
           id == <<r, at[r]>>
<1>0. TypeOK /\ Place /\ Fresh /\ Named /\ Unfilled /\ Own
  BY DEF SInv
<1>1. /\ pc[r] = "size" /\ at[r] \in Objects /\ n \in Names /\ id \in Ids
      /\ UNCHANGED <<seg, at, obj, failed, alone>>
      /\ content' = [content EXCEPT ![id] = "zeros"]
      /\ tracker' = [tracker EXCEPT ![r] = @ \cup {n}]
      /\ pc' = [pc EXCEPT ![r] = "fill"]
  BY <1>0, ObjectFacts DEF Size, Place, Loading, Ids, Register, Goto
<1>2. /\ \A i \in Ids : content'[i] = IF i = id THEN "zeros" ELSE content[i]
      /\ \A q \in Runs : pc'[q] = IF q = r THEN "fill" ELSE pc[q]
  BY <1>0, <1>1 DEF TypeOK
<1>3. TypeOK'
  BY <1>0, <1>1 DEF TypeOK
<1>4. Place'
  BY <1>0, <1>1, <1>2 DEF Place, Loading
<1>5. Fresh'
  <2> SUFFICES ASSUME NEW q \in Runs, NEW o \in Objects, content'[<<q, o>>] # "none"
               PROVE  /\ pc'[q] # "idle"
                      /\ pc'[q] \in {"attach", "create"} => Before(o, at[q])
                      /\ pc'[q] \in {"size", "fill"} => Before(o, at[q]) \/ o = at[q]
    BY <1>1 DEF Fresh
  <2>1. <<q, o>> \in Ids
    BY DEF Ids
  <2>2. CASE <<q, o>> = id
    BY <1>2, <2>2
  <2>3. CASE <<q, o>> # id
    BY <1>0, <1>1, <1>2, <2>1, <2>3 DEF Fresh
  <2> QED
    BY <2>2, <2>3
<1>6. Named'
  BY <1>0, <1>1, <1>2, SInvFacts DEF Named
<1>7. Unfilled'
  <2>1. ASSUME NEW q \in Runs, NEW o \in Objects
        PROVE  /\ content'[<<q, o>>] = "empty" =>
                    (pc'[q] = "size" /\ at[q] = o) \/ pc'[q] \in Dead
               /\ content'[<<q, o>>] = "zeros" =>
                    (pc'[q] = "fill" /\ at[q] = o) \/ pc'[q] \in Dead
    <3>1. <<q, o>> \in Ids
      BY DEF Ids
    <3>2. CASE <<q, o>> = id
      BY <1>2, <3>1, <3>2
    <3>3. CASE <<q, o>> # id
      BY <1>0, <1>1, <1>2, <3>1, <3>3 DEF Unfilled, Dead
    <3> QED
      BY <3>2, <3>3
  <2>2. ASSUME NEW q \in Runs
        PROVE  /\ pc'[q] = "size" => content'[<<q, at[q]>>] = "empty"
               /\ pc'[q] = "fill" => content'[<<q, at[q]>>] = "zeros"
    <3>1. CASE q = r
      BY <1>1, <1>2, <3>1
    <3>2. CASE q # r
      <4>1. pc'[q] \in {"size", "fill"} => <<q, at[q]>> \in Ids /\ <<q, at[q]>> # id
        BY <1>0, <1>2, <3>2 DEF Place, Loading, Ids
      <4> QED
        BY <1>0, <1>2, <3>2, <4>1 DEF Unfilled
    <3> QED
      BY <3>1, <3>2
  <2> QED
    BY <1>1, <2>1, <2>2 DEF Unfilled
<1>8. Own'
  <2> SUFFICES ASSUME NEW q \in Runs, NEW o \in Objects, obj[q][o].id # NoSeg,
                      obj[q][o].id[1] = q
               PROVE  content'[obj[q][o].id] = "grid"
    BY <1>1 DEF Own
  <2>1. obj[q][o].id \in Ids /\ content[obj[q][o].id] = "grid"
    BY <1>0, SInvFacts DEF Own
  <2>2. content[id] = "empty"
    BY <1>0, <1>1 DEF Unfilled
  <2> QED
    BY <1>2, <2>1, <2>2
<1> QED
  BY <1>3, <1>4, <1>5, <1>6, <1>7, <1>8 DEF SInv

(* The grid is in the segment, and the object holds it.                    *)
LEMMA FillSInv ==
    ASSUME SInv, NEW r \in Runs, Fill(r)
    PROVE  SInv'
<1> DEFINE n == Name(at[r])
           id == <<r, at[r]>>
<1>0. TypeOK /\ Place /\ Fresh /\ Named /\ Unfilled /\ Own
  BY DEF SInv
<1>1. /\ pc[r] = "fill" /\ at[r] \in Objects /\ n \in Names /\ id \in Ids /\ id # NoSeg
      /\ UNCHANGED <<seg, tracker, failed, alone>>
      /\ content' = [content EXCEPT ![id] = "grid"]
      /\ obj' = [obj EXCEPT ![r][at[r]] = [id |-> id, child |-> FALSE]]
      /\ Loaded(r)
  BY <1>0, ObjectFacts, IdFacts DEF Fill, Place, Loading, Ids
<1>2. /\ Place' /\ at' \in [Runs -> Algs \X (Nat \ {0})]
      /\ pc' = [pc EXCEPT ![r] = pc'[r]] /\ at' = [at EXCEPT ![r] = at'[r]]
      /\ pc'[r] \in {"attach", "process"}
      /\ pc'[r] = "attach" =>
           \A o \in Objects : Before(o, at[r]) \/ o = at[r] => Before(o, at'[r])
  BY <1>0, <1>1, LoadedPlace DEF Loading
<1>3. \A q \in Runs \ {r} : pc'[q] = pc[q] /\ at'[q] = at[q]
  BY <1>0, <1>2 DEF TypeOK
<1>4. /\ \A q \in Runs, o \in Objects :
           <<q, o>> # <<r, at[r]>> => obj'[q][o] = obj[q][o]
      /\ obj'[r][at[r]] = [id |-> id, child |-> FALSE]
      /\ \A i \in Ids : content'[i] = IF i = id THEN "grid" ELSE content[i]
  BY <1>0, <1>1 DEF TypeOK
<1>5. TypeOK'
  <2>1. obj' \in [Runs -> [Objects -> [id : Ids \cup {NoSeg}, child : BOOLEAN]]]
    BY <1>0, <1>1 DEF TypeOK
  <2>2. content' \in [Ids -> {"none", "empty", "zeros", "grid"}]
    BY <1>0, <1>1 DEF TypeOK
  <2>3. pc' \in [Runs -> {"idle", "attach", "create", "size", "fill", "process",
                          "finalize", "returned", "aborted", "raised", "killed",
                          "lost", "ended"}]
    BY <1>0, <1>2 DEF TypeOK
  <2> QED
    BY <1>0, <1>1, <1>2, <2>1, <2>2, <2>3 DEF TypeOK
<1>6. Fresh'
  <2> SUFFICES ASSUME NEW q \in Runs, NEW o \in Objects, content'[<<q, o>>] # "none"
               PROVE  /\ pc'[q] # "idle"
                      /\ pc'[q] \in {"attach", "create"} => Before(o, at'[q])
                      /\ pc'[q] \in {"size", "fill"} => Before(o, at'[q]) \/ o = at'[q]
    BY DEF Fresh
  <2>1. <<q, o>> \in Ids
    BY DEF Ids
  <2>2. CASE q = r
    BY <1>0, <1>1, <1>2, <1>4, <2>1, <2>2 DEF Fresh
  <2>3. CASE q # r
    BY <1>0, <1>3, <1>4, <2>1, <2>3 DEF Fresh
  <2> QED
    BY <2>2, <2>3
<1>7. Named'
  <2>1. ASSUME NEW m \in Names, seg[m] # NoSeg
        PROVE  Name(seg[m][2]) = m /\ content'[seg[m]] # "none"
    BY <1>0, <1>4, <2>1, SInvFacts DEF Named
  <2>2. ASSUME NEW q \in Runs, NEW o \in Objects
        PROVE  /\ obj'[q][o].id # NoSeg =>
                    /\ content'[obj'[q][o].id] \in {"zeros", "grid"}
                    /\ Name(obj'[q][o].id[2]) = Name(o)
               /\ obj'[q][o].child => obj'[q][o].id # NoSeg
    <3>1. CASE <<q, o>> = id
      BY <1>1, <1>4, <3>1
    <3>2. CASE <<q, o>> # id
      <4>1. obj'[q][o] = obj[q][o]
        BY <1>4, <3>2
      <4>2. obj[q][o].id # NoSeg => /\ obj[q][o].id \in Ids
                                    /\ content[obj[q][o].id] \in {"zeros", "grid"}
                                    /\ Name(obj[q][o].id[2]) = Name(o)
        BY <1>0, SInvFacts DEF Named
      <4>3. obj[q][o].child => obj[q][o].id # NoSeg
        BY <1>0 DEF Named
      <4> QED
        BY <1>4, <4>1, <4>2, <4>3
    <3> QED
      BY <3>1, <3>2
  <2> QED
    BY <1>1, <2>1, <2>2 DEF Named
<1>9. Unfilled'
  <2>1. ASSUME NEW q \in Runs, NEW o \in Objects
        PROVE  /\ content'[<<q, o>>] = "empty" =>
                    (pc'[q] = "size" /\ at'[q] = o) \/ pc'[q] \in Dead
               /\ content'[<<q, o>>] = "zeros" =>
                    (pc'[q] = "fill" /\ at'[q] = o) \/ pc'[q] \in Dead
    <3>1. <<q, o>> \in Ids
      BY DEF Ids
    <3>2. CASE q = r
      BY <1>0, <1>1, <1>4, <3>1, <3>2 DEF Unfilled, Dead
    <3>3. CASE q # r
      BY <1>0, <1>3, <1>4, <3>1, <3>3 DEF Unfilled
    <3> QED
      BY <3>2, <3>3
  <2>2. ASSUME NEW q \in Runs
        PROVE  /\ pc'[q] = "size" => content'[<<q, at'[q]>>] = "empty"
               /\ pc'[q] = "fill" => content'[<<q, at'[q]>>] = "zeros"
    <3>1. CASE q = r
      BY <1>2, <3>1
    <3>2. CASE q # r
      <4>1. pc[q] \in {"size", "fill"} => <<q, at[q]>> \in Ids /\ <<q, at[q]>> # id
        BY <1>0, <3>2 DEF Place, Loading, Ids
      <4> QED
        BY <1>0, <1>3, <1>4, <3>2, <4>1 DEF Unfilled
    <3> QED
      BY <3>1, <3>2
  <2> QED
    BY <2>1, <2>2 DEF Unfilled
<1>10. Own'
  <2> SUFFICES ASSUME NEW q \in Runs, NEW o \in Objects, obj'[q][o].id # NoSeg,
                      obj'[q][o].id[1] = q
               PROVE  content'[obj'[q][o].id] = "grid"
    BY DEF Own
  <2>1. CASE <<q, o>> = id
    BY <1>1, <1>4, <2>1
  <2>2. CASE <<q, o>> # id
    <3>1. obj'[q][o] = obj[q][o]
      BY <1>4, <2>2
    <3>2. obj[q][o].id # NoSeg /\ obj[q][o].id[1] = q
      BY <3>1
    <3>3. obj[q][o].id \in Ids
      BY <3>2, SInvFacts
    <3>4. content[obj[q][o].id] = "grid"
      BY <1>0, <3>2 DEF Own
    <3> QED
      BY <1>4, <3>1, <3>3, <3>4
  <2> QED
    BY <2>1, <2>2
<1> QED
  BY <1>2, <1>5, <1>6, <1>7, <1>9, <1>10 DEF SInv

-----------------------------------------------------------------------------
(* Steps that clean up.                                                    *)

(* Names are unlinked: by finalize() one, by the tracker at the end all it *)
(* knows.                                                                  *)
LEMMA UnlinkSInv ==
    ASSUME SInv, NEW r \in Runs, NEW S \in SUBSET Names,
           seg' = [n \in Names |-> IF n \in S THEN NoSeg ELSE seg[n]],
           UNCHANGED <<content, obj>>,
           pc' = [pc EXCEPT ![r] = pc'[r]], at' = [at EXCEPT ![r] = at'[r]],
           Place', TypeOK',
           pc'[r] \notin {"idle", "attach", "create", "size", "fill"},
           pc[r] \notin {"size", "fill"}, pc[r] \in Dead => pc'[r] \in Dead
    PROVE  SInv'
<1>0. TypeOK /\ Place /\ Fresh /\ Named /\ Unfilled /\ Own
  BY DEF SInv
<1>1. \A q \in Runs \ {r} : pc'[q] = pc[q] /\ at'[q] = at[q]
  BY <1>0 DEF TypeOK
<1>2. Fresh'
  BY <1>0, <1>1 DEF Fresh
<1>3. Named'
  BY <1>0 DEF Named
<1>4. Unfilled'
  BY <1>0, <1>1 DEF Unfilled
<1>5. Own'
  BY <1>0 DEF Own
<1> QED
  BY <1>2, <1>3, <1>4, <1>5 DEF SInv

(* What a clean-up leaves to show, when the run goes on or returns.        *)
LEMMA CleanedPlace ==
    ASSUME SInv, NEW r \in Runs, pc[r] = "finalize", Cleaned(r), UNCHANGED failed
    PROVE  /\ Place' /\ at' \in [Runs -> Algs \X (Nat \ {0})]
           /\ pc' = [pc EXCEPT ![r] = pc'[r]] /\ at' = [at EXCEPT ![r] = at'[r]]
           /\ pc'[r] \in {"finalize", "returned"}
<1>0. TypeOK /\ Place
  BY DEF SInv
<1>1. /\ at' = [at EXCEPT ![r] = at'[r]] /\ pc' = [pc EXCEPT ![r] = pc'[r]]
      /\ pc'[r] \in {"finalize", "returned"} /\ at'[r] \in Algs \X (Nat \ {0})
      /\ pc'[r] = "finalize" => at'[r][2] \in 1..Len(Cleans(at'[r][1]))
  BY <1>0, CleanedEffect
<1>2. \A q \in Runs \ {r} : pc'[q] = pc[q] /\ at'[q] = at[q]
  BY <1>0, <1>1 DEF TypeOK
<1>3. Place'
  BY <1>0, <1>1, <1>2 DEF Place, Loading
<1>4. at' \in [Runs -> Algs \X (Nat \ {0})]
  BY <1>0, <1>1 DEF TypeOK
<1> QED
  BY <1>1, <1>3, <1>4

LEMMA CleanUpSInv ==
    ASSUME SInv, NEW r \in Runs, Close(r) \/ MaskCleanUp(r) \/ DemCleanUp(r)
    PROVE  SInv'
<1> DEFINE n == Name(Cleaning(r))
<1>0. TypeOK /\ Place
  BY DEF SInv
<1>1. /\ pc[r] = "finalize" /\ UNCHANGED <<content, obj, failed, alone>>
      /\ \/ /\ Cleaned(r) /\ UNCHANGED <<seg, tracker>>
         \/ /\ Cleaned(r) /\ Unlink(r, n)
         \/ /\ pc' = [pc EXCEPT ![r] = "raised"] /\ UNCHANGED <<seg, tracker, at>>
  BY DEF Close, MaskCleanUp, DemCleanUp, Goto
<1>2. n \in Names
  BY <1>0, <1>1, CleaningObject
<1>3. CASE Cleaned(r) /\ UNCHANGED <<seg, tracker>>
  <2>1. /\ Place' /\ at' \in [Runs -> Algs \X (Nat \ {0})]
        /\ pc' = [pc EXCEPT ![r] = pc'[r]] /\ at' = [at EXCEPT ![r] = at'[r]]
        /\ pc'[r] \in {"finalize", "returned"}
    BY <1>1, <1>3, CleanedPlace
  <2>2. TypeOK'
    <3>1. pc' \in [Runs -> Points]
      BY <1>0, <1>1, <2>1, MovesToPoint DEF Points
    <3> QED BY <1>0, <1>1, <1>3, <2>1, <3>1 DEF TypeOK, Points
  <2> QED
    BY <1>1, <1>3, <2>1, <2>2, MoveSInv DEF Dead
<1>4. CASE Cleaned(r) /\ Unlink(r, n)
  <2>1. /\ Place' /\ at' \in [Runs -> Algs \X (Nat \ {0})]
        /\ pc' = [pc EXCEPT ![r] = pc'[r]] /\ at' = [at EXCEPT ![r] = at'[r]]
        /\ pc'[r] \in {"finalize", "returned"}
    BY <1>1, <1>4, CleanedPlace
  <2>2. seg' = [seg EXCEPT ![n] = NoSeg] /\ tracker' = [tracker EXCEPT ![r] = @ \ {n}]
    BY <1>4 DEF Unlink
  <2>3. TypeOK'
    <3>1. pc' \in [Runs -> Points]
      BY <1>0, <1>1, <2>1, MovesToPoint DEF Points
    <3>2. seg' \in [Names -> Ids \cup {NoSeg}] /\ tracker' \in [Runs -> SUBSET Names]
      BY <1>0, <1>1, <1>2, <2>2 DEF TypeOK
    <3> QED BY <1>0, <1>1, <1>2, <2>1, <3>1, <3>2 DEF TypeOK, Points
  <2>4. seg' = [m \in Names |-> IF m \in {n} THEN NoSeg ELSE seg[m]]
    BY <1>0, <2>2 DEF TypeOK
  <2> QED
    BY <1>1, <1>2, <2>1, <2>2, <2>3, <2>4, UnlinkSInv DEF Dead
<1>5. CASE pc' = [pc EXCEPT ![r] = "raised"] /\ UNCHANGED <<seg, tracker, at>>
  <2>1. TypeOK' /\ at' = [at EXCEPT ![r] = at'[r]] /\ pc'[r] = "raised"
    BY <1>0, <1>1, <1>5 DEF TypeOK
  <2>2. Place'
    BY <1>0, <1>1, <1>5 DEF Place, TypeOK, Loading
  <2> QED
    BY <1>1, <1>5, <2>1, <2>2, MoveSInv DEF Dead
<1> QED
  BY <1>1, <1>3, <1>4, <1>5

LEMMA TrackerExitSInv ==
    ASSUME SInv, NEW r \in Runs, TrackerExit(r)
    PROVE  SInv'
<1>0. TypeOK /\ Place
  BY DEF SInv
<1>1. /\ pc[r] \in {"returned", "aborted", "raised", "killed"}
      /\ pc' = [pc EXCEPT ![r] = "ended"]
      /\ seg' = [n \in Names |-> IF n \in tracker[r] THEN NoSeg ELSE seg[n]]
      /\ tracker' = [tracker EXCEPT ![r] = {}]
      /\ UNCHANGED <<content, at, obj, failed, alone>>
  BY DEF TrackerExit, Goto
<1>2. tracker[r] \in SUBSET Names
  BY <1>0, <1>1 DEF TypeOK
<1>3. TypeOK' /\ at' = [at EXCEPT ![r] = at'[r]] /\ pc'[r] = "ended"
  BY <1>0, <1>1 DEF TypeOK
<1>4. Place'
  BY <1>0, <1>1 DEF Place, TypeOK, Loading
<1> QED
  BY <1>1, <1>2, <1>3, <1>4, UnlinkSInv DEF Dead

LEMMA NextSInv == SInv /\ [Next]_vars => SInv'
<1> SUFFICES ASSUME SInv, [Next]_vars PROVE SInv'
  OBVIOUS
<1>1. CASE UNCHANGED vars
  BY <1>1
  DEF SInv, TypeOK, Place, Fresh, Named, Unfilled, Own, vars
<1>2. ASSUME NEW r \in Runs, RunStep(r) \/ Kill(r) PROVE SInv'
  BY <1>2, SimpleSInv, AttachSInv, CreateSInv, SizeSInv, FillSInv, CleanUpSInv,
     TrackerExitSInv DEF RunStep
<1> QED
  BY <1>1, <1>2 DEF Next

LEMMA InitSInv == Init => SInv
<1> SUFFICES ASSUME Init PROVE SInv
  OBVIOUS
<1>1. TypeOK
  <2>1. <<1, 1>> \in Algs \X (Nat \ {0}) /\ 0 \in 0..Len(Algorithms)
    BY AlgorithmFacts
  <2>2. NoObj \in [id : Ids \cup {NoSeg}, child : BOOLEAN]
    BY DEF NoObj
  <2> QED
    BY <2>1, <2>2 DEF Init, TypeOK
<1>2. Place /\ Fresh
  BY ObjectFacts DEF Init, Place, Fresh, Loading, Ids
<1>3. \A o \in Objects : Name(o) \in Names
  BY ObjectFacts
<1>4. Named /\ Own
  BY <1>3 DEF Init, Named, Own, NoObj
<1>5. Unfilled
  BY DEF Init, Unfilled, Ids
<1> QED
  BY <1>1, <1>2, <1>4, <1>5 DEF SInv

LEMMA SInvariant == Spec => []SInv
  BY InitSInv, NextSInv, PTL DEF Spec

-----------------------------------------------------------------------------
(* Theorems about runs that share names.                                   *)

(* However many runs attach to, create, fill and remove segments under the *)
(* same names, and wherever they are killed: an object never holds an      *)
(* incomplete segment of its own run, and one of another run only while    *)
(* that run is filling it, or when it died there.                          *)
THEOREM SegmentsAreSound == Spec => []SegmentsSound
<1>1. SInv => HeldIsFilled
  <2> SUFFICES ASSUME SInv, NEW r \in Runs, NEW o \in Objects, obj[r][o].id # NoSeg,
                      content[obj[r][o].id] # "grid"
               PROVE  LET id == obj[r][o].id
                      IN  /\ id[1] # r
                          /\ \/ pc[id[1]] = "fill" /\ at[id[1]] = id[2]
                             \/ pc[id[1]] \in {"killed", "lost", "ended"}
    BY DEF HeldIsFilled
  <2> DEFINE id == obj[r][o].id
  <2>1. /\ id \in Ids /\ id = <<id[1], id[2]>> /\ id[1] \in Runs /\ id[2] \in Objects
        /\ Named /\ Unfilled /\ Own
    BY SInvFacts, IdFacts
  <2>2. content[id] = "zeros"
    BY <2>1 DEF Named
  <2>3. id[1] # r
    BY <2>1 DEF Own
  <2> QED
    BY <2>1, <2>2, <2>3 DEF Unfilled, Dead
<1>2. SInv => TypeOK
  BY DEF SInv
<1> QED
  BY <1>1, <1>2, SInvariant, PTL DEF SegmentsSound

-----------------------------------------------------------------------------
(* A run that is alone.                                                    *)

(* Before the first clean-up everything is still to be cleaned up.         *)
LEMMA AllPending ==
    ASSUME NEW o \in Objects
    PROVE  PendingAt(<<1, 1>>, o)
<1>1. o[1] \in Algs /\ o[1] \in Nat \ {0} /\ o[2] \in DOMAIN Loads(o[1])
  BY ObjectFacts, AlgorithmFacts
<1>2. PICK c \in DOMAIN Cleans(o[1]) : Cleans(o[1])[c] = o[2]
  BY <1>1, CleanUpAssumption DEF Loads, Cleans
<1>3. c \in 1..Len(Cleans(o[1])) /\ c \in Nat \ {0}
  <2>1. Cleans(o[1]) \in Seq(Nat)
    BY <1>1, AlgorithmFacts
  <2> QED
    BY <1>2, <2>1
<1>4. ~Before(<<o[1], c>>, <<1, 1>>)
  BY <1>1, <1>3 DEF Before
<1> QED
  BY <1>2, <1>3, <1>4 DEF PendingAt

(* A clean-up leaves the other objects to be cleaned up; when it was the   *)
(* last one, only the algorithm whose init() raised is left.               *)
LEMMA CleanedPending ==
    ASSUME SInv, NEW r \in Runs, pc[r] = "finalize", Cleaned(r), UNCHANGED failed,
           failed[r] # 0 => at[r][1] < failed[r], NEW o \in Objects
    PROVE  /\ pc'[r] = "finalize" => (failed[r] # 0 => at'[r][1] < failed[r])
           /\ Pending(r, o) /\ o # Cleaning(r) =>
                /\ pc'[r] = "finalize" => Pending(r, o)'
                /\ pc'[r] = "returned" => failed[r] # 0 /\ o[1] >= failed[r]
           /\ pc'[r] = "finalize" /\ Pending(r, o)' =>
                \E e \in 1..Len(Cleans(o[1])) :
                   /\ Cleans(o[1])[e] = o[2] /\ ~Before(<<o[1], e>>, at[r])
                   /\ <<o[1], e>> # <<at[r][1], at[r][2]>>
<1> DEFINE a == at[r][1]
           c == at[r][2]
           last == IF failed[r] = 0 THEN Len(Algorithms) ELSE failed[r] - 1
<1>0. TypeOK /\ Place
  BY DEF SInv
<1>1. /\ a \in Algs /\ c \in 1..Len(Cleans(a)) /\ a \in Nat /\ c \in Nat
      /\ Len(Cleans(a)) \in Nat /\ Len(Algorithms) \in Nat /\ failed[r] \in 0..Len(Algorithms)
      /\ a <= Len(Algorithms)
  <2>1. a \in Algs /\ failed[r] \in 0..Len(Algorithms) /\ c \in 1..Len(Cleans(a))
    BY <1>0 DEF TypeOK, Place
  <2>2. Len(Cleans(a)) \in Nat /\ Len(Algorithms) \in Nat
    BY <2>1, AlgorithmFacts
  <2> QED
    BY <2>1, <2>2 DEF Algs
<1>2. at \in [Runs -> Algs \X (Nat \ {0})] /\ pc = [q \in Runs |-> pc[q]]
  BY <1>0 DEF TypeOK
<1>3. o = <<o[1], o[2]>> /\ o[1] \in Nat /\ o[1] \in Algs /\ o[1] <= Len(Algorithms)
  BY <1>1, ObjectFacts, AlgorithmFacts DEF Algs
<1>4. Len(Cleans(o[1])) \in Nat
  BY <1>3, AlgorithmFacts
<1>5. Cleaning(r) = <<a, Cleans(a)[c]>>
  BY DEF Cleaning, Cleans
<1>6. ASSUME NEW e \in 1..Len(Cleans(o[1])), Cleans(o[1])[e] = o[2], o # Cleaning(r),
             ~Before(<<o[1], e>>, at[r])
      PROVE  o[1] > a \/ (o[1] = a /\ e > c)
  <2>1. ~(o[1] = a /\ e = c)
    BY <1>3, <1>5, <1>6
  <2> QED
    BY <1>1, <1>3, <1>4, <1>6, <2>1 DEF Before
<1>7. CASE c < Len(Cleans(a))
  <2>1. at'[r] = <<a, c + 1>> /\ pc'[r] = "finalize"
    BY <1>2, <1>7 DEF Cleaned, Cleans
  <2>2. Pending(r, o) /\ o # Cleaning(r) => Pending(r, o)'
    <3> SUFFICES ASSUME NEW e \in 1..Len(Cleans(o[1])), Cleans(o[1])[e] = o[2],
                        o # Cleaning(r), ~Before(<<o[1], e>>, at[r])
                 PROVE  ~Before(<<o[1], e>>, at'[r])
      BY DEF Pending, PendingAt, Before, Cleans
    <3>1. o[1] > a \/ (o[1] = a /\ e > c)
      BY <1>6
    <3> QED
      BY <1>1, <1>3, <1>4, <2>1, <3>1 DEF Before
  <2>3. ASSUME Pending(r, o)'
        PROVE  \E e \in 1..Len(Cleans(o[1])) :
                 /\ Cleans(o[1])[e] = o[2] /\ ~Before(<<o[1], e>>, at[r])
                 /\ <<o[1], e>> # <<a, c>>
    <3>1. PICK e \in 1..Len(Cleans(o[1])) : Cleans(o[1])[e] = o[2] /\ ~Before(<<o[1], e>>, at'[r])
      BY <2>3 DEF Pending, PendingAt, Before, Cleans
    <3>2. ~Before(<<o[1], e>>, at[r]) /\ <<o[1], e>> # <<a, c>>
      BY <1>1, <1>3, <1>4, <2>1, <3>1 DEF Before
    <3> QED
      BY <3>1, <3>2
  <2>4. failed[r] # 0 => at'[r][1] < failed[r]
    BY <2>1
  <2> QED
    BY <2>1, <2>2, <2>3, <2>4
<1>8. CASE ~(c < Len(Cleans(a))) /\ a < last
  <2>1. at'[r] = <<a + 1, 1>> /\ pc'[r] = "finalize"
    BY <1>2, <1>8 DEF Cleaned, Cleans
  <2>2. Pending(r, o) /\ o # Cleaning(r) => Pending(r, o)'
    <3> SUFFICES ASSUME NEW e \in 1..Len(Cleans(o[1])), Cleans(o[1])[e] = o[2],
                        o # Cleaning(r), ~Before(<<o[1], e>>, at[r])
                 PROVE  ~Before(<<o[1], e>>, at'[r])
      BY DEF Pending, PendingAt, Before, Cleans
    <3>1. o[1] > a \/ (o[1] = a /\ e > c)
      BY <1>6
    <3> QED
      BY <1>1, <1>3, <1>4, <1>8, <2>1, <3>1 DEF Before
  <2>3. ASSUME Pending(r, o)'
        PROVE  \E e \in 1..Len(Cleans(o[1])) :
                 /\ Cleans(o[1])[e] = o[2] /\ ~Before(<<o[1], e>>, at[r])
                 /\ <<o[1], e>> # <<a, c>>
    <3>1. PICK e \in 1..Len(Cleans(o[1])) : Cleans(o[1])[e] = o[2] /\ ~Before(<<o[1], e>>, at'[r])
      BY <2>3 DEF Pending, PendingAt, Before, Cleans
    <3>2. ~Before(<<o[1], e>>, at[r]) /\ <<o[1], e>> # <<a, c>>
      BY <1>1, <1>3, <1>4, <2>1, <3>1 DEF Before
    <3> QED
      BY <3>1, <3>2
  <2>4. failed[r] # 0 => a + 1 < failed[r]
    BY <1>1, <1>8
  <2> QED
    BY <2>1, <2>2, <2>3, <2>4
<1>9. CASE ~(c < Len(Cleans(a))) /\ ~(a < last)
  <2>1. pc'[r] = "returned"
    BY <1>2, <1>9 DEF Cleaned, Cleans, Goto
  <2>2. ASSUME Pending(r, o), o # Cleaning(r)
        PROVE  failed[r] # 0 /\ o[1] >= failed[r]
    <3>1. PICK e \in 1..Len(Cleans(o[1])) : Cleans(o[1])[e] = o[2] /\ ~Before(<<o[1], e>>, at[r])
      BY <2>2 DEF Pending, PendingAt
    <3>2. o[1] > a \/ (o[1] = a /\ e > c)
      BY <1>6, <2>2, <3>1
    <3> QED
      BY <1>1, <1>3, <1>9, <3>1, <3>2
  <2> QED
    BY <2>1, <2>2
<1> QED
  BY <1>7, <1>8, <1>9

(* A step moves one run, and only Start() is a step of a run that is not   *)
(* active.                                                                 *)
LEMMA StepFacts ==
    ASSUME SInv, NEW r \in Runs, RunStep(r) \/ Kill(r)
    PROVE  /\ \A q \in Runs \ {r} : pc'[q] = pc[q]
           /\ Start(r) \/ (Active(r) /\ alone' = alone)
<1>1. TypeOK /\ Place /\ pc = [q \in Runs |-> pc[q]]
  BY DEF SInv, TypeOK
<1>2. pc[r] = "attach" \/ pc[r] = "fill" => at[r] \in Objects
  BY <1>1 DEF Place, Loading
<1>3. CASE Start(r) \/ ImportFails(r) \/ Size(r) \/ Process(r) \/ TrackerExit(r) \/ Kill(r)
  BY <1>1, <1>3 DEF Start, ImportFails, Size, Process, TrackerExit, Kill, Goto, Active
<1>4. CASE Attach(r) \/ FileMissing(r) \/ Create(r) \/ Fill(r)
  <2>1. Active(r) /\ alone' = alone
    BY <1>4 DEF Attach, FileMissing, Create, Fill, Active
  <2>2. CASE InitRaises(r) \/ (\E l : Goto(r, l))
    BY <1>1, <2>1, <2>2 DEF InitRaises, Goto
  <2>3. CASE Loaded(r) /\ pc[r] \in {"attach", "fill"}
    BY <1>1, <1>2, <2>1, <2>3, LoadedEffect
  <2> QED
    BY <1>4, <2>2, <2>3 DEF Attach, FileMissing, Create, Fill
<1>5. CASE Close(r) \/ MaskCleanUp(r) \/ DemCleanUp(r)
  <2>1. Active(r) /\ alone' = alone /\ pc[r] = "finalize"
    BY <1>5 DEF Close, MaskCleanUp, DemCleanUp, Active
  <2>2. CASE Goto(r, "raised")
    BY <1>1, <2>1, <2>2 DEF Goto
  <2>3. CASE Cleaned(r)
    BY <1>1, <2>1, <2>3, CleanedEffect
  <2> QED
    BY <1>5, <2>2, <2>3 DEF Close, MaskCleanUp, DemCleanUp
<1> QED
  BY <1>3, <1>4, <1>5 DEF RunStep

(* What a run that is loading alone has created comes before the object    *)
(* that it is at.                                                          *)
LEMMA AloneFresh ==
    ASSUME SInv, NEW r \in Runs, Single(r), pc[r] \in {"attach", "create"}
    PROVE  \A n \in Names : seg[n] # NoSeg =>
              seg[n] = <<r, seg[n][2]>> /\ Before(seg[n][2], at[r]) /\ seg[n][2] # at[r]
<1> SUFFICES ASSUME NEW n \in Names, seg[n] # NoSeg
             PROVE  seg[n] = <<r, seg[n][2]>> /\ Before(seg[n][2], at[r]) /\ seg[n][2] # at[r]
  OBVIOUS
<1>1. /\ seg[n] = <<r, seg[n][2]>> /\ seg[n][2] \in Objects /\ content[seg[n]] # "none"
      /\ Place /\ Fresh
  BY SInvFacts DEF Single, Named
<1>2. Before(seg[n][2], at[r]) /\ at[r] \in Objects
  BY <1>1 DEF Fresh, Place, Loading
<1>3. at[r][1] \in Nat /\ at[r][2] \in Nat
  BY <1>2, ObjectFacts, AlgorithmFacts
<1> QED
  BY <1>1, <1>2, <1>3 DEF Before

(* A step that neither touches segments nor objects, of a run that keeps   *)
(* loading or comes to the chunks.                                         *)
LEMMA LoadingSolo ==
    ASSUME NEW r \in Runs, Solo(r), UNCHANGED <<seg, obj>>,
           pc[r] \in {"attach", "create"}, pc'[r] \in {"attach", "create", "process"}
    PROVE  Solo(r)'
<1>1. Owned(r)'
  BY DEF Solo, Owned, Loading
<1>2. Kept(r)'
  BY DEF Solo, Kept, Loading, Maker
<1> QED
  BY <1>1, <1>2 DEF Solo, Tidy

(* An init() that raises: the instances before it are to be cleaned up.    *)
LEMMA InitRaisesSolo ==
    ASSUME SInv, NEW r \in Runs, Single(r), Solo(r), pc[r] \in {"attach", "create"},
           InitRaises(r), UNCHANGED <<seg, obj>>
    PROVE  Solo(r)'
<1>1. /\ failed'[r] = at[r][1] /\ at'[r] = <<1, 1>>
      /\ pc'[r] = IF at[r][1] = 1 THEN "returned" ELSE "finalize"
  BY SInvFacts DEF InitRaises, Goto, TypeOK
<1>2. at[r] \in Objects /\ at[r][1] \in Nat \ {0}
  BY SInvFacts, ObjectFacts, AlgorithmFacts DEF Place, Loading
<1>3. \A n \in Names : seg[n] # NoSeg =>
         seg[n][2] \in Objects /\ seg[n][2][1] \in Nat \ {0} /\ seg[n][2][1] <= at[r][1]
  <2> SUFFICES ASSUME NEW n \in Names, seg[n] # NoSeg
               PROVE  /\ seg[n][2] \in Objects /\ seg[n][2][1] \in Nat \ {0}
                      /\ seg[n][2][1] <= at[r][1]
    OBVIOUS
  <2>1. seg[n][2] \in Objects /\ Before(seg[n][2], at[r])
    BY AloneFresh, SInvFacts
  <2>2. seg[n][2][1] \in Nat \ {0}
    BY <2>1, ObjectFacts, AlgorithmFacts
  <2> QED
    BY <1>2, <2>1, <2>2 DEF Before
<1>4. CASE at[r][1] = 1
  BY <1>1, <1>2, <1>3, <1>4 DEF Solo, Owned, Kept, Tidy, Loading
<1>5. CASE at[r][1] # 1
  <2>1. \A n \in Names : seg[n] # NoSeg => PendingAt(at'[r], seg[n][2])
    BY <1>1, <1>3, AllPending
  <2>2. Owned(r)'
    BY <1>1, <1>2, <1>3, <1>5, <2>1 DEF Solo, Owned, Loading, Pending
  <2>3. Kept(r)'
    BY <1>1, <1>5 DEF Solo, Kept, Loading, Maker
  <2> QED
    BY <1>1, <1>5, <2>2, <2>3 DEF Solo, Tidy
<1> QED
  BY <1>4, <1>5

LEMMA AttachSolo ==
    ASSUME SInv, NEW r \in Runs, Single(r), Solo(r), Attach(r) \/ FileMissing(r)
    PROVE  Solo(r)'
<1> DEFINE n == Name(at[r])
<1>1. TypeOK /\ pc[r] = "attach" /\ seg' = seg /\ at[r] \in Objects
  BY SInvFacts DEF Attach, FileMissing, Place, Loading
<1>2. CASE InitRaises(r) /\ UNCHANGED obj
  BY <1>1, <1>2, InitRaisesSolo
<1>3. CASE Goto(r, "create") /\ UNCHANGED obj
  <2>1. pc'[r] = "create"
    BY <1>1, <1>3 DEF Goto, TypeOK
  <2> QED
    BY <1>1, <1>3, <2>1, LoadingSolo
<1>4. CASE Loaded(r) /\ UNCHANGED obj
  <2>1. pc'[r] \in {"attach", "process"}
    BY <1>1, <1>4, LoadedEffect
  <2> QED
    BY <1>1, <1>4, <2>1, LoadingSolo
<1>5. CASE /\ seg[n] # NoSeg /\ Loaded(r)
           /\ obj' = [obj EXCEPT ![r][at[r]] = [id |-> seg[n], child |-> TRUE]]
  <2>1. pc'[r] \in {"attach", "process"}
    BY <1>1, <1>5, LoadedEffect
  <2>2. /\ obj'[r][at[r]].child
        /\ \A o \in Objects : o # at[r] => obj'[r][o] = obj[r][o]
    BY <1>1, <1>5 DEF TypeOK
  <2>3. \A m \in Names : seg[m] # NoSeg => seg[m][2] \in Objects /\ seg[m][2] # at[r]
    BY <1>1, AloneFresh, SInvFacts
  <2>4. Owned(r)'
    BY <1>1, <2>1, <2>2, <2>3 DEF Solo, Owned, Loading
  <2>5. Kept(r)'
    BY <1>1, <2>1, <2>2 DEF Solo, Kept, Loading, Maker
  <2> QED
    BY <2>1, <2>4, <2>5 DEF Solo, Tidy
<1> QED
  BY <1>1, <1>2, <1>3, <1>4, <1>5 DEF Attach, FileMissing

LEMMA CreateSolo ==
    ASSUME SInv, NEW r \in Runs, Single(r), Solo(r), Create(r)
    PROVE  Solo(r)'
<1> DEFINE n == Name(at[r])
<1>1. TypeOK /\ pc[r] = "create" /\ at[r] \in Objects /\ n \in Names /\ obj' = obj
  BY SInvFacts DEF Create, Place, Loading
<1>2. CASE InitRaises(r) /\ UNCHANGED seg
  BY <1>1, <1>2, InitRaisesSolo
<1>3. CASE /\ seg[n] = NoSeg /\ seg' = [seg EXCEPT ![n] = <<r, at[r]>>]
           /\ pc' = [pc EXCEPT ![r] = "size"] /\ at' = at
  <2>1. /\ pc'[r] = "size" /\ seg'[n] = <<r, at[r]>>
        /\ \A m \in Names : m # n => seg'[m] = seg[m]
    BY <1>1, <1>3 DEF TypeOK
  <2>2. Owned(r)'
    BY <1>1, <1>3, <2>1 DEF Solo, Owned, Loading
  <2>3. ASSUME NEW o \in Objects, Maker(r, o), Name(o) \in Masks
        PROVE  seg'[Name(o)] = <<r, o>>
    <3>1. Name(o) \in Names /\ seg[Name(o)] = <<r, o>> /\ <<r, o>> # NoSeg
      BY <1>1, <2>3, SInvFacts DEF Solo, Kept, Loading
    <3> QED
      BY <1>3, <2>1, <3>1
  <2>4. Kept(r)'
    BY <1>1, <2>3 DEF Kept, Maker
  <2> QED
    BY <2>1, <2>2, <2>4 DEF Solo, Tidy
<1> QED
  BY <1>2, <1>3 DEF Create, Goto

LEMMA SizeSolo ==
    ASSUME SInv, NEW r \in Runs, Solo(r), Size(r)
    PROVE  Solo(r)'
<1>1. pc[r] = "size" /\ pc'[r] = "fill" /\ UNCHANGED <<seg, obj, at>>
  BY SInvFacts DEF Size, Goto, TypeOK
<1>2. Owned(r)'
  BY <1>1 DEF Solo, Owned, Loading
<1>3. Kept(r)'
  BY <1>1 DEF Solo, Kept, Loading, Maker
<1> QED
  BY <1>1, <1>2, <1>3 DEF Solo, Tidy

LEMMA FillSolo ==
    ASSUME SInv, NEW r \in Runs, Single(r), Solo(r), Fill(r)
    PROVE  Solo(r)'
<1>1. TypeOK /\ pc[r] = "fill" /\ at[r] \in Objects /\ seg' = seg /\ Loaded(r)
  BY SInvFacts DEF Fill, Place, Loading
<1>2. pc'[r] \in {"attach", "process"}
  BY <1>1, LoadedEffect
<1>3. /\ obj'[r][at[r]] = [id |-> <<r, at[r]>>, child |-> FALSE]
      /\ \A o \in Objects : o # at[r] => obj'[r][o] = obj[r][o]
  BY <1>1 DEF Fill, TypeOK
<1>4. seg[Name(at[r])] = <<r, at[r]>>
  BY <1>1 DEF Solo, Owned
<1>5. Owned(r)'
  <2>1. ASSUME NEW n \in Names, seg[n] # NoSeg
        PROVE  obj'[r][seg[n][2]] = [id |-> seg[n], child |-> FALSE]
    <3>1. seg[n] = <<r, seg[n][2]>> /\ seg[n][2] \in Objects
      BY <2>1, SInvFacts DEF Single
    <3>2. CASE seg[n][2] = at[r]
      BY <1>3, <3>1, <3>2
    <3>3. CASE seg[n][2] # at[r]
      BY <1>1, <1>3, <2>1, <3>1, <3>3 DEF Solo, Owned, Loading
    <3> QED
      BY <3>2, <3>3
  <2> QED
    BY <1>1, <1>2, <2>1 DEF Owned
<1>6. Kept(r)'
  BY <1>1, <1>2, <1>3, <1>4 DEF Solo, Kept, Loading, Maker
<1> QED
  BY <1>2, <1>5, <1>6 DEF Solo, Tidy

LEMMA ProcessSolo ==
    ASSUME SInv, NEW r \in Runs, Solo(r), Process(r)
    PROVE  Solo(r)'
<1>1. /\ pc[r] = "process" /\ pc'[r] \in {"finalize", "raised"}
      /\ UNCHANGED <<seg, obj, at, failed>> /\ at[r] = <<1, 1>> /\ failed[r] = 0
  BY SInvFacts DEF Process, Goto, TypeOK, Place
<1>2. \A n \in Names : seg[n] # NoSeg => PendingAt(at[r], seg[n][2])
  BY <1>1, AllPending, SInvFacts
<1>3. Owned(r)'
  BY <1>1, <1>2 DEF Solo, Owned, Loading, Pending
<1>4. Kept(r)'
  BY <1>1 DEF Solo, Kept, Loading, Maker
<1> QED
  BY <1>1, <1>3, <1>4 DEF Solo, Tidy

(* The clean-up that a run is at is one that was to come.                  *)
LEMMA CleaningPending ==
    ASSUME SInv, NEW r \in Runs, pc[r] = "finalize"
    PROVE  Pending(r, Cleaning(r))
<1> DEFINE a == at[r][1]
           c == at[r][2]
<1>1. /\ a \in Algs /\ c \in 1..Len(Cleans(a))
      /\ Cleaning(r)[1] = a /\ Cleaning(r)[2] = Cleans(a)[c]
  BY SInvFacts, CleaningObject DEF TypeOK, Place
<1>2. a \in Nat /\ Len(Cleans(a)) \in Nat
  BY <1>1, AlgorithmFacts
<1>3. ~Before(<<a, c>>, at[r])
  BY <1>1, <1>2 DEF Before
<1> QED
  BY <1>1, <1>3 DEF Pending, PendingAt

(* In a run that is alone a mask still has its segment when it is cleaned  *)
(* up.                                                                     *)
LEMMA MaskPresent ==
    ASSUME SInv, NEW r \in Runs, Solo(r), pc[r] = "finalize",
           Maker(r, Cleaning(r)), Name(Cleaning(r)) \in Masks
    PROVE  seg[Name(Cleaning(r))] = <<r, Cleaning(r)>>
  BY CleaningPending, CleaningObject, SInvFacts DEF Solo, Kept

(* A mask is cleaned up once.                                              *)
LEMMA MaskOnce ==
    ASSUME SInv, NEW r \in Runs, pc[r] = "finalize", Name(Cleaning(r)) \in Masks,
           NEW e \in 1..Len(Cleans(at[r][1])), Cleans(at[r][1])[e] = Cleaning(r)[2]
    PROVE  e = at[r][2]
<1> DEFINE a == at[r][1]
           c == at[r][2]
<1>1. /\ a \in Algs /\ c \in 1..Len(Cleans(a))
      /\ Cleaning(r)[1] = a /\ Cleaning(r)[2] = Cleans(a)[c]
  BY SInvFacts, CleaningObject DEF TypeOK, Place
<1>2. c \in DOMAIN Cleans(a) /\ e \in DOMAIN Cleans(a)
  <2>1. Cleans(a) \in Seq(Nat)
    BY <1>1, AlgorithmFacts
  <2> QED
    BY <1>1, <2>1
<1>3. Name(Cleaning(r)) = Loads(a)[Cleans(a)[c]]
  BY <1>1 DEF Name, Loads
<1> QED
  BY <1>1, <1>2, <1>3, CleanUpAssumption DEF Loads, Cleans

(* After a clean-up the segments that are left are those of objects which  *)
(* are still to be cleaned up, or of the algorithm whose init() raised.    *)
LEMMA CleanUpSolo ==
    ASSUME SInv, NEW r \in Runs, Single(r), Solo(r),
           Close(r) \/ MaskCleanUp(r) \/ DemCleanUp(r), Cleaned(r)
    PROVE  Solo(r)'
<1> DEFINE p == Cleaning(r)
           n == Name(p)
<1>1. /\ pc[r] = "finalize" /\ UNCHANGED <<obj, failed>> /\ TypeOK /\ Place
      /\ p \in Objects /\ n \in Names /\ p[1] = at[r][1]
      /\ pc'[r] \in {"finalize", "returned"}
  <2>1. pc[r] = "finalize" /\ UNCHANGED <<obj, failed>> /\ TypeOK /\ Place
    BY SInvFacts DEF Close, MaskCleanUp, DemCleanUp
  <2> QED
    BY <2>1, CleaningObject, CleanedEffect
<1>2. failed[r] # 0 => at[r][1] < failed[r]
  BY <1>1 DEF Solo, Owned
<1>3. \/ ~Maker(r, p) /\ seg' = seg
      \/ n \in Dems /\ seg[n] = NoSeg /\ seg' = seg
      \/ n \in Masks \cup Dems /\ Maker(r, p) /\ seg' = [seg EXCEPT ![n] = NoSeg]
  BY <1>1 DEF Close, MaskCleanUp, DemCleanUp, Maker, Unlink, Goto, TypeOK
<1>4. ASSUME NEW m \in Names, seg'[m] # NoSeg
      PROVE  /\ seg'[m] = seg[m] /\ seg[m][2] \in Objects /\ seg[m][2] # p
             /\ obj[r][seg[m][2]] = [id |-> seg[m], child |-> FALSE]
             /\ Pending(r, seg[m][2]) /\ (failed[r] # 0 => seg[m][2][1] <= failed[r])
  <2>1. seg'[m] = seg[m] /\ seg[m] # NoSeg
    BY <1>1, <1>3, <1>4 DEF TypeOK
  <2>2. seg[m][2] \in Objects /\ Name(seg[m][2]) = m
    BY <2>1, SInvFacts DEF Named
  <2>3. /\ obj[r][seg[m][2]] = [id |-> seg[m], child |-> FALSE]
        /\ Pending(r, seg[m][2]) /\ (failed[r] # 0 => seg[m][2][1] <= failed[r])
    BY <1>1, <2>1 DEF Solo, Owned, Loading
  <2>4. ASSUME seg[m][2] = p PROVE FALSE
    <3>1. m = n /\ Maker(r, p)
      BY <2>1, <2>2, <2>3, <2>4 DEF Maker
    <3> QED
      BY <1>1, <1>3, <1>4, <2>1, <3>1 DEF TypeOK
  <2> QED
    BY <2>1, <2>2, <2>3, <2>4
<1>5. Owned(r)'
  <2>1. pc'[r] = "finalize" => (failed[r] # 0 => at'[r][1] < failed[r])
    BY <1>1, <1>2, CleanedPending
  <2>2. ASSUME NEW m \in Names, seg'[m] # NoSeg, pc'[r] = "finalize"
        PROVE  Pending(r, seg[m][2])'
    BY <1>1, <1>2, <1>4, <2>2, CleanedPending
  <2>3. ASSUME NEW m \in Names, seg'[m] # NoSeg, pc'[r] = "finalize"
        PROVE  PendingAt(at'[r], seg'[m][2])
    <3>1. seg'[m] = seg[m] /\ Pending(r, seg[m][2])'
      BY <1>4, <2>2, <2>3
    <3> QED
      BY <3>1 DEF Pending, PendingAt, Before, Cleans
  <2> QED
    BY <1>1, <1>4, <2>1, <2>3 DEF Owned, Pending
<1>6. Tidy(r)'
  <2> SUFFICES ASSUME NEW m \in Names, seg'[m] # NoSeg, pc'[r] = "returned"
               PROVE  failed'[r] # 0 /\ seg'[m][2][1] = failed'[r]
    BY DEF Tidy
  <2>1. /\ failed[r] # 0 /\ seg[m][2][1] >= failed[r] /\ seg[m][2][1] <= failed[r]
        /\ seg'[m] = seg[m] /\ seg[m][2] \in Objects
    BY <1>1, <1>2, <1>4, CleanedPending
  <2>2. seg[m][2][1] \in Nat /\ failed[r] \in Nat
    BY <1>1, <2>1, ObjectFacts, AlgorithmFacts DEF TypeOK
  <2> QED
    BY <1>1, <2>1, <2>2
<1>7. ASSUME NEW o \in Objects, Maker(r, o), Name(o) \in Masks, pc'[r] = "finalize",
             Pending(r, o)'
      PROVE  seg'[Name(o)] = <<r, o>>
  <2>1. PICK e \in 1..Len(Cleans(o[1])) :
            /\ Cleans(o[1])[e] = o[2] /\ ~Before(<<o[1], e>>, at[r])
            /\ <<o[1], e>> # <<at[r][1], at[r][2]>>
    BY <1>1, <1>2, <1>7, CleanedPending
  <2>2. seg[Name(o)] = <<r, o>> /\ Name(o) \in Names
    <3>1. Pending(r, o)
      BY <2>1 DEF Pending, PendingAt
    <3> QED
      BY <1>1, <1>7, <3>1, SInvFacts DEF Solo, Kept
  <2>3. CASE seg' = seg
    BY <2>2, <2>3
  <2>4. CASE Maker(r, p) /\ seg' = [seg EXCEPT ![n] = NoSeg] /\ Name(o) = n
    <3>1. seg[n] = <<r, p>>
      BY <1>1, <1>7, <2>4, MaskPresent
    <3>2. o = p
      BY <2>2, <2>4, <3>1
    <3>3. e = at[r][2]
      BY <1>1, <1>7, <2>1, <2>4, <3>2, MaskOnce
    <3> QED
      BY <1>1, <2>1, <3>2, <3>3
  <2>5. CASE seg' = [seg EXCEPT ![n] = NoSeg] /\ Name(o) # n
    BY <1>1, <2>2, <2>5 DEF TypeOK
  <2> QED
    BY <1>3, <2>3, <2>4, <2>5
<1>8. Kept(r)'
  BY <1>1, <1>7 DEF Kept, Maker, Loading
<1> QED
  BY <1>5, <1>6, <1>8 DEF Solo

(* A step of a run that is alone keeps what holds for it.                  *)
LEMMA StepSolo ==
    ASSUME SInv, NEW r \in Runs, Single(r), Solo(r), RunStep(r) \/ Kill(r), ~Start(r)
    PROVE  Solo(r)'
<1>1. ASSUME pc'[r] \in {"aborted", "raised", "killed", "lost", "ended"} PROVE Solo(r)'
  BY <1>1 DEF Solo, Owned, Kept, Tidy, Loading
<1>2. CASE ImportFails(r) \/ TrackerExit(r) \/ Kill(r)
  BY <1>1, <1>2, SInvFacts DEF ImportFails, TrackerExit, Kill, Goto, TypeOK
<1>3. CASE Close(r) \/ MaskCleanUp(r) \/ DemCleanUp(r)
  <2>1. CASE Cleaned(r)
    BY <1>3, <2>1, CleanUpSolo
  <2>2. CASE Goto(r, "raised")
    BY <1>1, <2>2, SInvFacts DEF Goto, TypeOK
  <2> QED
    BY <1>3, <2>1, <2>2 DEF Close, MaskCleanUp, DemCleanUp
<1> QED
  BY <1>2, <1>3, AttachSolo, CreateSolo, SizeSolo, FillSolo, ProcessSolo DEF RunStep

(* The segments of a run that is alone are its own.                        *)
LEMMA StepSingle ==
    ASSUME SInv, NEW r \in Runs, Single(r), RunStep(r) \/ Kill(r), ~Start(r)
    PROVE  Single(r)'
<1>1. \A q \in Runs \ {r} : ~Active(q)'
  BY StepFacts DEF Single, Active
<1>2. ASSUME NEW n \in Names, seg'[n] # NoSeg PROVE seg'[n][1] = r
  <2>1. CASE seg'[n] = seg[n]
    BY <1>2, <2>1 DEF Single
  <2>2. CASE Create(r) \/ TrackerExit(r)
    BY <1>2, <2>1, <2>2, SInvFacts DEF Create, TrackerExit, TypeOK
  <2>3. CASE MaskCleanUp(r) \/ DemCleanUp(r)
    BY <1>2, <2>1, <2>3, SInvFacts DEF MaskCleanUp, DemCleanUp, Unlink, TypeOK
  <2> QED
    BY <2>1, <2>2, <2>3
    DEF RunStep, ImportFails, Attach, FileMissing, Size, Fill, Process, Close, Kill
<1> QED
  BY <1>1, <1>2 DEF Single

(* A run that starts alone has no objects and finds no segments.           *)
LEMMA StartAlone ==
    ASSUME SInv, Makers, NEW r \in Runs, Start(r), alone'[r]
    PROVE  Single(r)' /\ Solo(r)'
<1>1. /\ pc[r] = "idle" /\ pc'[r] = "attach" /\ UNCHANGED <<seg, obj>>
      /\ \A q \in Runs : ~Active(q)
      /\ \A n \in Names : seg[n] = NoSeg
  <2>1. TypeOK /\ pc[r] = "idle" /\ pc'[r] = "attach" /\ UNCHANGED <<seg, obj>>
    BY SInvFacts DEF Start, Goto, TypeOK
  <2>2. {q \in Runs : Active(q)} = {} /\ Existing = {}
    BY DEF Start
  <2> QED
    BY <2>1, <2>2 DEF Existing
<1>2. \A q \in Runs \ {r} : ~Active(q)'
  BY <1>1, StepFacts DEF RunStep, Active
<1>3. ASSUME NEW o \in Objects, Maker(r, o) PROVE FALSE
  <2>1. obj[r][o].id = <<r, o>> /\ content[<<r, o>>] # "none"
    BY <1>3, SInvFacts DEF Makers, Maker, Named
  <2> QED
    BY <1>1, <2>1, SInvFacts DEF Fresh
<1>4. Single(r)' /\ Owned(r)'
  BY <1>1, <1>2 DEF Single, Owned
<1>5. Kept(r)'
  BY <1>1, <1>3 DEF Kept, Maker
<1> QED
  BY <1>1, <1>4, <1>5 DEF Solo, Tidy

LEMMA StepMakers ==
    ASSUME SInv, Makers, NEW r \in Runs, RunStep(r) \/ Kill(r)
    PROVE  Makers'
<1>1. CASE obj' = obj
  BY <1>1 DEF Makers, Maker
<1>2. CASE Attach(r) /\ obj' # obj
  <2>1. /\ obj' = [obj EXCEPT ![r][at[r]] = [id |-> seg[Name(at[r])], child |-> TRUE]]
        /\ at[r] \in Objects /\ TypeOK
    BY <1>2, SInvFacts DEF Attach, Place, Loading
  <2> QED
    BY <2>1 DEF Makers, Maker, TypeOK
<1>3. CASE Fill(r)
  <2>1. /\ obj' = [obj EXCEPT ![r][at[r]] = [id |-> <<r, at[r]>>, child |-> FALSE]]
        /\ at[r] \in Objects /\ TypeOK
    BY <1>3, SInvFacts DEF Fill, Place, Loading
  <2> QED
    BY <2>1 DEF Makers, Maker, TypeOK
<1> QED
  BY <1>1, <1>2, <1>3
  DEF RunStep, Start, ImportFails, FileMissing, Create, Size, Process, Close,
      MaskCleanUp, DemCleanUp, TrackerExit, Kill

LEMMA NextAInv == AInv /\ [Next]_vars => AInv'
<1> SUFFICES ASSUME AInv, [Next]_vars PROVE AInv'
  OBVIOUS
<1>0. SInv /\ SInv'
  BY NextSInv DEF AInv
<1>1. CASE UNCHANGED vars
  <2>1. Makers'
    BY <1>1 DEF AInv, Makers, Maker, vars
  <2>2. ASSUME NEW r \in Runs, Single(r) PROVE Single(r)'
    BY <1>1, <2>2 DEF Single, Active, vars
  <2>3. ASSUME NEW r \in Runs, Solo(r) PROVE Solo(r)'
    <3>1. Owned(r)'
      BY <1>1, <2>3 DEF Solo, Owned, Pending, vars
    <3>2. Kept(r)'
      BY <1>1, <2>3 DEF Solo, Kept, Maker, Pending, vars
    <3>3. Tidy(r)'
      BY <1>1, <2>3 DEF Solo, Tidy, vars
    <3> QED BY <3>1, <3>2, <3>3 DEF Solo
  <2>4. ASSUME NEW r \in Runs PROVE alone'[r] /\ Active(r)' => alone[r] /\ Active(r)
    BY <1>1 DEF Active, vars
  <2> QED BY <1>0, <2>1, <2>2, <2>3, <2>4 DEF AInv
<1>2. ASSUME NEW r \in Runs, RunStep(r) \/ Kill(r) PROVE AInv'
  <2>1. ASSUME NEW s \in Runs, alone'[s], Active(s)' PROVE Single(s)' /\ Solo(s)'
    <3>1. CASE s = r /\ Start(r)
      BY <1>0, <2>1, <3>1, StartAlone DEF AInv
    <3>2. CASE s = r /\ ~Start(r)
      BY <1>0, <1>2, <2>1, <3>2, StepFacts, StepSolo, StepSingle DEF AInv
    <3>3. CASE s # r
      <4>1. Active(s)
        BY <1>0, <1>2, <2>1, <3>3, StepFacts DEF Active
      <4>2. CASE Start(r)
        BY <2>1, <3>3, <4>1, <4>2 DEF Start
      <4>3. CASE Active(r) /\ alone' = alone
        BY <2>1, <3>3, <4>1, <4>3 DEF AInv, Single
      <4> QED
        BY <1>0, <1>2, <4>2, <4>3, StepFacts
    <3> QED
      BY <3>1, <3>2, <3>3
  <2> QED
    BY <1>0, <1>2, <2>1, StepMakers DEF AInv
<1> QED
  BY <1>1, <1>2 DEF Next

LEMMA InitAInv == Init => AInv
<1> SUFFICES ASSUME Init PROVE AInv
  OBVIOUS
<1>1. Makers /\ \A r \in Runs : ~Active(r)
  BY DEF Init, Makers, Maker, NoObj, Active
<1> QED
  BY <1>1, InitSInv DEF AInv

LEMMA AInvariant == Spec => []AInv
  BY InitAInv, NextAInv, PTL DEF Spec

-----------------------------------------------------------------------------
(* Theorems about a run that is alone.                                     *)

(* For any algorithms whose finalize() cleans up what init() loads: a run  *)
(* that has the host to itself has unlinked all its segments when          *)
(* run_chain() returns, except those of the instance whose init() raised.  *)
THEOREM CleansUpWhenAlone == Spec => []CleanWhenAlone
<1>1. AInv => CleanWhenAlone
  BY DEF AInv, CleanWhenAlone, Solo, Tidy, Active
<1> QED
  BY <1>1, AInvariant, PTL

(* The IOError of Mask.clean_up(), which leaves run_chain() in the middle  *)
(* of its finalize() calls, is raised only when another run took the name. *)
THEOREM AloneNeverRaises == Spec => RaisesOnlyInCompany
<1>1. ASSUME AInv, [Next]_vars,
             NEW s \in Runs, pc[s] = "finalize", pc'[s] = "raised", alone[s]
      PROVE  FALSE
  <2>0. SInv /\ TypeOK /\ Place
    BY <1>1, SInvFacts DEF AInv
  <2>1. PICK r \in Runs : RunStep(r) \/ Kill(r)
    BY <1>1 DEF Next, vars
  <2>2. r = s
    BY <1>1, <2>0, <2>1, StepFacts
  <2>3. Solo(s)
    BY <1>1 DEF AInv, Active
  <2>4. ~Cleaned(s)
    BY <1>1, <2>0, CleanedEffect
  <2>5. MaskCleanUp(s) /\ seg[Name(Cleaning(s))] = NoSeg
    BY <1>1, <2>0, <2>1, <2>2, <2>4
    DEF RunStep, Start, ImportFails, Attach, FileMissing, Create, Size, Fill, Process,
        Close, MaskCleanUp, DemCleanUp, TrackerExit, Kill, Goto, TypeOK
  <2>6. Maker(s, Cleaning(s)) /\ Name(Cleaning(s)) \in Masks
    BY <2>5 DEF MaskCleanUp, Maker
  <2>7. Cleaning(s) \in Objects /\ <<s, Cleaning(s)>> # NoSeg
    BY <1>1, <2>0, CleaningObject, SInvFacts
  <2> QED
    BY <1>1, <2>0, <2>3, <2>5, <2>6, <2>7, MaskPresent
<1>2. AInv /\ [Next]_vars =>
        [\A r \in Runs : pc[r] = "finalize" /\ pc'[r] = "raised" => ~alone[r]]_vars
  BY <1>1
<1> QED
  BY <1>2, AInvariant, PTL DEF Spec, RaisesOnlyInCompany
============================================================================
