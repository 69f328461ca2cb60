-------------------------- MODULE SharedResources --------------------------
(***************************************************************************)
(* Masks, DEMs, slopes and roughness grids in named shared memory          *)
(* (src/src/clev2er/utils/masks/masks.py and its siblings), as several     *)
(* chain runs on one host use them.                                        *)
(*                                                                         *)
(* With use_shared_memory the controller of a run creates a second         *)
(* instance of each algorithm, whose init() loads its grids with           *)
(* store_in_shared_memory.  A grid is attached to by its name and created  *)
(* when that fails; finalize() of each instance cleans up.  The processes  *)
(* that run the chain do not get the key _init_shared_mem and load private *)
(* copies.                                                                 *)
(*                                                                         *)
(* External: SharedMemory of Python 3.12, which sizes a segment after      *)
(* creating it and registers each name that a run creates or attaches to   *)
(* with the resource tracker of that run.  The tracker unlinks what is     *)
(* still registered when the run is over.                                  *)
(***************************************************************************)
EXTENDS Integers, Sequences, FiniteSets

CONSTANTS
    Runs,        \* the chain runs, each started at most once
    Masks, Dems, \* names of segments; Slopes and Roughness act as Dem does
    Algorithms   \* per algorithm: loads, the grids init() loads in order, and
                 \* cleans, the positions in loads whose grid finalize() cleans up

Names == Masks \cup Dems
Algs == 1..Len(Algorithms)

(* Mask and Dem use different names, and an algorithm that is an instance  *)
(* for shared memory loads at least one grid.                              *)
ASSUME AlgorithmsAssumption ==
    /\ Masks \cap Dems = {}
    /\ Algorithms \in Seq([loads : Seq(Names), cleans : Seq(Nat)])
    /\ Len(Algorithms) > 0
    /\ \A a \in Algs : Algorithms[a].loads # <<>>

(* finalize() of every algorithm cleans up each grid that its init() loads *)
(* into shared memory, and a mask only once.                               *)
ASSUME CleanUpAssumption ==
    \A a \in Algs :
       LET loads == Algorithms[a].loads  cleans == Algorithms[a].cleans
       IN  /\ \A k \in DOMAIN loads : \E c \in DOMAIN cleans : cleans[c] = k
           /\ \A c \in DOMAIN cleans : cleans[c] \in DOMAIN loads
           /\ \A c, e \in DOMAIN cleans :
                cleans[c] = cleans[e] /\ loads[cleans[c]] \in Masks => c = e

(* A grid object is known by its algorithm and its position in loads; a    *)
(* segment by the run and the object that created it.                      *)
Objects == UNION {{<<a, k>> : k \in DOMAIN Algorithms[a].loads} : a \in Algs}
Ids == Runs \X Objects
Name(o) == Algorithms[o[1]].loads[o[2]]

NoSeg == <<>>
NoObj == [id |-> NoSeg, child |-> FALSE]

VARIABLES
    seg,      \* seg[n]: the segment with name n
    content,  \* content[id]: "none", "empty" (no size), "zeros" or "grid"
    pc, at,   \* control point of run r, and the object or clean-up it is at
    obj,      \* obj[r][o]: the segment of the object, shared_mem_child
    tracker,  \* names registered with the tracker of run r
    failed,   \* the algorithm whose init() raised in run r, or 0
    alone     \* history: no segment at the start, no other run at any time

vars == <<seg, content, pc, at, obj, tracker, failed, alone>>

Init ==
    /\ seg = [n \in Names |-> NoSeg]
    /\ content = [i \in Ids |-> "none"]
    /\ pc = [r \in Runs |-> "idle"] /\ at = [r \in Runs |-> <<1, 1>>]
    /\ obj = [r \in Runs |-> [o \in Objects |-> NoObj]]
    /\ tracker = [r \in Runs |-> {}]
    /\ failed = [r \in Runs |-> 0]
    /\ alone = [r \in Runs |-> TRUE]

Active(r) == pc[r] \notin {"idle", "ended", "lost"}
Existing == {seg[n] : n \in Names} \ {NoSeg}
Goto(r, p) == pc' = [pc EXCEPT ![r] = p]

Start(r) ==
    /\ pc[r] = "idle"
    /\ Goto(r, "attach")
    /\ LET others == {q \in Runs : Active(q)}
       IN  alone' = [q \in Runs |->
             IF q = r THEN others = {} /\ Existing = {}
                      ELSE alone[q] /\ q \notin others]
    /\ UNCHANGED <<seg, content, at, obj, tracker, failed>>
-----------------------------------------------------------------------------
(* init() of the instances for shared memory.                              *)

(* The next object of the algorithm, the next algorithm, or the chunks.    *)
Loaded(r) ==
    LET a == at[r][1]  k == at[r][2]
    IN  IF k < Len(Algorithms[a].loads)
          THEN at' = [at EXCEPT ![r] = <<a, k + 1>>] /\ Goto(r, "attach")
        ELSE IF a < Len(Algorithms)
          THEN at' = [at EXCEPT ![r] = <<a + 1, 1>>] /\ Goto(r, "attach")
        ELSE at' = [at EXCEPT ![r] = <<1, 1>>] /\ Goto(r, "process")

(* FileNotFoundError, IOError or ValueError from the constructor: the      *)
(* instances before it, which are in shared_mem_alg_object_list, are       *)
(* finalised and run_chain() returns.                                      *)
InitRaises(r) ==
    /\ failed' = [failed EXCEPT ![r] = at[r][1]]
    /\ at' = [at EXCEPT ![r] = <<1, 1>>]
    /\ Goto(r, IF at[r][1] = 1 THEN "returned" ELSE "finalize")

(* The next algorithm cannot be imported: run_chain() returns at once.     *)
ImportFails(r) ==
    /\ pc[r] = "attach" /\ at[r][2] = 1
    /\ Goto(r, "aborted")
    /\ UNCHANGED <<seg, content, at, obj, tracker, failed, alone>>

Register(r, n) == tracker' = [tracker EXCEPT ![r] = @ \cup {n}]

(* SharedMemory(name, create=False): there is none, or it has no size yet  *)
(* (mmap() raises ValueError), or it is attached to, filled or not.        *)
Attach(r) ==
    LET n == Name(at[r])
    IN  /\ pc[r] = "attach"
        /\ \/ /\ seg[n] = NoSeg
              /\ Goto(r, "create")
              /\ UNCHANGED <<at, obj, tracker, failed>>
           \/ /\ seg[n] # NoSeg /\ content[seg[n]] = "empty"
              /\ InitRaises(r)
              /\ UNCHANGED <<obj, tracker>>
           \/ /\ seg[n] # NoSeg /\ content[seg[n]] # "empty"
              /\ obj' = [obj EXCEPT ![r][at[r]] = [id |-> seg[n], child |-> TRUE]]
              /\ Register(r, n)
              /\ Loaded(r)
              /\ UNCHANGED failed
        /\ UNCHANGED <<seg, content, alone>>

(* The grid's file cannot be read.  A constructor raises, except that Dem  *)
(* only returns False from load() when get_filename() finds no file: the   *)
(* object stays without data and without segment.                          *)
FileMissing(r) ==
    /\ pc[r] = "attach"
    /\ \/ InitRaises(r)
       \/ Name(at[r]) \in Dems /\ Loaded(r) /\ UNCHANGED failed
    /\ UNCHANGED <<seg, content, obj, tracker, alone>>

(* SharedMemory(name, create=True): FileExistsError when another run was   *)
(* faster.                                                                 *)
Create(r) ==
    LET n == Name(at[r])  id == <<r, at[r]>>
    IN  /\ pc[r] = "create"
        /\ \/ /\ seg[n] = NoSeg
              /\ seg' = [seg EXCEPT ![n] = id]
              /\ content' = [content EXCEPT ![id] = "empty"]
              /\ Goto(r, "size")
              /\ UNCHANGED <<at, failed>>
           \/ /\ seg[n] # NoSeg
              /\ InitRaises(r)
              /\ UNCHANGED <<seg, content>>
        /\ UNCHANGED <<obj, tracker, alone>>

(* ftruncate(), mmap() and the registration, still in the constructor.     *)
Size(r) ==
    /\ pc[r] = "size"
    /\ content' = [content EXCEPT ![<<r, at[r]>>] = "zeros"]
    /\ Register(r, Name(at[r]))
    /\ Goto(r, "fill")
    /\ UNCHANGED <<seg, at, obj, failed, alone>>

(* Mutant for SegmentsSound: the copy into the segment is left out.        *)
FillNot(r) ==
    /\ pc[r] = "fill"
    /\ obj' = [obj EXCEPT ![r][at[r]] = [id |-> <<r, at[r]>>, child |-> FALSE]]
    /\ Loaded(r)
    /\ UNCHANGED <<seg, content, tracker, failed, alone>>

(* self.mask_grid[:] = mask_grid[:]                                        *)
Fill(r) ==
    /\ pc[r] = "fill"
    /\ content' = [content EXCEPT ![<<r, at[r]>>] = "grid"]
    /\ obj' = [obj EXCEPT ![r][at[r]] = [id |-> <<r, at[r]>>, child |-> FALSE]]
    /\ Loaded(r)
    /\ UNCHANGED <<seg, tracker, failed, alone>>
-----------------------------------------------------------------------------
(* The chunks are processed, by processes whose instances lack             *)
(* _init_shared_mem and read private copies of the grids; an exception in  *)
(* the controller leaves run_chain() without any finalize().               *)
Process(r) ==
    /\ pc[r] = "process"
    /\ \/ Goto(r, "finalize")
       \/ Goto(r, "raised")
    /\ UNCHANGED <<seg, content, at, obj, tracker, failed, alone>>
-----------------------------------------------------------------------------
(* finalize(stage=2), or stage=4 when an init() raised.                    *)

(* The next clean-up of the algorithm, the next algorithm in the list, or  *)
(* run_chain() returns.                                                    *)
Cleaned(r) ==
    LET a == at[r][1]  c == at[r][2]
        last == IF failed[r] = 0 THEN Len(Algorithms) ELSE failed[r] - 1
    IN  IF c < Len(Algorithms[a].cleans)
          THEN at' = [at EXCEPT ![r] = <<a, c + 1>>] /\ UNCHANGED pc
        ELSE IF a < last
          THEN at' = [at EXCEPT ![r] = <<a + 1, 1>>] /\ UNCHANGED pc
        ELSE UNCHANGED at /\ Goto(r, "returned")

(* The object that the clean-up at[r] is for.                              *)
Cleaning(r) == <<at[r][1], Algorithms[at[r][1]].cleans[at[r][2]]>>

(* close() and, in the creator, unlink() of the name, which may be gone or *)
(* the name of another run's segment by now.                               *)
Unlink(r, n) ==
    /\ seg' = [seg EXCEPT ![n] = NoSeg]
    /\ tracker' = [tracker EXCEPT ![r] = @ \ {n}]

(* A child, or an object without segment: close() only.                    *)
Close(r) ==
    LET o == obj[r][Cleaning(r)]
    IN  /\ pc[r] = "finalize"
        /\ o.child \/ o.id = NoSeg
        /\ Cleaned(r)
        /\ UNCHANGED <<seg, content, obj, tracker, failed, alone>>

(* Mutant for CleanWhenAlone: takes every object for a child.              *)
MaskCleanUpChild(r) ==
    LET o == obj[r][Cleaning(r)]  n == Name(Cleaning(r))
    IN  /\ pc[r] = "finalize" /\ n \in Masks
        /\ ~o.child /\ o.id # NoSeg
        /\ Cleaned(r)
        /\ UNCHANGED <<seg, content, obj, tracker, failed, alone>>

(* Mask.clean_up() in the creator; a failing unlink() is raised as an      *)
(* IOError that nothing catches.                                           *)
MaskCleanUp(r) ==
    LET o == obj[r][Cleaning(r)]  n == Name(Cleaning(r))
    IN  /\ pc[r] = "finalize" /\ n \in Masks
        /\ ~o.child /\ o.id # NoSeg
        /\ \/ seg[n] # NoSeg /\ Unlink(r, n) /\ Cleaned(r)
           \/ seg[n] = NoSeg /\ Goto(r, "raised") /\ UNCHANGED <<seg, tracker, at>>
        /\ UNCHANGED <<content, obj, failed, alone>>

(* Mutant for RaisesOnlyInCompany: raises what fails, as Mask does.        *)
DemCleanUpRaises(r) ==
    LET o == obj[r][Cleaning(r)]  n == Name(Cleaning(r))
    IN  /\ pc[r] = "finalize" /\ n \in Dems
        /\ ~o.child /\ o.id # NoSeg
        /\ \/ seg[n] # NoSeg /\ Unlink(r, n) /\ Cleaned(r)
           \/ seg[n] = NoSeg /\ Goto(r, "raised") /\ UNCHANGED <<seg, tracker, at>>
        /\ UNCHANGED <<content, obj, failed, alone>>

(* Dem.clean_up() in the creator; a failing unlink() is only logged.       *)
DemCleanUp(r) ==
    LET o == obj[r][Cleaning(r)]  n == Name(Cleaning(r))
    IN  /\ pc[r] = "finalize" /\ n \in Dems
        /\ ~o.child /\ o.id # NoSeg
        /\ \/ seg[n] # NoSeg /\ Unlink(r, n)
           \/ seg[n] = NoSeg /\ UNCHANGED <<seg, tracker>>
        /\ Cleaned(r)
        /\ UNCHANGED <<content, obj, failed, alone>>
-----------------------------------------------------------------------------
(* The processes of the run are gone: its tracker unlinks what is left.    *)
TrackerExit(r) ==
    /\ pc[r] \in {"returned", "aborted", "raised", "killed"}
    /\ Goto(r, "ended")
    /\ seg' = [n \in Names |-> IF n \in tracker[r] THEN NoSeg ELSE seg[n]]
    /\ tracker' = [tracker EXCEPT ![r] = {}]
    /\ UNCHANGED <<content, at, obj, failed, alone>>

(* The controller is killed, or the controller and the tracker.            *)
Kill(r) ==
    /\ pc[r] \in {"attach", "create", "size", "fill", "process", "finalize"}
    /\ \/ Goto(r, "killed")
       \/ Goto(r, "lost")
    /\ UNCHANGED <<seg, content, at, obj, tracker, failed, alone>>

RunStep(r) ==
    \/ Start(r) \/ ImportFails(r) \/ Attach(r) \/ FileMissing(r)
    \/ Create(r) \/ Size(r) \/ Fill(r)
    \/ Process(r) \/ Close(r) \/ MaskCleanUp(r) \/ DemCleanUp(r)
    \/ TrackerExit(r)

Next == \E r \in Runs : RunStep(r) \/ Kill(r)

Spec == Init /\ [][Next]_vars
-----------------------------------------------------------------------------
(* Types of all variables.                                                 *)
TypeOK ==
    /\ seg \in [Names -> Ids \cup {NoSeg}]
    /\ content \in [Ids -> {"none", "empty", "zeros", "grid"}]
    /\ pc \in [Runs -> {"idle", "attach", "create", "size", "fill", "process",
                        "finalize", "returned", "aborted", "raised", "killed",
                        "lost", "ended"}]
    /\ at \in [Runs -> Algs \X (Nat \ {0})]
    /\ obj \in [Runs -> [Objects -> [id : Ids \cup {NoSeg}, child : BOOLEAN]]]
    /\ tracker \in [Runs -> SUBSET Names]
    /\ failed \in [Runs -> 0..Len(Algorithms)]
    /\ alone \in [Runs -> BOOLEAN]

(* A segment can be attached to before it is filled (masks.py:585 against  *)
(* 606-616), so an object may hold zeros; but only of another run, which   *)
(* is filling that segment at the moment or died while it did.  An object  *)
(* never holds an incomplete segment of its own run, and one that a run    *)
(* finished, removed or handed over is complete for good.                  *)
HeldIsFilled ==
    \A r \in Runs, o \in Objects :
       LET id == obj[r][o].id
       IN  id # NoSeg /\ content[id] # "grid" =>
             /\ id[1] # r
             /\ \/ pc[id[1]] = "fill" /\ at[id[1]] = id[2]
                \/ pc[id[1]] \in {"killed", "lost", "ended"}

(* Types, and what the objects of the runs hold.                           *)
SegmentsSound == TypeOK /\ HeldIsFilled

(* A run that is alone on the host and starts without leftovers unlinks in *)
(* finalize() all it created, also when an init() raises; only the         *)
(* segments of the instance whose init() raised stay until it exits        *)
(* (run_chain.py:440).                                                     *)
CleanWhenAlone ==
    \A r \in Runs :
       alone[r] /\ pc[r] = "returned" =>
         \A n \in Names : seg[n] # NoSeg => failed[r] # 0 /\ seg[n][2][1] = failed[r]

(* clean_up() raises only when a run shared names with another one: not    *)
(* when two objects of a run have one name, nor when finalize() cleans an  *)
(* object up twice, as that of geolocate_roemer does.                      *)
RaisesOnlyInCompany ==
    [][\A r \in Runs : pc[r] = "finalize" /\ pc'[r] = "raised" => ~alone[r]]_vars
============================================================================
