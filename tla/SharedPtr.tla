------------------------------ MODULE SharedPtr -------------------------------
(***************************************************************************)
(* X::shared_ptr<T> of item19.cpp.  Threads construct, copy, move, assign  *)
(* and destroy handles in any order, each handle used as a plain object    *)
(* is: while one thread changes it no other thread touches it, while some  *)
(* copy from it nobody changes it.  The counts are shared, and atomic.  A  *)
(* handle that has been moved from owns nothing; copying from it would     *)
(* write through a null pointer, and no thread does so.  The objects hold  *)
(* no handles themselves, as A does not.                                   *)
(***************************************************************************)
EXTENDS Integers, FiniteSets

CONSTANTS Threads, Handles, Objects, None

ASSUME SharedPtrAssumption ==
    IsFiniteSet(Handles) /\ None \notin Objects /\ None \notin Handles

VARIABLES built,        \* the handles whose lifetime has begun
          ptr,          \* _ptr with its _rf: the object each handle points to, or None
          rf,           \* *_rf of each object
          live,         \* the objects that are allocated, with their counts
          pc, request   \* of each thread: the next access, the operation and its handles

vars == <<built, ptr, rf, live, pc, request>>

NoCall == [do |-> "none", to |-> None, from |-> None]
Calls == [do : {"none", "copy", "assign", "destroy"},
          to : Handles \cup {None}, from : Handles \cup {None}]

TypeOK == /\ built \subseteq Handles
          /\ ptr \in [Handles -> Objects \cup {None}]
          /\ rf \in [Objects -> Int]
          /\ live \subseteq Objects
          /\ pc \in [Threads -> {"idle", "release", "delete", "take", "increment"}]
          /\ request \in [Threads -> Calls]

Init == /\ built = {} /\ ptr = [h \in Handles |-> None]
        /\ rf = [o \in Objects |-> 0] /\ live = {}
        /\ pc = [t \in Threads |-> "idle"]
        /\ request = [t \in Threads |-> NoCall]

Busy(t) == pc[t] # "idle"
Writable(h) == \A t \in Threads : Busy(t) => h # request[t].to /\ h # request[t].from
Readable(h) == \A t \in Threads : Busy(t) => h # request[t].to
Owning(h) == h \in built /\ ptr[h] # None

Begin(t, k, do, h, g) == /\ pc' = [pc EXCEPT ![t] = k]
                         /\ request' = [request EXCEPT ![t] = [do |-> do, to |-> h, from |-> g]]
End(t) == /\ pc' = [pc EXCEPT ![t] = "idle"]
          /\ request' = [request EXCEPT ![t] = NoCall]

-----------------------------------------------------------------------------
\* The memory may be that of an object which has been deleted.
Construct(t, h) == /\ ~Busy(t) /\ h \notin built /\ Writable(h)
                   /\ \E o \in Objects \ live : /\ live' = live \cup {o}
                                                /\ rf' = [rf EXCEPT ![o] = 1]
                                                /\ ptr' = [ptr EXCEPT ![h] = o]
                   /\ built' = built \cup {h}
                   /\ UNCHANGED <<pc, request>>

CopyConstruct(t, h, g) == /\ ~Busy(t) /\ h \notin built /\ Writable(h)
                          /\ Owning(g) /\ Readable(g)
                          /\ built' = built \cup {h}
                          /\ ptr' = [ptr EXCEPT ![h] = ptr[g]]
                          /\ Begin(t, "increment", "copy", h, g)
                          /\ UNCHANGED <<rf, live>>

MoveConstruct(t, h, g) == /\ ~Busy(t) /\ h \notin built /\ Writable(h)
                          /\ g \in built /\ Writable(g)
                          /\ built' = built \cup {h}
                          /\ ptr' = [ptr EXCEPT ![h] = ptr[g], ![g] = None]
                          /\ UNCHANGED <<rf, live, pc, request>>

\* A faulty variant: no test for an assignment to itself
AssignUntested(t, h, g) == /\ ~Busy(t) /\ h \in built /\ Writable(h)
                           /\ Owning(g) /\ Readable(g)
                           /\ Begin(t, "release", "assign", h, g)
                           /\ UNCHANGED <<built, ptr, rf, live>>

\* To itself it does nothing.
Assign(t, h, g) == /\ ~Busy(t) /\ h \in built /\ Writable(h)
                   /\ Owning(g) /\ Readable(g) /\ h # g
                   /\ Begin(t, "release", "assign", h, g)
                   /\ UNCHANGED <<built, ptr, rf, live>>

Destroy(t, h) == /\ ~Busy(t) /\ h \in built /\ Writable(h)
                 /\ Begin(t, "release", "destroy", h, None)
                 /\ UNCHANGED <<built, ptr, rf, live>>

-----------------------------------------------------------------------------
\* After release(): the destructor ends, the assignment goes on.
Released(t) == IF request[t].do = "destroy"
               THEN built' = built \ {request[t].to} /\ End(t)
               ELSE /\ pc' = [pc EXCEPT ![t] = "take"] /\ UNCHANGED <<built, request>>

ReleaseNothing(t) == /\ pc[t] = "release" /\ ptr[request[t].to] = None
                     /\ Released(t)
                     /\ UNCHANGED <<ptr, rf, live>>

Decrement(t) == LET o == ptr[request[t].to] IN /\ pc[t] = "release" /\ o # None
                                            /\ rf' = [rf EXCEPT ![o] = @ - 1]
                                            /\ UNCHANGED <<ptr, live>>

ReleaseShare(t) == Decrement(t) /\ rf[ptr[request[t].to]] # 1 /\ Released(t)

ReleaseLast(t) == /\ Decrement(t) /\ rf[ptr[request[t].to]] = 1
                  /\ pc' = [pc EXCEPT ![t] = "delete"]
                  /\ UNCHANGED <<built, request>>

Delete(t) == /\ pc[t] = "delete"
             /\ live' = live \ {ptr[request[t].to]}
             /\ Released(t)
             /\ UNCHANGED <<ptr, rf>>

Take(t) == /\ pc[t] = "take"
           /\ ptr' = [ptr EXCEPT ![request[t].to] = ptr[request[t].from]]
           /\ pc' = [pc EXCEPT ![t] = "increment"]
           /\ UNCHANGED <<built, rf, live, request>>

Increment(t) == /\ pc[t] = "increment"
                /\ rf' = [rf EXCEPT ![ptr[request[t].to]] = @ + 1]
                /\ End(t)
                /\ UNCHANGED <<built, ptr, live>>

Step(t) == \/ \E h \in Handles : Construct(t, h) \/ Destroy(t, h)
           \/ \E h, g \in Handles : \/ CopyConstruct(t, h, g) \/ MoveConstruct(t, h, g)
                                    \/ Assign(t, h, g)
           \/ ReleaseNothing(t) \/ ReleaseShare(t) \/ ReleaseLast(t) \/ Delete(t)
           \/ Take(t) \/ Increment(t)

Next == \E t \in Threads : Step(t)
Spec == Init /\ [][Next]_vars

-----------------------------------------------------------------------------
\* The handles that own a share of an object: those that are between giving one up
\* and getting the next, or being gone, own none.
Between(h) == \E t \in Threads : pc[t] \in {"delete", "take", "increment"} /\ request[t].to = h
Shares(o) == {h \in built : ptr[h] = o /\ ~Between(h)}

Deletes(t, o) == pc[t] = "delete" /\ ptr[request[t].to] = o

\* An object is live, and its count is the number of its shares, as long as there
\* are any; when there are none it has been freed, or one thread is about to free it.
SharesCounted ==
    \A o \in Objects :
        /\ Shares(o) # {} => o \in live
        /\ o \in live => rf[o] = Cardinality(Shares(o))
        /\ o \in live /\ Shares(o) = {} => \E t \in Threads : Deletes(t, o)

\* No thread frees an object that has been freed, or touches its count then.
NoUseAfterFree ==
    \A t \in Threads :
        \/ pc[t] \in {"idle", "take"}
        \/ ptr[request[t].to] = None
        \/ ptr[request[t].to] \in live

\* shared_ptr's counts are those of the handles that share the object, whatever the
\* threads do with their handles: an object is deleted once, when its last handle is
\* gone, and nobody touches it later (item19.cpp:29-89).
FreedOnce == SharesCounted /\ NoUseAfterFree
=============================================================================
