------------------------------ MODULE Ownership -------------------------------
(***************************************************************************)
(* What the programs of items 18 to 22, 32 and 42 do with shared_ptr,      *)
(* unique_ptr, weak_ptr and X::string.  A program is the sequence of what  *)
(* happens to its handles, to the end of their scopes; an object whose     *)
(* last handle is gone is destroyed, with the handles that are its         *)
(* members, before the program goes on.  The program "cache" calls         *)
(* fastLoadWidget of item20.cpp and lets go of what it returned in any     *)
(* order.                                                                  *)
(***************************************************************************)
EXTENDS Integers, Sequences, FiniteSets

CONSTANTS Slots,        \* the callers' shared_ptrs to cached widgets
          WidgetIDs

Objects == 1 .. 9
None == 0

\* A handle is <<object, name>> if it is a member, and <<0, name>> otherwise.
Names == {"upw", "spw", "spw1", "spw2", "sp", "sp1", "sp_", "sp_1", "tmp", "processWidgets Y",
          "processWidgets Z", "nd", "nd1", "root", "spcw", "spcw1", "upv", "spv", "upv1", "spv1",
          "pBigObj", "pInv", "pInvestment", "w1", "w2", "w3", "pw", "func", "vs0", "vs1",
          "grown0", "grown1", "new Widget", "new Widget 1", "ptrs0", "ptrs1"} \cup Slots
Members == {"next", "prev", "lchild", "rchild"}
Handles == ({0} \X Names) \cup (Objects \X Members)

VARIABLES item,         \* the program
          at,           \* the index of its next operation
          own,          \* what each handle points to
          wpw,          \* the weak_ptr of item20.cpp's first block
          cache,        \* fastLoadWidget's weak_ptrs
          id,           \* of the widget that each slot has got
          live          \* the objects that have not been destroyed

vars == <<item, at, own, wpw, cache, id, live>>

-----------------------------------------------------------------------------
\* The operations: `to` and `from` are a name or a name and a member.
New(h) == [op |-> "new", to |-> h, from |-> h]
Share(h, g) == [op |-> "share", to |-> h, from |-> g]
Move(h, g) == [op |-> "move", to |-> h, from |-> g]
Drop(h) == [op |-> "drop", to |-> h, from |-> h]
Watch(h) == [op |-> "watch", to |-> h, from |-> h]
LockWeak(h) == [op |-> "lock", to |-> h, from |-> h]
Load(h) == [op |-> "load", to |-> h, from |-> h]

\* item19.cpp; the vectors are destroyed after main.
ImplementShared == << New(<<"sp">>), Share(<<"sp1">>, <<"sp">>), Share(<<"sp">>, <<"sp1">>), New(<<"sp_">>),
                      Share(<<"sp">>, <<"sp_">>), Move(<<"sp_1">>, <<"sp">>),
                      Drop(<<"sp_1">>), Drop(<<"sp_">>), Drop(<<"sp1">>), Drop(<<"sp">>) >>
ImplementArray == << New(<<"sp">>), Share(<<"sp1">>, <<"sp">>), Share(<<"sp">>, <<"sp1">>), New(<<"sp_">>),
                     Share(<<"sp">>, <<"sp_">>), Drop(<<"sp_">>), Drop(<<"sp1">>), Drop(<<"sp">>) >>
CustomDeletor == <<New(<<"upw">>), New(<<"spw">>), Drop(<<"spw">>), Drop(<<"upw">>)>>
ControlBlocks == << New(<<"spw1">>), Drop(<<"spw1">>),
                    New(<<"spw1">>), Share(<<"spw2">>, <<"spw1">>), Drop(<<"spw2">>), Drop(<<"spw1">>) >>
\* Widget::process keeps shared_from_this() in the vector.
ProcessThis(widgets) == <<Share(<<widgets>>, <<"spw">>)>>
FromThis == <<New(<<"spw">>)>> \o ProcessThis("processWidgets Y") \o <<Drop(<<"spw">>)>>
            \o <<New(<<"tmp">>), Move(<<"spw">>, <<"tmp">>), Drop(<<"tmp">>)>>
            \o ProcessThis("processWidgets Z") \o <<Drop(<<"spw">>)>>
            \o <<Drop(<<"processWidgets Z">>), Drop(<<"processWidgets Y">>)>>

\* item20.cpp
Expired == << New(<<"spw">>), Watch(<<"spw">>), Drop(<<"spw">>), LockWeak(<<"spw2">>), Drop(<<"spw2">>) >>
CacheTwice == << Load(<<"spcw">>), Load(<<"spcw1">>), Drop(<<"spcw1">>), Drop(<<"spcw">>) >>
Cycle == << New(<<"nd">>), New(<<"nd1">>), Share(<<"nd", "next">>, <<"nd1">>),
            Share(<<"nd1", "prev">>, <<"nd">>), Drop(<<"nd1">>), Drop(<<"nd">>) >>
\* A faulty variant: the node in front is owned as well.
NoCycleStrong == Cycle
NoCycle == << New(<<"nd">>), New(<<"nd1">>), Share(<<"nd", "next">>, <<"nd1">>),
              Drop(<<"nd1">>), Drop(<<"nd">>) >>
Tree == <<New(<<"root">>), New(<<"root", "lchild">>), New(<<"root", "rchild">>), Drop(<<"root">>)>>

\* item21.cpp and item18.cpp
MakeFunctions == << New(<<"upw">>), New(<<"spw">>), Drop(<<"spw">>), Drop(<<"upw">>),
                    New(<<"upv">>), New(<<"spv">>), New(<<"upv1">>), New(<<"spv1">>),
                    Drop(<<"spv1">>), Drop(<<"upv1">>), Drop(<<"spv">>), Drop(<<"upv">>),
                    New(<<"pBigObj">>), Drop(<<"pBigObj">>) >>
Investment == << New(<<"pInv">>), Move(<<"pInvestment">>, <<"pInv">>), Drop(<<"pInv">>),
                 New(<<"sp">>), Drop(<<"sp">>), Drop(<<"pInvestment">>) >>

\* item22.cpp: the pImpl of three Widgets
PImpl == << New(<<"w1">>), Move(<<"w2">>, <<"w1">>), New(<<"w3">>), Move(<<"w1">>, <<"w2">>),
            Move(<<"w1">>, <<"w3">>), Drop(<<"w3">>), Drop(<<"w2">>), Drop(<<"w1">>) >>

\* item32.cpp: a Widget, then a vector's elements, are moved into a closure.
Closures == << New(<<"pw">>), Move(<<"func">>, <<"pw">>), Drop(<<"func">>), Drop(<<"pw">>),
               New(<<"upv">>), Move(<<"func">>, <<"upv">>), Drop(<<"func">>), Drop(<<"upv">>) >>

\* item42.cpp: the buffers of X::strings in vectors, which move when a vector grows,
\* and two shared_ptrs whose deleter does nothing, so that the Widgets still have the
\* owner that nobody drops.
PushBack == << New(<<"tmp">>), Move(<<"vs0">>, <<"tmp">>), Drop(<<"tmp">>),
               New(<<"grown1">>), Move(<<"grown0">>, <<"vs0">>),
               Drop(<<"grown0">>), Drop(<<"grown1">>) >>
EmplaceBegin == << New(<<"tmp">>), New(<<"vs0">>), Drop(<<"tmp">>),
                   New(<<"grown0">>), Move(<<"grown1">>, <<"vs0">>),
                   New(<<"tmp">>), Move(<<"grown0">>, <<"tmp">>), Drop(<<"tmp">>),
                   Drop(<<"grown0">>), Drop(<<"grown1">>) >>
IdleDeleter == << New(<<"new Widget">>), Share(<<"spw">>, <<"new Widget">>),
                  New(<<"new Widget 1">>), Share(<<"spw1">>, <<"new Widget 1">>),
                  Move(<<"ptrs0">>, <<"spw">>), Move(<<"ptrs1">>, <<"spw1">>),
                  Drop(<<"spw1">>), Drop(<<"spw">>), Drop(<<"ptrs0">>), Drop(<<"ptrs1">>) >>

Script(p) == CASE p = "item18" -> Investment
               [] p = "item19" -> ImplementShared \o ImplementArray \o CustomDeletor \o ControlBlocks
                                  \o FromThis
               [] p = "item20" -> Expired \o CacheTwice \o Cycle \o NoCycle \o Tree
               [] p = "item21" -> MakeFunctions
               [] p = "item22" -> PImpl
               [] p = "item32" -> Closures
               [] p = "item42" -> PushBack \o EmplaceBegin \o IdleDeleter
               [] p = "cache" -> <<>>
Programs == {"item18", "item19", "item20", "item21", "item22", "item32", "item42", "cache"}

-----------------------------------------------------------------------------
Init == /\ item \in Programs /\ at = 1
        /\ own = [h \in Handles |-> None]
        /\ wpw = None
        /\ cache = [w \in WidgetIDs |-> None]
        /\ id = [s \in Slots |-> None]
        /\ live = {}

Unowned == {o \in live : \A h \in Handles : own[h] # o}
Settled == Unowned = {}

Handle(path) == IF Len(path) = 1 THEN <<0, path[1]>> ELSE <<own[<<0, path[1]>>], path[2]>>

\* A control block stays allocated while a weak_ptr refers to it.
Fresh(o) == o \in Objects \ (live \cup {wpw} \cup {cache[w] : w \in WidgetIDs})
FirstFresh(o) == Fresh(o) /\ \A x \in 1 .. o - 1 : ~Fresh(x)

Locked(weak) == IF weak \in live THEN weak ELSE None

\* The destructor, and the destructors of the members
DestroyObject == /\ \E o \in Unowned : /\ live' = live \ {o}
                                       /\ own' = [h \in Handles |-> IF h[1] = o THEN None ELSE own[h]]
                 /\ UNCHANGED <<item, at, wpw, cache, id>>

\* A faulty variant: the entry of an expired widget stays as it is.
MissOnce(h, w) == /\ Locked(cache[w]) = None
                  /\ \E o \in Objects : /\ FirstFresh(o)
                                        /\ own' = [own EXCEPT ![h] = o]
                                        /\ cache' = [cache EXCEPT ![w] = IF @ = None THEN o ELSE @]
                                        /\ live' = live \cup {o}

\* The cache has nothing for this id, or its widget has expired.
Miss(h, w) == /\ Locked(cache[w]) = None
              /\ \E o \in Objects : /\ FirstFresh(o)
                                    /\ own' = [own EXCEPT ![h] = o]
                                    /\ cache' = [cache EXCEPT ![w] = o]
                                    /\ live' = live \cup {o}

Hit(h, w) == /\ Locked(cache[w]) # None
             /\ own' = [own EXCEPT ![h] = cache[w]]
             /\ UNCHANGED <<cache, live>>

Statement ==
    /\ Settled /\ at <= Len(Script(item))
    /\ LET s == Script(item)[at]
           h == Handle(s.to)
       IN \/ /\ s.op = "new"
             /\ \E o \in Objects : /\ FirstFresh(o)
                                   /\ own' = [own EXCEPT ![h] = o]
                                   /\ live' = live \cup {o}
             /\ UNCHANGED <<wpw, cache>>
          \/ /\ s.op = "share"
             /\ own' = [own EXCEPT ![h] = own[Handle(s.from)]]
             /\ UNCHANGED <<wpw, cache, live>>
          \/ /\ s.op = "move"
             /\ own' = [own EXCEPT ![h] = own[Handle(s.from)], ![Handle(s.from)] = None]
             /\ UNCHANGED <<wpw, cache, live>>
          \/ /\ s.op = "drop"
             /\ own' = [own EXCEPT ![h] = None]
             /\ UNCHANGED <<wpw, cache, live>>
          \/ s.op = "watch" /\ wpw' = own[h] /\ UNCHANGED <<own, cache, live>>
          \/ /\ s.op = "lock"
             /\ own' = [own EXCEPT ![h] = Locked(wpw)]
             /\ UNCHANGED <<wpw, cache, live>>
          \/ s.op = "load" /\ (Hit(h, 0) \/ Miss(h, 0)) /\ UNCHANGED wpw
    /\ at' = at + 1
    /\ UNCHANGED <<item, id>>

\* Callers of fastLoadWidget
LoadWidget(s, w) == /\ item = "cache" /\ Settled
                    /\ Hit(<<0, s>>, w) \/ Miss(<<0, s>>, w)
                    /\ id' = [id EXCEPT ![s] = w]
                    /\ UNCHANGED <<item, at, wpw>>

LetGo(s) == /\ item = "cache" /\ Settled /\ own[<<0, s>>] # None
            /\ own' = [own EXCEPT ![<<0, s>>] = None]
            /\ UNCHANGED <<item, at, wpw, cache, id, live>>

MainStep == DestroyObject \/ Statement
CallerStep == \E s \in Slots : LetGo(s) \/ \E w \in WidgetIDs : LoadWidget(s, w)

\* Callers may call as long as they like.
Ended == item = "cache" \/ (at > Len(Script(item)) /\ Settled)

-----------------------------------------------------------------------------
\* Callers of fastLoadWidget that ask for the same id share one widget while any of them
\* holds it.
OneWidgetPerId == item = "cache" =>
    \A s, u \in Slots : LET a == own[<<0, s>>]
                            b == own[<<0, u>>]
                        IN a # None /\ b # None /\ id[s] = id[u] => a = b

\* The programs leave nothing behind but the two nodes of item20.cpp's cycle, and the
\* two Widgets of item42.cpp that nobody deletes.
LeaksAsShown == item # "cache" /\ Ended =>
                    Cardinality(live) = IF item \in {"item20", "item42"} THEN 2 ELSE 0
=============================================================================
