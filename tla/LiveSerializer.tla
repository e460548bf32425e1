--------------------------- MODULE LiveSerializer ---------------------------
(***************************************************************************)
(* The ranges of lib/serializer.hpp over containers that change.           *)
(*                                                                         *)
(* A context of the serializer holds two iterators into a container of the *)
(* caller (iterator_enumerator in lib/utils.hpp), and between two calls of *)
(* serialize the caller can change it: the reference to const does not     *)
(* even keep a value from handing out the containers it owns for writing.  *)
(* Serializer takes a range for the sequence of elements that are left;    *)
(* here it is what it is in the code, and the text is left out.            *)
(*                                                                         *)
(* Containers live on a heap.  A value owns the container at an address    *)
(* (std::unique_ptr) or is a leaf.  The positions in an object are its     *)
(* keys, numbered in their order, those in an array its indices.           *)
(***************************************************************************)
EXTENDS Integers, Stacks, Types

CONSTANTS
    Addresses,      \* where containers can be
    KeyCount,       \* the number of keys there are
    Heaps,          \* what the heap can hold before the first call
    Root,           \* the address of the serializer's root
    MaxChanges      \* bound: changes by the caller

Keys == 1 .. KeyCount
Past == KeyCount + 1    \* end() of an object

Owns(value) == value.type \in ContainerTypes

Slots(container) ==
    IF container.type = "object" THEN container.members ELSE container.items

\* The addresses that the container at an address owns directly.
Children(memory, at) == {v.at : v \in {v \in Range(Slots(memory[at])) : Owns(v)}}

Closed(memory, all) == \A at \in all : Children(memory, at) \subseteq all

Values == {Null} \cup [type : ContainerTypes, at : Addresses]

IsContainer(container) ==
    IF container.type = "object"
    THEN /\ container = Object(container.members)
         /\ container.members \in [DOMAIN container.members -> Values]
         /\ DOMAIN container.members \subseteq Keys
    ELSE container = Array(container.items) /\ container.items \in Seq(Values)

IsMemory(memory) ==
    /\ memory = [at \in DOMAIN memory |-> memory[at]]
    /\ DOMAIN memory \subseteq Addresses
    /\ \A at \in DOMAIN memory : IsContainer(memory[at])

\* The containers are a tree.  No two values own the same one, none owns the
\* root or what does not exist, and from the root one gets to all of them.
IsTree(memory) ==
    LET slot(a, p) == Slots(memory[a])[p]
        places(a)  == {p \in DOMAIN Slots(memory[a]) : Owns(slot(a, p))}
    IN  /\ Root \in DOMAIN memory
        /\ \A a \in DOMAIN memory : \A p \in places(a) :
              /\ slot(a, p).at \in DOMAIN memory \ {Root}
              /\ \A b \in DOMAIN memory : \A q \in places(b) :
                    slot(a, p).at = slot(b, q).at => a = b /\ p = q
        /\ \A all \in SUBSET DOMAIN memory :
              Root \in all /\ Closed(memory, all) => all = DOMAIN memory

ASSUME LiveAssumption ==
    /\ KeyCount \in Nat
    /\ \A memory \in Heaps : IsMemory(memory) /\ IsTree(memory)

VARIABLES
    heap,           \* function: addresses in use |-> containers
    allocation,     \* how often what was at an address has gone or moved
    m_contexts,     \* the containers being written, the innermost last
    ec,             \* what the last call returned; "running" inside one
    changes,        \* the number of changes so far
    tampered        \* history: what is being written was moved or destroyed

liveVars == <<heap, allocation, m_contexts, ec, changes, tampered>>

\* All that is destroyed with a value: its container, what that owns, and so on.
Owned(value) ==
    {at \in DOMAIN heap :
        Owns(value) /\ \A all \in SUBSET DOMAIN heap :
            value.at \in all /\ Closed(heap, all) => at \in all}
-----------------------------------------------------------------------------
(* lib/utils.hpp, and the contexts made of it.                             *)

\* ++m_ptr: in an object the next key there is now, in an array the next place.
Successor(container, position) ==
    IF container.type = "object"
    THEN Min({Past} \cup {k \in DOMAIN container.members : k > position})
    ELSE position + 1

\* The two iterators, and two pieces of history: the positions that have been
\* written, and all that are to be written, those included.
make_serializer_context(at) ==
    LET container == heap[at]
    IN  [at         |-> at,
         m_ptr      |-> Successor(container, 0),
         m_end      |-> IF container.type = "object" THEN Past
                        ELSE Len(container.items) + 1,
         allocation |-> allocation[at],
         written    |-> {},
         due        |-> DOMAIN Slots(container)]

Dangles(context) == context.allocation # allocation[context.at]
-----------------------------------------------------------------------------
(* A call of serialize.                                                    *)

Top == Last(m_contexts)

Serialize ==
    /\ ec = "buffer_is_full"
    /\ ec' = "running"
    /\ UNCHANGED <<heap, allocation, m_contexts, changes, tampered>>

IsWriting == ec = "running" /\ m_contexts # <<>>

\* No element is left.  m_ptr is compared and not dereferenced.
EndBlock ==
    /\ IsWriting
    /\ Top.m_ptr = Top.m_end
    /\ m_contexts' = Front(m_contexts)
    /\ UNCHANGED <<heap, allocation, ec, changes, tampered>>

\* Mutant: the iterator stays on an element whose container is being written.
WriteElementAndStay ==
    /\ IsWriting
    /\ Top.m_ptr # Top.m_end
    /\ ~Dangles(Top)
    /\ LET container == heap[Top.at]
           value     == Slots(container)[Top.m_ptr]
           popped    == [Top EXCEPT !.m_ptr = IF Owns(value) THEN @ ELSE Successor(container, @),
                                    !.written = @ \cup {Top.m_ptr}]
           below     == SetTop(m_contexts, popped)
       IN  m_contexts' = IF Owns(value)
                         THEN Append(below, make_serializer_context(value.at)) ELSE below
    /\ UNCHANGED <<heap, allocation, ec, changes, tampered>>

\* pop_element moves on at once, to the position that is the next by now, and
\* the element is turned into text before the call can end.
WriteElement ==
    /\ IsWriting
    /\ Top.m_ptr # Top.m_end
    /\ ~Dangles(Top)
    /\ LET container == heap[Top.at]
           value     == Slots(container)[Top.m_ptr]
           popped    == [Top EXCEPT !.m_ptr = Successor(container, @),
                                    !.written = @ \cup {Top.m_ptr}]
           below     == SetTop(m_contexts, popped)
       IN  m_contexts' = IF Owns(value)
                         THEN Append(below, make_serializer_context(value.at)) ELSE below
    /\ UNCHANGED <<heap, allocation, ec, changes, tampered>>

\* pop_element through an iterator into what has gone or moved.
WriteDangling ==
    /\ IsWriting
    /\ Top.m_ptr # Top.m_end
    /\ Dangles(Top)
    /\ ec' = "undefined"
    /\ UNCHANGED <<heap, allocation, m_contexts, changes, tampered>>

Return ==
    /\ ec = "running"
    /\ ec' \in IF m_contexts = <<>> THEN {"completed", "buffer_is_full"} ELSE {"buffer_is_full"}
    /\ UNCHANGED <<heap, allocation, m_contexts, changes, tampered>>
-----------------------------------------------------------------------------
(* Between two calls: the operations of lib/types.hpp on any container.    *)

BeingWritten(at) == \E i \in DOMAIN m_contexts : m_contexts[i].at = at

Change(at) ==
    /\ ec = "buffer_is_full"
    /\ changes < MaxChanges
    /\ changes' = changes + 1
    /\ at \in DOMAIN heap
    /\ ec' = ec

\* What can be put somewhere, and the heap that has it: a leaf, or a value that
\* owns a container, which is still empty.
With(at, container) ==
    [a \in DOMAIN heap \cup {at} |-> IF a = at THEN container ELSE heap[a]]

Arrivals ==
    {[value |-> Null, heap |-> heap]}
    \cup {[value |-> [type |-> container.type, at |-> at], heap |-> With(at, container)] :
              at \in Addresses \ DOMAIN heap, container \in {Object(<<>>), Array(<<>>)}}

\* A key that is added where m_ptr has not yet been is going to be written.
Noticed(at, key) ==
    [i \in DOMAIN m_contexts |->
        IF /\ m_contexts[i].at = at
           /\ ~Dangles(m_contexts[i])
           /\ key > m_contexts[i].m_ptr
        THEN [m_contexts[i] EXCEPT !.due = @ \cup {key}] ELSE m_contexts[i]]

\* Mutant: the members are moved to make room, as those of a sorted vector.
InsertMoving(at, key) ==
    /\ Change(at)
    /\ heap[at].type = "object"
    /\ \E new \in Arrivals :
          /\ insert(heap[at], key, new.value).second
          /\ heap' = [new.heap EXCEPT ![at] = insert(@, key, new.value).object]
    /\ allocation' = [allocation EXCEPT ![at] = @ + 1]
    /\ UNCHANGED <<m_contexts, tampered>>

\* A std::map leaves iterators alone.  (If the key is taken nothing changes.)
Insert(at, key) ==
    /\ Change(at)
    /\ heap[at].type = "object"
    /\ \E new \in Arrivals :
          /\ insert(heap[at], key, new.value).second
          /\ heap' = [new.heap EXCEPT ![at] = insert(@, key, new.value).object]
    /\ m_contexts' = Noticed(at, key)
    /\ UNCHANGED <<allocation, tampered>>

\* A std::vector moves its elements when it is full, which only the
\* implementation knows; the containers that they own stay where they are.
PushBack(at) ==
    /\ Change(at)
    /\ heap[at].type = "array"
    /\ \E new \in Arrivals : heap' = [new.heap EXCEPT ![at] = push_back(@, new.value)]
    /\ \E moved \in {0, 1} : allocation' = [allocation EXCEPT ![at] = @ + moved]
    /\ tampered' = (tampered \/ BeingWritten(at))
    /\ m_contexts' = m_contexts

SetSlot(container, position, value) ==
    IF container.type = "object"
    THEN insert_or_assign(container, position, value).object
    ELSE Array([container.items EXCEPT ![position] = value])

\* Mutant: a value does not own what it points to.
ReplaceAndLeak(at, position) ==
    /\ Change(at)
    /\ position \in DOMAIN Slots(heap[at])
    /\ \E new \in Arrivals : heap' = [new.heap EXCEPT ![at] = SetSlot(@, position, new.value)]
    /\ UNCHANGED <<allocation, m_contexts, tampered>>

\* object::insert_or_assign, or an assignment through array::operator[]: the
\* value that was there is destroyed, with all that it owns.
Replace(at, position) ==
    /\ Change(at)
    /\ position \in DOMAIN Slots(heap[at])
    /\ LET old  == Slots(heap[at])[position]
           gone == Owned(old)
       IN  /\ \E new \in Arrivals :
                 LET all == [new.heap EXCEPT ![at] = SetSlot(@, position, new.value)]
                 IN  heap' = [a \in DOMAIN all \ gone |-> all[a]]
           /\ allocation' = [a \in Addresses |-> allocation[a] + (IF a \in gone THEN 1 ELSE 0)]
           /\ tampered' = (tampered \/ (Owns(old) /\ BeingWritten(old.at)))
    /\ m_contexts' = m_contexts
-----------------------------------------------------------------------------
LiveInit ==
    /\ heap \in Heaps
    /\ allocation = [a \in Addresses |-> 0]
    /\ m_contexts = <<make_serializer_context(Root)>>
    /\ ec = "buffer_is_full"
    /\ changes = 0
    /\ tampered = FALSE

LiveNext ==
    \/ Serialize \/ EndBlock \/ WriteElement \/ WriteDangling \/ Return
    \/ \E at \in DOMAIN heap :
          \/ PushBack(at)
          \/ \E key \in Keys : Insert(at, key)
          \/ \E position \in DOMAIN Slots(heap[at]) : Replace(at, position)

LiveSpec == LiveInit /\ [][LiveNext]_liveVars
-----------------------------------------------------------------------------
(* Properties.                                                             *)

\* Whatever is inserted, appended, replaced and destroyed: every container but
\* the root is owned by exactly one value, which is in a container that exists.
\* Nothing is freed twice, and nothing is left over.
OwnedOnce == IsTree(heap)

\* The containers being written are a path down from the root, whatever the
\* caller does to other containers, or adds to these.
StackIsAPath ==
    ~tampered => \A i \in DOMAIN m_contexts :
        /\ ~Dangles(m_contexts[i])
        /\ m_contexts[i].at \in
              IF i = 1 THEN {Root} ELSE Children(heap, m_contexts[i - 1].at)

\* A caller may add members to any object, replace any value that is not being
\* written and let any array grow that is not being written, in the middle of
\* writing them: nothing else is ever read after it has moved or gone.
UndefinedOnlyIfTampered == ec = "undefined" => tampered

\* Of each container all is written that was there when its writing began, and
\* of what is added to an object, what comes behind m_ptr; each of them once
\* and in order.  What is added to an array is not.
WritesWhatIsDue ==
    \A i \in DOMAIN m_contexts :
        LET context == m_contexts[i]
            ahead   == {p \in DOMAIN Slots(heap[context.at]) :
                            context.m_ptr <= p /\ p < context.m_end}
        IN  ~Dangles(context) => /\ context.due = context.written \cup ahead
                                 /\ \A p \in context.written : p < context.m_ptr
=============================================================================
