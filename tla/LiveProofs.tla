----------------------------- MODULE LiveProofs -----------------------------
(***************************************************************************)
(* Proofs of the properties of LiveSerializer, for every number of         *)
(* addresses, keys and changes, and all trees of containers.               *)
(***************************************************************************)
EXTENDS LiveSerializer, SequenceProofs

-----------------------------------------------------------------------------
(* Numbers.                                                                *)

\* Every set of naturals has a least element, and that is its Min.
LEMMA LeastNatural ==
    ASSUME NEW T, T \subseteq Nat, T # {}
    PROVE  Min(T) \in T /\ \A n \in T : Min(T) <= n
  BY LeastElement DEF Min
-----------------------------------------------------------------------------
(* Containers that own each other.                                         *)

\* What a container owns, place by place.
LEMMA ChildInPlace ==
    ASSUME NEW memory, NEW a, NEW c
    PROVE  c \in Children(memory, a) <=>
              \E p \in DOMAIN Slots(memory[a]) :
                  Owns(Slots(memory[a])[p]) /\ Slots(memory[a])[p].at = c
  BY DEF Children, Range

\* No container is owned twice, and the root is not owned.
LEMMA OneOwner ==
    ASSUME NEW memory, IsTree(memory),
           NEW a \in DOMAIN memory, NEW b \in DOMAIN memory,
           NEW c, c \in Children(memory, a)
    PROVE  /\ c \in DOMAIN memory
           /\ c # Root
           /\ c \in Children(memory, b) => a = b
  BY ChildInPlace DEF IsTree

\* What is destroyed with a value is its container and what is owned from there.
LEMMA Destroyed ==
    ASSUME NEW value, Owns(value), value.at \in DOMAIN heap, IsTree(heap)
    PROVE  /\ value.at \in Owned(value)
           /\ Owned(value) \subseteq DOMAIN heap
           /\ Closed(heap, Owned(value))
           /\ \A all \in SUBSET DOMAIN heap :
                 value.at \in all /\ Closed(heap, all) => Owned(value) \subseteq all
           /\ \A c \in Owned(value) : c # value.at =>
                 \E a \in Owned(value) : c \in Children(heap, a)
  <1>1. /\ value.at \in Owned(value)
        /\ Owned(value) \subseteq DOMAIN heap
        /\ \A all \in SUBSET DOMAIN heap :
              value.at \in all /\ Closed(heap, all) => Owned(value) \subseteq all
    BY DEF Owned
  <1>2. Closed(heap, Owned(value))
    BY OneOwner DEF Owned, Closed
  <1>3. ASSUME NEW c \in Owned(value), c # value.at,
               \A a \in Owned(value) : c \notin Children(heap, a)
        PROVE  FALSE
    <2>1. Closed(heap, Owned(value) \ {c})
      BY <1>2, <1>3 DEF Closed
    <2>2. Owned(value) \subseteq Owned(value) \ {c}
      BY <1>1, <1>3, <2>1
    <2>3. QED
      BY <1>3, <2>2
  <1>4. QED
    BY <1>1, <1>2, <1>3

\* One place gets a value: either a leaf or the owner of a container that is
\* new and empty.  What was owned there, and from there, has gone.
LEMMA TreeAfterPlacing ==
    ASSUME NEW old, IsTree(old), NEW new,
           NEW at \in DOMAIN old, NEW position, NEW value,
           NEW gone, gone \subseteq DOMAIN old \ {Root, at}, Closed(old, gone),
           \A a \in DOMAIN old \ gone : \A p \in DOMAIN Slots(old[a]) :
              Owns(Slots(old[a])[p]) =>
                  (Slots(old[a])[p].at \in gone <=> a = at /\ p = position),
           DOMAIN new = (DOMAIN old \ gone) \cup (IF Owns(value) THEN {value.at} ELSE {}),
           Owns(value) => value.at \notin DOMAIN old /\ DOMAIN Slots(new[value.at]) = {},
           \A a \in DOMAIN old \ gone : a # at => new[a] = old[a],
           DOMAIN Slots(new[at]) = DOMAIN Slots(old[at]) \cup {position},
           Slots(new[at])[position] = value,
           \A p \in DOMAIN Slots(old[at]) \ {position} :
              Slots(new[at])[p] = Slots(old[at])[p]
    PROVE  IsTree(new)
  <1> DEFINE slot(memory, a, p) == Slots(memory[a])[p]
             Placed(a, p) == a = at /\ p = position
  <1>1. Root \in DOMAIN new /\ at \in DOMAIN new
    BY DEF IsTree
  <1>2. ASSUME NEW a \in DOMAIN new, NEW p \in DOMAIN Slots(new[a]), Owns(slot(new, a, p))
        PROVE  \/ Placed(a, p) /\ slot(new, a, p) = value
               \/ /\ a \in DOMAIN old \ gone
                  /\ p \in DOMAIN Slots(old[a])
                  /\ slot(new, a, p) = slot(old, a, p)
                  /\ ~Placed(a, p)
                  /\ slot(new, a, p).at \in DOMAIN old \ (gone \cup {Root})
    <2>1. CASE a = at
      BY <1>2, <2>1 DEF IsTree
    <2>2. CASE a # at
      BY <1>2, <2>2 DEF IsTree
    <2>3. QED
      BY <2>1, <2>2
  <1>3. ASSUME NEW a \in DOMAIN new, NEW p \in DOMAIN Slots(new[a]), Owns(slot(new, a, p))
        PROVE  slot(new, a, p).at \in DOMAIN new \ {Root}
    BY <1>2, <1>3 DEF IsTree
  <1>4. ASSUME NEW a \in DOMAIN new, NEW p \in DOMAIN Slots(new[a]), Owns(slot(new, a, p)),
               NEW b \in DOMAIN new, NEW q \in DOMAIN Slots(new[b]), Owns(slot(new, b, q)),
               slot(new, a, p).at = slot(new, b, q).at
        PROVE  a = b /\ p = q
    <2>1. CASE Placed(a, p)
      BY <1>2, <1>4, <2>1
    <2>2. CASE Placed(b, q)
      BY <1>2, <1>4, <2>2
    <2>3. CASE ~Placed(a, p) /\ ~Placed(b, q)
      BY <1>2, <1>4, <2>3 DEF IsTree
    <2>4. QED
      BY <2>1, <2>2, <2>3
  <1>5. ASSUME NEW all \in SUBSET DOMAIN new, Root \in all, Closed(new, all)
        PROVE  all = DOMAIN new
    <2> DEFINE before == (all \cap DOMAIN old) \cup gone
    <2>1. ASSUME NEW a \in before, NEW c \in Children(old, a)
          PROVE  c \in before
      <3>1. CASE a \in gone
        BY <2>1, <3>1 DEF Closed
      <3>2. CASE a \in DOMAIN old \ gone
        <4>1. PICK p \in DOMAIN Slots(old[a]) : Owns(slot(old, a, p)) /\ slot(old, a, p).at = c
          BY <2>1, ChildInPlace
        <4>2. CASE Placed(a, p)
          BY <3>2, <4>1, <4>2
        <4>3. CASE ~Placed(a, p)
          <5>1. a \in all /\ a \in DOMAIN new
            BY <2>1, <3>2
          <5>2. p \in DOMAIN Slots(new[a]) /\ slot(new, a, p) = slot(old, a, p)
            BY <3>2, <4>1, <4>3
          <5>3. c \in Children(new, a)
            BY <4>1, <5>2, ChildInPlace
          <5>4. c \in all /\ c \in DOMAIN old
            BY <1>5, <3>2, <4>1, <5>1, <5>3 DEF Closed, IsTree
          <5>5. QED
            BY <5>4
        <4>4. QED
          BY <4>2, <4>3
      <3>3. QED
        BY <2>1, <3>1, <3>2
    <2>2. before = DOMAIN old
      BY <1>5, <2>1 DEF IsTree, Closed
    <2>3. at \in all
      BY <2>2
    <2>4. Owns(value) => value.at \in all
      <3>1. Owns(value) => value.at \in Children(new, at)
        BY ChildInPlace
      <3>2. QED
        BY <1>5, <2>3, <3>1 DEF Closed
    <2>5. QED
      BY <1>5, <2>2, <2>4
  <1>6. QED
    BY <1>1, <1>3, <1>4, <1>5 DEF IsTree

\* The same for a place that was not there.
LEMMA TreeAfterAddition ==
    ASSUME NEW old, IsTree(old), NEW new,
           NEW at \in DOMAIN old, NEW position, position \notin DOMAIN Slots(old[at]), NEW value,
           DOMAIN new = DOMAIN old \cup (IF Owns(value) THEN {value.at} ELSE {}),
           Owns(value) => value.at \notin DOMAIN old /\ DOMAIN Slots(new[value.at]) = {},
           \A a \in DOMAIN old : a # at => new[a] = old[a],
           DOMAIN Slots(new[at]) = DOMAIN Slots(old[at]) \cup {position},
           Slots(new[at])[position] = value,
           \A p \in DOMAIN Slots(old[at]) \ {position} :
              Slots(new[at])[p] = Slots(old[at])[p]
    PROVE  IsTree(new)
  <1> DEFINE gone == {}
  <1>1. gone \subseteq DOMAIN old \ {Root, at} /\ Closed(old, gone)
    BY DEF Closed
  <1>2. \A a \in DOMAIN old \ gone : \A p \in DOMAIN Slots(old[a]) :
           Owns(Slots(old[a])[p]) => (Slots(old[a])[p].at \in gone <=> a = at /\ p = position)
    OBVIOUS
  <1>3. DOMAIN new = (DOMAIN old \ gone) \cup (IF Owns(value) THEN {value.at} ELSE {})
    OBVIOUS
  <1>4. \A a \in DOMAIN old \ gone : a # at => new[a] = old[a]
    OBVIOUS
  <1> HIDE DEF gone
  <1>5. QED
    BY <1>1, <1>2, <1>3, <1>4, TreeAfterPlacing
-----------------------------------------------------------------------------
(* Containers and the operations on them.                                  *)

\* The places in a container are numbers, and what is there is a value.
LEMMA PlacesAreNumbers ==
    ASSUME NEW container, IsContainer(container)
    PROVE  /\ DOMAIN Slots(container) \subseteq Nat \ {0}
           /\ \A p \in DOMAIN Slots(container) : Slots(container)[p] \in Values
           /\ container.type = "object" => DOMAIN Slots(container) \subseteq 1 .. KeyCount
           /\ container.type # "object" =>
                 /\ Len(container.items) \in Nat
                 /\ DOMAIN Slots(container) = 1 .. Len(container.items)
  <1>1. CASE container.type = "object"
    BY <1>1 DEF IsContainer, Slots, Keys
  <1>2. CASE container.type # "object"
    <2>1. container.items \in Seq(Values)
      BY <1>2 DEF IsContainer
    <2>2. QED
      BY <1>2, <2>1, LenProperties, ElementOfSeq DEF Slots
  <1>3. QED
    BY <1>1, <1>2

\* A place of a container that gets a value, and the others, which keep theirs.
Placed(before, after, position, value) ==
    /\ IsContainer(after)
    /\ after.type = before.type
    /\ DOMAIN Slots(after) = DOMAIN Slots(before) \cup {position}
    /\ Slots(after)[position] = value
    /\ \A p \in DOMAIN Slots(before) \ {position} : Slots(after)[p] = Slots(before)[p]

LEMMA InsertPlaces ==
    ASSUME NEW object, IsContainer(object), object.type = "object",
           NEW key \in Keys, NEW value \in Values, insert(object, key, value).second
    PROVE  /\ key \notin DOMAIN Slots(object)
           /\ Placed(object, insert(object, key, value).object, key, value)
  BY DEF Placed, insert, IsContainer, Slots, Object

LEMMA PushBackPlaces ==
    ASSUME NEW array, IsContainer(array), array.type # "object", NEW value \in Values
    PROVE  LET place == Len(array.items) + 1
           IN  /\ place \notin DOMAIN Slots(array)
               /\ Placed(array, push_back(array, value), place, value)
  <1> DEFINE items == array.items
             after == push_back(array, value)
  <1>1. array = Array(items) /\ items \in Seq(Values) /\ Len(items) \in Nat
    BY LenProperties DEF IsContainer
  <1>2. /\ Append(items, value) \in Seq(Values)
        /\ Len(Append(items, value)) = Len(items) + 1
        /\ \A i \in 1 .. Len(items) : Append(items, value)[i] = items[i]
        /\ Append(items, value)[Len(items) + 1] = value
    BY <1>1, AppendProperties
  <1>3. after.type = "array" /\ array.type = "array" /\ after.items = Append(items, value)
    BY <1>1 DEF push_back, Array
  <1>4. Slots(after) = Append(items, value) /\ Slots(array) = items
    BY <1>3 DEF Slots
  <1>5. IsContainer(after)
    BY <1>2, <1>3 DEF IsContainer, push_back, Array
  <1>6. DOMAIN Slots(after) = 1 .. Len(items) + 1 /\ DOMAIN Slots(array) = 1 .. Len(items)
    BY <1>1, <1>2, <1>4, LenProperties
  <1>7. QED
    BY <1>1, <1>2, <1>3, <1>4, <1>5, <1>6 DEF Placed

LEMMA SetSlotPlaces ==
    ASSUME NEW container, IsContainer(container),
           NEW p \in DOMAIN Slots(container), NEW value \in Values
    PROVE  Placed(container, SetSlot(container, p, value), p, value)
  <1>1. CASE container.type = "object"
    BY <1>1 DEF Placed, SetSlot, insert_or_assign, IsContainer, Slots, Object
  <1>2. CASE container.type # "object"
    <2> DEFINE items == container.items
               changed == [items EXCEPT ![p] = value]
               after == SetSlot(container, p, value)
    <2>1. container = Array(items) /\ items \in Seq(Values) /\ Len(items) \in Nat
      BY <1>2, LenProperties DEF IsContainer
    <2>2. items \in [1 .. Len(items) -> Values] /\ p \in 1 .. Len(items)
      BY <1>2, <2>1, LenProperties DEF Slots
    <2>3. changed \in [1 .. Len(items) -> Values]
      BY <2>2
    <2>4. changed \in Seq(Values) /\ DOMAIN changed = 1 .. Len(items)
      BY <2>1, <2>3
    <2>5. after.type = "array" /\ container.type = "array" /\ after.items = changed
      BY <1>2, <2>1 DEF SetSlot, Array
    <2>6. Slots(after) = changed /\ Slots(container) = items
      BY <1>2, <2>5 DEF Slots
    <2>7. IsContainer(after)
      BY <1>2, <2>4, <2>5 DEF IsContainer, SetSlot, Array
    <2>8. QED
      BY <2>2, <2>3, <2>4, <2>5, <2>6, <2>7 DEF Placed
  <1>3. QED
    BY <1>1, <1>2
-----------------------------------------------------------------------------
(* Contexts.                                                               *)

Contexts == [at : Addresses, m_ptr : Nat, m_end : Nat, allocation : Nat,
             written : SUBSET Nat, due : SUBSET Nat]

\* The iterators of a context point into a container as it is now, and what is
\* due has been written or lies between them.
Fits(context, container) ==
    /\ context.m_ptr \in 1 .. context.m_end
    /\ context.m_ptr # context.m_end => context.m_ptr \in DOMAIN Slots(container)
    /\ IF container.type = "object" THEN context.m_end = Past
       ELSE context.m_end <= Len(container.items) + 1
    /\ context.due = context.written \cup
          {p \in DOMAIN Slots(container) : context.m_ptr <= p /\ p < context.m_end}
    /\ \A p \in context.written : p < context.m_ptr

\* A context whose container has neither moved nor gone fits it.
IsSound(context, memory, allocations) ==
    /\ context \in Contexts
    /\ context.allocation <= allocations[context.at]
    /\ context.allocation = allocations[context.at] =>
          context.at \in DOMAIN memory /\ Fits(context, memory[context.at])

\* ++m_ptr goes to the next place, or to the end.
LEMMA NextPlace ==
    ASSUME NEW container, IsContainer(container), NEW position \in Nat,
           container.type = "object" => position < Past,
           container.type # "object" => position <= Len(container.items)
    PROVE  LET next == Successor(container, position)
               last == IF container.type = "object" THEN Past ELSE Len(container.items) + 1
           IN  /\ next \in position + 1 .. last
               /\ next # last => next \in DOMAIN Slots(container)
               /\ \A p \in DOMAIN Slots(container) : p > position => p >= next
  <1> DEFINE next == Successor(container, position)
  <1>1. CASE container.type = "object"
    <2> DEFINE later == {k \in DOMAIN container.members : k > position}
               all == {Past} \cup later
    <2>1. Slots(container) = container.members /\ next = Min(all)
      BY <1>1 DEF Slots, Successor
    <2>2. Past \in Nat /\ \A k \in later : k \in 1 .. KeyCount
      BY <1>1, <2>1, PlacesAreNumbers, LiveAssumption DEF Past
    <2>3. all \subseteq Nat /\ all # {}
      BY <2>2
    <2>4. Min(all) \in all /\ \A n \in all : Min(all) <= n
      <3> HIDE DEF all
      <3>1. QED
        BY <2>3, LeastNatural
    <2>5. next \in all /\ \A n \in all : next <= n
      BY <2>1, <2>4
    <2>6. next \in position + 1 .. Past
      <3>1. next = Past \/ next \in later
        BY <2>5
      <3>2. next \in Nat /\ next <= Past /\ next > position
        BY <1>1, <2>2, <2>5, <3>1
      <3>3. QED
        BY <2>2, <3>2
    <2>7. \A p \in DOMAIN Slots(container) : p > position => p >= next
      <3>1. ASSUME NEW p \in DOMAIN Slots(container), p > position
            PROVE  p >= next
        <4>1. p \in all /\ p \in Nat /\ next \in Nat
          BY <2>1, <2>2, <2>6, <3>1
        <4>2. next <= p
          BY <2>5, <4>1
        <4>3. QED
          BY <4>1, <4>2
      <3>2. QED
        BY <3>1
    <2>8. QED
      BY <1>1, <2>1, <2>5, <2>6, <2>7
  <1>2. CASE container.type # "object"
    <2>1. /\ next = position + 1
          /\ Len(container.items) \in Nat
          /\ DOMAIN Slots(container) = 1 .. Len(container.items)
      BY <1>2, PlacesAreNumbers DEF Successor
    <2>2. QED
      BY <1>2, <2>1
  <1>3. QED
    BY <1>1, <1>2

\* A new context fits its container.
LEMMA NewContextIsSound ==
    ASSUME IsMemory(heap), allocation \in [Addresses -> Nat], NEW at \in DOMAIN heap
    PROVE  IsSound(make_serializer_context(at), heap, allocation)
  <1> DEFINE container == heap[at]
             context == make_serializer_context(at)
  <1>1. IsContainer(container) /\ at \in Addresses
    BY DEF IsMemory
  <1>2. /\ context.at = at
        /\ context.m_ptr = Successor(container, 0)
        /\ context.m_end = IF container.type = "object" THEN Past
                           ELSE Len(container.items) + 1
        /\ context.allocation = allocation[at]
        /\ context.written = {}
        /\ context.due = DOMAIN Slots(container)
    BY DEF make_serializer_context
  <1>3. Past \in Nat \ {0}
    BY LiveAssumption DEF Past
  <1>4. /\ container.type # "object" => Len(container.items) \in Nat
        /\ DOMAIN Slots(container) \subseteq Nat \ {0}
        /\ \A p \in DOMAIN Slots(container) : p < context.m_end
    BY <1>1, <1>2, PlacesAreNumbers, LiveAssumption DEF Past
  <1> HIDE DEF container
  <1>5. /\ context.m_ptr \in 1 .. context.m_end
        /\ context.m_ptr # context.m_end => context.m_ptr \in DOMAIN Slots(container)
        /\ \A p \in DOMAIN Slots(container) : p > 0 => p >= context.m_ptr
    BY <1>1, <1>2, <1>3, <1>4, NextPlace
  <1>6. context.m_ptr \in Nat /\ context.m_end \in Nat
    BY <1>2, <1>3, <1>4, <1>5
  <1>7. context \in Contexts
    <2>1. allocation[at] \in Nat /\ DOMAIN Slots(container) \in SUBSET Nat
      BY <1>1, <1>4
    <2>2. QED
      BY <1>1, <1>2, <1>6, <2>1 DEF make_serializer_context, Contexts, container
  <1>8. Fits(context, container)
    <2>1. {p \in DOMAIN Slots(container) : context.m_ptr <= p /\ p < context.m_end}
             = DOMAIN Slots(container)
      <3>1. ASSUME NEW p \in DOMAIN Slots(container)
            PROVE  context.m_ptr <= p /\ p < context.m_end
        <4>1. p \in Nat \ {0} /\ p < context.m_end
          BY <1>4
        <4>2. context.m_ptr \in Nat /\ p >= context.m_ptr
          BY <1>5, <1>6, <4>1
        <4>3. QED
          BY <4>1, <4>2
      <3>2. QED
        BY <3>1
    <2>2. QED
      BY <1>2, <1>4, <1>5, <1>6, <2>1 DEF Fits
  <1>9. QED
    BY <1>1, <1>2, <1>7, <1>8 DEF IsSound, container

\* What pop_element leaves of a context.
Popped(context, container) ==
    [context EXCEPT !.m_ptr = Successor(container, @), !.written = @ \cup {context.m_ptr}]

LEMMA PoppedFits ==
    ASSUME NEW context \in Contexts, NEW container, IsContainer(container),
           Fits(context, container), context.m_ptr # context.m_end
    PROVE  /\ Popped(context, container) \in Contexts
           /\ Popped(context, container).at = context.at
           /\ Popped(context, container).allocation = context.allocation
           /\ Fits(Popped(context, container), container)
  <1> DEFINE popped == Popped(context, container)
             next == Successor(container, context.m_ptr)
             slots == DOMAIN Slots(container)
  <1>1. /\ context.m_ptr \in Nat /\ context.m_end \in Nat
        /\ context.m_ptr < context.m_end
        /\ context.m_ptr \in slots
        /\ slots \subseteq Nat
        /\ context.written \subseteq Nat
    BY PlacesAreNumbers DEF Fits, Contexts
  <1>2. /\ next \in context.m_ptr + 1 .. context.m_end
        /\ next # context.m_end => next \in slots
        /\ \A p \in slots : p > context.m_ptr => p >= next
    <2>1. CASE container.type = "object"
      BY <1>1, <2>1, NextPlace DEF Fits
    <2>2. CASE container.type # "object"
      <3>1. /\ Len(container.items) \in Nat
            /\ slots = 1 .. Len(container.items)
            /\ context.m_end <= Len(container.items) + 1
            /\ next = context.m_ptr + 1
        BY <2>2, PlacesAreNumbers DEF Fits, Successor
      <3>2. QED
        BY <1>1, <3>1
    <2>3. QED
      BY <2>1, <2>2
  <1>3. next \in Nat
    BY <1>1, <1>2
  <1>4. /\ popped \in Contexts
        /\ popped.at = context.at /\ popped.allocation = context.allocation
        /\ popped.m_ptr = next /\ popped.m_end = context.m_end
        /\ popped.written = context.written \cup {context.m_ptr}
        /\ popped.due = context.due
    BY <1>1, <1>3 DEF Popped, Contexts
  <1>5. \A p \in popped.written : p < next
    BY <1>1, <1>2, <1>4 DEF Fits
  <1>6. {p \in slots : context.m_ptr <= p /\ p < context.m_end} =
           {context.m_ptr} \cup {p \in slots : next <= p /\ p < context.m_end}
    BY <1>1, <1>2
  <1>7. popped.due = popped.written \cup {p \in slots : next <= p /\ p < popped.m_end}
    BY <1>4, <1>6 DEF Fits
  <1>8. next \in 1 .. popped.m_end
    BY <1>1, <1>2, <1>4
  <1>9. Fits(popped, container)
    BY <1>2, <1>4, <1>5, <1>7, <1>8 DEF Fits
  <1>10. QED
    BY <1>4, <1>9

\* A context still fits after an assignment to a place that was there, ...
LEMMA FitsAfterAssignment ==
    ASSUME NEW context \in Contexts, NEW before, IsContainer(before), NEW after,
           NEW p \in DOMAIN Slots(before), NEW value, Placed(before, after, p, value),
           Fits(context, before)
    PROVE  Fits(context, after)
  <1>1. DOMAIN Slots(after) = DOMAIN Slots(before) /\ after.type = before.type
    BY DEF Placed
  <1>2. CASE before.type = "object"
    BY <1>1, <1>2 DEF Fits
  <1>3. CASE before.type # "object"
    <2>1. /\ Len(before.items) \in Nat /\ DOMAIN Slots(before) = 1 .. Len(before.items)
          /\ Len(after.items) \in Nat /\ DOMAIN Slots(after) = 1 .. Len(after.items)
      BY <1>1, <1>3, PlacesAreNumbers DEF Placed
    <2>2. Len(after.items) = Len(before.items)
      BY <1>1, <2>1
    <2>3. QED
      BY <1>1, <1>3, <2>2 DEF Fits
  <1>4. QED
    BY <1>2, <1>3

\* ... after an array that has not moved has got an element behind its end, ...
LEMMA FitsAfterPushBack ==
    ASSUME NEW context \in Contexts, NEW before, IsContainer(before), NEW after,
           before.type # "object", NEW value,
           Placed(before, after, Len(before.items) + 1, value),
           Fits(context, before)
    PROVE  Fits(context, after)
  <1> DEFINE place == Len(before.items) + 1
  <1>1. /\ Len(before.items) \in Nat /\ DOMAIN Slots(before) = 1 .. Len(before.items)
        /\ Len(after.items) \in Nat /\ DOMAIN Slots(after) = 1 .. Len(after.items)
        /\ DOMAIN Slots(after) = DOMAIN Slots(before) \cup {place}
        /\ after.type # "object"
    BY PlacesAreNumbers DEF Placed
  <1>2. place \in 1 .. Len(after.items)
    BY <1>1
  <1>3. context.m_end <= place /\ context.m_end \in Nat
    BY DEF Fits, Contexts
  <1>4. context.m_end <= Len(after.items) + 1
    BY <1>1, <1>2, <1>3
  <1>5. ASSUME NEW p
        PROVE  p \in DOMAIN Slots(after) /\ context.m_ptr <= p /\ p < context.m_end <=>
               p \in DOMAIN Slots(before) /\ context.m_ptr <= p /\ p < context.m_end
    <2>1. place \in Nat /\ ~(place < context.m_end)
      BY <1>1, <1>3
    <2>2. QED
      BY <1>1, <2>1
  <1>6. QED
    BY <1>1, <1>4, <1>5 DEF Fits

\* ... and, with what is due extended, after an object has got a new member.
LEMMA FitsAfterInsert ==
    ASSUME NEW context \in Contexts, NEW before, IsContainer(before), NEW after,
           before.type = "object", NEW key \in Keys, key \notin DOMAIN Slots(before),
           NEW value, Placed(before, after, key, value), Fits(context, before)
    PROVE  /\ key > context.m_ptr =>
                 Fits([context EXCEPT !.due = @ \cup {key}], after)
           /\ ~(key > context.m_ptr) => Fits(context, after)
  <1>1. /\ DOMAIN Slots(after) = DOMAIN Slots(before) \cup {key}
        /\ after.type = "object"
        /\ context.m_end = Past
    BY DEF Placed, Fits
  <1>2. key \in Nat /\ Past \in Nat /\ key < Past /\ context.m_ptr \in Nat
    BY LiveAssumption DEF Keys, Past, Contexts
  <1> DEFINE Ahead(slots) == {p \in slots : context.m_ptr <= p /\ p < context.m_end}
  <1>3. CASE key > context.m_ptr
    <2> DEFINE noticed == [context EXCEPT !.due = @ \cup {key}]
    <2>1. /\ noticed.due = context.due \cup {key}
          /\ noticed.m_ptr = context.m_ptr /\ noticed.m_end = context.m_end
          /\ noticed.written = context.written
      BY DEF Contexts
    <2>2. Ahead(DOMAIN Slots(after)) = Ahead(DOMAIN Slots(before)) \cup {key}
      BY <1>1, <1>2, <1>3
    <2>3. noticed.due = noticed.written \cup Ahead(DOMAIN Slots(after))
      BY <2>1, <2>2 DEF Fits
    <2> HIDE DEF noticed
    <2>4. Fits(noticed, after)
      BY <1>1, <2>1, <2>3 DEF Fits
    <2>5. QED
      BY <1>3, <2>4 DEF noticed
  <1>4. CASE ~(key > context.m_ptr)
    <2>1. key # context.m_ptr
      BY <1>1, <1>2 DEF Fits
    <2>2. Ahead(DOMAIN Slots(after)) = Ahead(DOMAIN Slots(before))
      BY <1>1, <1>2, <1>4, <2>1
    <2>3. QED
      BY <1>1, <1>4, <2>2 DEF Fits
  <1>5. QED
    BY <1>3, <1>4
-----------------------------------------------------------------------------
(* The invariant.                                                          *)

\* Every variable has its type.
LiveTypeOK ==
    /\ IsMemory(heap)
    /\ allocation \in [Addresses -> Nat]
    /\ IsSequence(m_contexts)
    /\ ec \in {"running", "completed", "buffer_is_full", "undefined"}
    /\ tampered \in BOOLEAN

ContextsAreSound ==
    \A i \in DOMAIN m_contexts : IsSound(m_contexts[i], heap, allocation)

\* That the stack is a path needs the tree, or what is destroyed with a value
\* off the path might take a part of the path with it.  What is due is found
\* between iterators only in containers that are still what they were.
LiveInv ==
    /\ LiveTypeOK
    /\ OwnedOnce
    /\ ContextsAreSound
    /\ StackIsAPath
    /\ UndefinedOnlyIfTampered

\* A context does not dangle iff its allocation is the one at its address.
LEMMA InvDue == LiveInv => WritesWhatIsDue
  BY DEF LiveInv, ContextsAreSound, IsSound, Fits, Dangles, WritesWhatIsDue
-----------------------------------------------------------------------------
(* What the caller does.                                                   *)

\* What is put somewhere is a leaf, or it owns a container that is new.
LEMMA Arrival ==
    ASSUME IsMemory(heap), NEW new \in Arrivals
    PROVE  /\ IsMemory(new.heap)
           /\ new.value \in Values
           /\ DOMAIN new.heap = DOMAIN heap \cup (IF Owns(new.value) THEN {new.value.at} ELSE {})
           /\ Owns(new.value) => /\ new.value.at \notin DOMAIN heap
                                 /\ DOMAIN Slots(new.heap[new.value.at]) = {}
           /\ \A a \in DOMAIN heap : new.heap[a] = heap[a]
  <1>1. CASE new = [value |-> Null, heap |-> heap]
    BY <1>1 DEF Owns, Null, Values, ContainerTypes
  <1>2. CASE \E at \in Addresses \ DOMAIN heap, container \in {Object(<<>>), Array(<<>>)} :
                new = [value |-> [type |-> container.type, at |-> at],
                       heap |-> With(at, container)]
    <2>1. PICK at \in Addresses \ DOMAIN heap, container \in {Object(<<>>), Array(<<>>)} :
                new = [value |-> [type |-> container.type, at |-> at],
                       heap |-> With(at, container)]
      BY <1>2
    <2>2. /\ container.type \in ContainerTypes
          /\ IsContainer(container)
          /\ DOMAIN Slots(container) = {}
      <3>1. CASE container = Object(<<>>)
        <4>1. container.type = "object" /\ container.members = <<>>
          BY <3>1 DEF Object
        <4>2. <<>> \in [{} -> Values] /\ DOMAIN <<>> = {}
          OBVIOUS
        <4>3. QED
          BY <3>1, <4>1, <4>2 DEF IsContainer, Slots, ContainerTypes
      <3>2. CASE container = Array(<<>>)
        <4>1. container.type = "array" /\ container.items = <<>>
          BY <3>2 DEF Array
        <4>2. <<>> \in Seq(Values) /\ DOMAIN <<>> = {}
          BY EmptySeq
        <4>3. QED
          BY <3>2, <4>1, <4>2 DEF IsContainer, Slots, ContainerTypes
      <3>3. QED
        BY <3>1, <3>2
    <2>3. /\ new.value \in Values /\ Owns(new.value) /\ new.value.at = at
          /\ new.heap = With(at, container)
      BY <2>1, <2>2 DEF Values, Owns
    <2>4. /\ DOMAIN new.heap = DOMAIN heap \cup {at}
          /\ new.heap[at] = container
          /\ \A a \in DOMAIN heap : new.heap[a] = heap[a]
      BY <2>3 DEF With
    <2>5. new.heap = [a \in DOMAIN new.heap |-> new.heap[a]]
      BY <2>3 DEF With
    <2>6. IsMemory(new.heap)
      BY <2>2, <2>4, <2>5 DEF IsMemory
    <2>7. QED
      BY <2>2, <2>3, <2>4, <2>6
  <1>3. QED
    BY <1>1, <1>2 DEF Arrivals

\* What goes with a value is never the root, nor what the value is a part of,
\* and nothing else that stays owns a part of it.
LEMMA ReplacedHasGone ==
    ASSUME IsTree(heap), NEW at \in DOMAIN heap, NEW position \in DOMAIN Slots(heap[at])
    PROVE  LET gone == Owned(Slots(heap[at])[position])
           IN  /\ gone \subseteq DOMAIN heap \ {Root, at}
               /\ Closed(heap, gone)
               /\ \A a \in DOMAIN heap \ gone : \A p \in DOMAIN Slots(heap[a]) :
                     Owns(Slots(heap[a])[p]) =>
                        (Slots(heap[a])[p].at \in gone <=> a = at /\ p = position)
  <1> DEFINE old == Slots(heap[at])[position]
             gone == Owned(old)
  <1>1. CASE ~Owns(old)
    BY <1>1 DEF Owned, Closed
  <1>2. CASE Owns(old)
    <2>1. old.at \in Children(heap, at)
      BY <1>2, ChildInPlace
    <2>2. old.at \in DOMAIN heap /\ old.at # Root
      BY <2>1, OneOwner
    <2> HIDE DEF old
    <2>3. /\ old.at \in gone /\ gone \subseteq DOMAIN heap /\ Closed(heap, gone)
          /\ \A c \in gone : c # old.at => \E a \in gone : c \in Children(heap, a)
      BY <1>2, <2>2, Destroyed
    <2>4. ASSUME NEW a \in DOMAIN heap \ gone, NEW c \in Children(heap, a), c \in gone
          PROVE  c = old.at /\ a = at
      BY <2>1, <2>3, <2>4, OneOwner
    <2>5. Root \notin gone
      BY <2>2, <2>3, OneOwner
    <2>6. at \notin gone
      <3>1. SUFFICES ASSUME at \in gone PROVE FALSE
        OBVIOUS
      <3>2. Closed(heap, DOMAIN heap \ gone)
        BY <2>4, <3>1, OneOwner DEF Closed
      <3>3. DOMAIN heap \ gone = DOMAIN heap
        BY <2>5, <3>2 DEF IsTree
      <3>4. QED
        BY <2>3, <3>3
    <2>7. ASSUME NEW a \in DOMAIN heap \ gone, NEW p \in DOMAIN Slots(heap[a]),
                 Owns(Slots(heap[a])[p])
          PROVE  Slots(heap[a])[p].at \in gone <=> a = at /\ p = position
      <3>1. Slots(heap[a])[p].at \in Children(heap, a)
        BY <2>7, ChildInPlace
      <3>2. CASE Slots(heap[a])[p].at \in gone
        <4>1. Slots(heap[a])[p].at = old.at /\ a = at
          BY <2>4, <3>1, <3>2
        <4>2. QED
          BY <1>2, <2>7, <3>2, <4>1 DEF IsTree, old
      <3>3. CASE a = at /\ p = position
        BY <2>3, <3>3 DEF old
      <3>4. QED
        BY <3>2, <3>3
    <2>8. QED
      BY <2>3, <2>5, <2>6, <2>7 DEF old
  <1>3. QED
    BY <1>1, <1>2

\* Nor does it take a part of the path that is being written, unless the value
\* is itself a part of it.
LEMMA PathIsSpared ==
    ASSUME LiveInv, ~tampered, NEW value,
           Owns(value) => value.at \in DOMAIN heap /\ ~BeingWritten(value.at)
    PROVE  \A i \in DOMAIN m_contexts : m_contexts[i].at \notin Owned(value)
  <1>1. CASE ~Owns(value)
    BY <1>1 DEF Owned
  <1>2. CASE Owns(value)
    <2> DEFINE others == {a \in DOMAIN heap : ~BeingWritten(a)}
    <2>1. value.at \in others
      BY <1>2
    <2>2. ASSUME NEW a \in others, NEW c \in Children(heap, a)
          PROVE  c \in others
      <3>1. IsTree(heap)
        BY DEF LiveInv, OwnedOnce
      <3>2. c \in DOMAIN heap /\ c # Root
        BY <3>1, OneOwner
      <3>3. ASSUME NEW i \in DOMAIN m_contexts, m_contexts[i].at = c
            PROVE  FALSE
        <4>1. i # 1 /\ c \in Children(heap, m_contexts[i - 1].at)
          BY <3>2, <3>3 DEF LiveInv, StackIsAPath
        <4>2. DOMAIN m_contexts = 1 .. Len(m_contexts) /\ Len(m_contexts) \in Nat
          BY SequenceIsFunction DEF LiveInv, LiveTypeOK
        <4>3. i - 1 \in DOMAIN m_contexts
          BY <4>1, <4>2
        <4>4. m_contexts[i - 1].at \in DOMAIN heap
          BY <4>3 DEF LiveInv, StackIsAPath, Dangles, ContextsAreSound, IsSound
        <4>5. a = m_contexts[i - 1].at
          BY <3>1, <4>1, <4>4, OneOwner
        <4>6. QED
          BY <4>3, <4>5 DEF BeingWritten
      <3>4. QED
        BY <3>2, <3>3 DEF BeingWritten
    <2>3. Closed(heap, others)
      BY <2>2 DEF Closed
    <2>4. Owned(value) \subseteq others
      BY <1>2, <2>1, <2>3, Destroyed DEF LiveInv, OwnedOnce
    <2>5. QED
      BY <2>4 DEF BeingWritten
  <1>3. QED
    BY <1>1, <1>2

LEMMA InsertStep ==
    ASSUME LiveInv, NEW at \in DOMAIN heap, NEW key \in Keys, Insert(at, key)
    PROVE  LiveInv'
  <1>1. /\ IsMemory(heap) /\ IsTree(heap) /\ allocation \in [Addresses -> Nat]
        /\ heap[at].type = "object" /\ IsContainer(heap[at])
    BY DEF LiveInv, LiveTypeOK, OwnedOnce, Insert, IsMemory
  <1>2. PICK new \in Arrivals :
          /\ insert(heap[at], key, new.value).second
          /\ heap' = [new.heap EXCEPT ![at] = insert(@, key, new.value).object]
    BY DEF Insert
  <1>3. /\ IsMemory(new.heap)
        /\ new.value \in Values
        /\ DOMAIN new.heap = DOMAIN heap \cup (IF Owns(new.value) THEN {new.value.at} ELSE {})
        /\ Owns(new.value) => /\ new.value.at \notin DOMAIN heap
                              /\ DOMAIN Slots(new.heap[new.value.at]) = {}
        /\ \A a \in DOMAIN heap : new.heap[a] = heap[a]
    BY <1>1, Arrival
  <1>4. /\ DOMAIN heap' = DOMAIN new.heap
        /\ heap'[at] = insert(heap[at], key, new.value).object
        /\ \A a \in DOMAIN new.heap : a # at => heap'[a] = new.heap[a]
        /\ heap' = [a \in DOMAIN heap' |-> heap'[a]]
    BY <1>2, <1>3 DEF IsMemory
  <1>5. /\ key \notin DOMAIN Slots(heap[at])
        /\ Placed(heap[at], heap'[at], key, new.value)
    BY <1>1, <1>2, <1>3, <1>4, InsertPlaces
  <1>6. IsMemory(heap')
    BY <1>3, <1>4, <1>5 DEF IsMemory, Placed
  <1>7. IsTree(heap')
    BY <1>1, <1>3, <1>4, <1>5, TreeAfterAddition DEF Placed
  <1>8. /\ m_contexts' = Noticed(at, key)
        /\ allocation' = allocation /\ tampered' = tampered /\ ec' = ec
    BY DEF Insert, Change
  <1>9. DOMAIN m_contexts = 1 .. Len(m_contexts) /\ Len(m_contexts) \in Nat
    BY SequenceIsFunction DEF LiveInv, LiveTypeOK
  <1>10. IsSequence(m_contexts') /\ DOMAIN m_contexts' = DOMAIN m_contexts
    <2>1. m_contexts' = [i \in 1 .. Len(m_contexts) |-> m_contexts'[i]]
      BY <1>8, <1>9 DEF Noticed
    <2>2. IsSequence(m_contexts')
      BY <1>9, <2>1, FunctionIsSequence
    <2>3. QED
      BY <1>9, <2>1, <2>2
  <1>11. ASSUME NEW i \in DOMAIN m_contexts
         PROVE  /\ m_contexts'[i].at = m_contexts[i].at
                /\ m_contexts'[i].allocation = m_contexts[i].allocation
                /\ IsSound(m_contexts'[i], heap', allocation')
    <2> DEFINE context == m_contexts[i]
               noticed == m_contexts'[i]
               extended == [context EXCEPT !.due = @ \cup {key}]
               after == heap'[at]
    <2>1. IsSound(context, heap, allocation)
      BY DEF LiveInv, ContextsAreSound
    <2>2. context \in Contexts /\ key \in Nat
      BY <2>1, LiveAssumption DEF IsSound, Keys
    <2>3. /\ extended \in Contexts
          /\ extended.at = context.at /\ extended.allocation = context.allocation
      BY <2>2 DEF Contexts
    <2>4. noticed = IF context.at = at /\ ~Dangles(context) /\ key > context.m_ptr
                    THEN extended ELSE context
      BY <1>8 DEF Noticed
    <2>5. /\ Fits(context, heap[at]) /\ key > context.m_ptr => Fits(extended, after)
          /\ Fits(context, heap[at]) /\ ~(key > context.m_ptr) => Fits(context, after)
      BY <1>1, <1>5, <2>2, FitsAfterInsert
    <2> HIDE DEF extended, noticed, context, after
    <2>6. /\ noticed.at = context.at
          /\ noticed.allocation = context.allocation
          /\ IsSound(noticed, heap', allocation)
      <3>1. CASE context.at = at /\ ~Dangles(context)
        BY <1>3, <1>4, <2>1, <2>3, <2>4, <2>5, <3>1 DEF IsSound, Dangles, after
      <3>2. CASE ~(context.at = at /\ ~Dangles(context))
        BY <1>3, <1>4, <2>1, <2>4, <3>2 DEF IsSound, Dangles
      <3>3. QED
        BY <3>1, <3>2
    <2>7. QED
      BY <1>8, <2>6 DEF context, noticed
  <1>12. StackIsAPath'
    <2>1. ASSUME NEW a \in DOMAIN heap, NEW c \in Children(heap, a)
          PROVE  c \in Children(heap', a)
      BY <1>3, <1>4, <1>5, ChildInPlace DEF Placed
    <2>2. ASSUME NEW i \in DOMAIN m_contexts, ~tampered
          PROVE  /\ ~Dangles(m_contexts[i])
                 /\ m_contexts[i].at \in DOMAIN heap
                 /\ m_contexts[i].at \in
                       IF i = 1 THEN {Root} ELSE Children(heap, m_contexts[i - 1].at)
      BY <2>2 DEF LiveInv, StackIsAPath, Dangles, ContextsAreSound, IsSound
    <2>3. \A i \in DOMAIN m_contexts : i # 1 => i - 1 \in DOMAIN m_contexts
      BY <1>9
    <2>4. QED
      BY <1>8, <1>10, <1>11, <2>1, <2>2, <2>3 DEF StackIsAPath, Dangles
  <1>13. QED
    BY <1>6, <1>7, <1>8, <1>10, <1>11, <1>12
    DEF LiveInv, LiveTypeOK, OwnedOnce, ContextsAreSound, UndefinedOnlyIfTampered

LEMMA PushBackStep ==
    ASSUME LiveInv, NEW at \in DOMAIN heap, PushBack(at)
    PROVE  LiveInv'
  <1> DEFINE place == Len(heap[at].items) + 1
  <1>1. /\ IsMemory(heap) /\ IsTree(heap) /\ allocation \in [Addresses -> Nat]
        /\ heap[at].type # "object" /\ IsContainer(heap[at]) /\ at \in Addresses
    BY DEF LiveInv, LiveTypeOK, OwnedOnce, PushBack, IsMemory
  <1>2. PICK new \in Arrivals : heap' = [new.heap EXCEPT ![at] = push_back(@, new.value)]
    BY DEF PushBack
  <1>3. /\ IsMemory(new.heap)
        /\ new.value \in Values
        /\ DOMAIN new.heap = DOMAIN heap \cup (IF Owns(new.value) THEN {new.value.at} ELSE {})
        /\ Owns(new.value) => /\ new.value.at \notin DOMAIN heap
                              /\ DOMAIN Slots(new.heap[new.value.at]) = {}
        /\ \A a \in DOMAIN heap : new.heap[a] = heap[a]
    BY <1>1, Arrival
  <1>4. /\ DOMAIN heap' = DOMAIN new.heap
        /\ heap'[at] = push_back(heap[at], new.value)
        /\ \A a \in DOMAIN new.heap : a # at => heap'[a] = new.heap[a]
        /\ heap' = [a \in DOMAIN heap' |-> heap'[a]]
    BY <1>2, <1>3 DEF IsMemory
  <1>5. /\ place \notin DOMAIN Slots(heap[at])
        /\ Placed(heap[at], heap'[at], place, new.value)
    BY <1>1, <1>3, <1>4, PushBackPlaces
  <1>6. IsMemory(heap')
    BY <1>3, <1>4, <1>5 DEF IsMemory, Placed
  <1> HIDE DEF place
  <1>7. IsTree(heap')
    BY <1>1, <1>3, <1>4, <1>5, TreeAfterAddition DEF Placed
  <1>8. PICK moved \in {0, 1} : allocation' = [allocation EXCEPT ![at] = @ + moved]
    BY DEF PushBack
  <1>9. /\ m_contexts' = m_contexts /\ ec' = ec
        /\ tampered' = (tampered \/ BeingWritten(at))
        /\ tampered' \in BOOLEAN
    BY DEF PushBack, Change
  <1>10. /\ allocation' \in [Addresses -> Nat]
         /\ allocation'[at] = allocation[at] + moved
         /\ \A a \in Addresses : a # at => allocation'[a] = allocation[a]
    BY <1>1, <1>8
  <1>11. ASSUME NEW i \in DOMAIN m_contexts
         PROVE  IsSound(m_contexts[i], heap', allocation')
    <2> DEFINE context == m_contexts[i]
               after == heap'[at]
    <2>1. IsSound(context, heap, allocation)
      BY DEF LiveInv, ContextsAreSound
    <2>2. context \in Contexts
      BY <2>1 DEF IsSound
    <2>3. Fits(context, heap[at]) => Fits(context, after)
      BY <1>1, <1>5, <2>2, FitsAfterPushBack DEF place
    <2>4. context.at \in Addresses /\ context.allocation \in Nat
      BY <2>2 DEF Contexts
    <2> HIDE DEF context, after
    <2>5. IsSound(context, heap', allocation')
      <3>1. CASE context.at # at
        BY <1>3, <1>4, <1>10, <2>1, <2>4, <3>1 DEF IsSound
      <3>2. CASE context.at = at /\ moved = 0
        BY <1>1, <1>3, <1>4, <1>10, <2>1, <2>3, <2>4, <3>2 DEF IsSound, after
      <3>3. CASE context.at = at /\ moved = 1
        BY <1>1, <1>10, <2>1, <2>4, <3>3 DEF IsSound
      <3>4. QED
        BY <3>1, <3>2, <3>3
    <2>6. QED
      BY <2>5 DEF context
  <1>12. StackIsAPath'
    <2>1. ASSUME NEW a \in DOMAIN heap, NEW c \in Children(heap, a)
          PROVE  c \in Children(heap', a)
      <3>1. PICK p \in DOMAIN Slots(heap[a]) : Owns(Slots(heap[a])[p]) /\ Slots(heap[a])[p].at = c
        BY <2>1, ChildInPlace
      <3>2. p \in DOMAIN Slots(heap'[a]) /\ Slots(heap'[a])[p] = Slots(heap[a])[p]
        BY <1>3, <1>4, <1>5, <3>1 DEF Placed
      <3>3. QED
        BY <3>1, <3>2, ChildInPlace
    <2>2. ASSUME NEW i \in DOMAIN m_contexts, ~tampered'
          PROVE  /\ m_contexts[i].at \in DOMAIN heap
                 /\ m_contexts[i].allocation = allocation'[m_contexts[i].at]
                 /\ m_contexts[i].at \in
                       IF i = 1 THEN {Root} ELSE Children(heap, m_contexts[i - 1].at)
      <3>1. /\ m_contexts[i].at # at
            /\ m_contexts[i].at \in Addresses
            /\ m_contexts[i].allocation = allocation[m_contexts[i].at]
            /\ m_contexts[i].at \in DOMAIN heap
        BY <1>9, <2>2
        DEF LiveInv, StackIsAPath, Dangles, ContextsAreSound, IsSound, Contexts, BeingWritten
      <3>2. QED
        BY <1>9, <1>10, <2>2, <3>1 DEF LiveInv, StackIsAPath
    <2>3. \A i \in DOMAIN m_contexts : i # 1 => i - 1 \in DOMAIN m_contexts
      BY SequenceIsFunction DEF LiveInv, LiveTypeOK
    <2>4. QED
      BY <1>9, <2>1, <2>2, <2>3 DEF StackIsAPath, Dangles
  <1>13. QED
    BY <1>6, <1>7, <1>9, <1>10, <1>11, <1>12
    DEF LiveInv, LiveTypeOK, OwnedOnce, ContextsAreSound, UndefinedOnlyIfTampered

LEMMA ReplaceStep ==
    ASSUME LiveInv, NEW at \in DOMAIN heap, NEW position \in DOMAIN Slots(heap[at]),
           Replace(at, position)
    PROVE  LiveInv'
  <1> DEFINE old == Slots(heap[at])[position]
             gone == Owned(old)
  <1>1. /\ IsMemory(heap) /\ IsTree(heap) /\ allocation \in [Addresses -> Nat]
        /\ IsContainer(heap[at])
    BY DEF LiveInv, LiveTypeOK, OwnedOnce, IsMemory
  <1>2. PICK new \in Arrivals :
          LET all == [new.heap EXCEPT ![at] = SetSlot(@, position, new.value)]
          IN  heap' = [a \in DOMAIN all \ gone |-> all[a]]
    BY DEF Replace
  <1>3. /\ IsMemory(new.heap)
        /\ new.value \in Values
        /\ DOMAIN new.heap = DOMAIN heap \cup (IF Owns(new.value) THEN {new.value.at} ELSE {})
        /\ Owns(new.value) => /\ new.value.at \notin DOMAIN heap
                              /\ DOMAIN Slots(new.heap[new.value.at]) = {}
        /\ \A a \in DOMAIN heap : new.heap[a] = heap[a]
    BY <1>1, Arrival
  <1>4. /\ gone \subseteq DOMAIN heap \ {Root, at}
        /\ Closed(heap, gone)
        /\ \A a \in DOMAIN heap \ gone : \A p \in DOMAIN Slots(heap[a]) :
              Owns(Slots(heap[a])[p]) =>
                 (Slots(heap[a])[p].at \in gone <=> a = at /\ p = position)
    BY <1>1, ReplacedHasGone
  <1>5. /\ allocation' = [a \in Addresses |-> allocation[a] + (IF a \in gone THEN 1 ELSE 0)]
        /\ tampered' = (tampered \/ (Owns(old) /\ BeingWritten(old.at)))
        /\ tampered' \in BOOLEAN
        /\ m_contexts' = m_contexts /\ ec' = ec
    BY DEF Replace, Change, LiveInv, LiveTypeOK
  <1> HIDE DEF gone
  <1>6. /\ DOMAIN heap' = DOMAIN new.heap \ gone
        /\ heap'[at] = SetSlot(heap[at], position, new.value)
        /\ \A a \in DOMAIN new.heap \ gone : a # at => heap'[a] = new.heap[a]
        /\ heap' = [a \in DOMAIN heap' |-> heap'[a]]
    BY <1>2, <1>3, <1>4 DEF IsMemory
  <1>7. Placed(heap[at], heap'[at], position, new.value)
    BY <1>1, <1>3, <1>6, SetSlotPlaces
  <1>8. IsMemory(heap')
    BY <1>3, <1>6, <1>7 DEF IsMemory, Placed
  <1>9. IsTree(heap')
    <2>1. DOMAIN heap' = (DOMAIN heap \ gone) \cup (IF Owns(new.value) THEN {new.value.at} ELSE {})
      BY <1>3, <1>4, <1>6
    <2>2. Owns(new.value) => /\ new.value.at \notin DOMAIN heap
                             /\ DOMAIN Slots(heap'[new.value.at]) = {}
      BY <1>3, <1>4, <1>6
    <2>3. \A a \in DOMAIN heap \ gone : a # at => heap'[a] = heap[a]
      BY <1>3, <1>6
    <2>4. QED
      BY <1>1, <1>4, <1>7, <2>1, <2>2, <2>3, TreeAfterPlacing DEF Placed
  <1>10. /\ allocation' \in [Addresses -> Nat]
         /\ \A a \in Addresses : allocation'[a] = allocation[a] + (IF a \in gone THEN 1 ELSE 0)
    BY <1>1, <1>5
  <1>11. ASSUME NEW i \in DOMAIN m_contexts
         PROVE  IsSound(m_contexts[i], heap', allocation')
    <2> DEFINE context == m_contexts[i]
               after == heap'[at]
    <2>1. IsSound(context, heap, allocation)
      BY DEF LiveInv, ContextsAreSound
    <2>2. context \in Contexts
      BY <2>1 DEF IsSound
    <2>3. Fits(context, heap[at]) => Fits(context, after)
      BY <1>1, <1>7, <2>2, FitsAfterAssignment
    <2>4. context.at \in Addresses /\ context.allocation \in Nat
      BY <2>2 DEF Contexts
    <2> HIDE DEF context, after
    <2>5. IsSound(context, heap', allocation')
      <3>1. CASE context.at \in gone
        BY <1>1, <1>10, <2>1, <2>4, <3>1 DEF IsSound
      <3>2. CASE context.at \notin gone
        <4>1. allocation'[context.at] = allocation[context.at]
          BY <1>1, <1>10, <2>4, <3>2
        <4>2. context.at \in DOMAIN heap /\ Fits(context, heap[context.at]) =>
                 context.at \in DOMAIN heap' /\ Fits(context, heap'[context.at])
          BY <1>3, <1>6, <2>3, <3>2 DEF after
        <4>3. QED
          BY <2>1, <4>1, <4>2 DEF IsSound
      <3>3. QED
        BY <3>1, <3>2
    <2>6. QED
      BY <2>5 DEF context
  <1>12. StackIsAPath'
    <2>1. SUFFICES ASSUME ~tampered' PROVE StackIsAPath'
      BY DEF StackIsAPath
    <2>2. ~tampered /\ ~(Owns(old) /\ BeingWritten(old.at))
      BY <1>5, <2>1
    <2>3. \A i \in DOMAIN m_contexts : m_contexts[i].at \notin gone
      <3>1. Owns(old) => old.at \in DOMAIN heap
        BY <1>1, ChildInPlace, OneOwner
      <3> HIDE DEF old
      <3>2. QED
        BY <2>2, <3>1, PathIsSpared DEF gone
    <2>4. ASSUME NEW i \in DOMAIN m_contexts
          PROVE  /\ m_contexts[i].at \in DOMAIN heap
                 /\ m_contexts[i].allocation = allocation'[m_contexts[i].at]
                 /\ m_contexts[i].at \in
                       IF i = 1 THEN {Root} ELSE Children(heap, m_contexts[i - 1].at)
      <3>1. /\ m_contexts[i].at \in Addresses
            /\ m_contexts[i].allocation = allocation[m_contexts[i].at]
            /\ m_contexts[i].at \in DOMAIN heap
        BY <2>2 DEF LiveInv, StackIsAPath, Dangles, ContextsAreSound, IsSound, Contexts
      <3>2. allocation[m_contexts[i].at] \in Nat
        BY <1>1, <3>1
      <3>3. QED
        BY <1>10, <2>2, <2>3, <3>1, <3>2 DEF LiveInv, StackIsAPath
    <2>5. \A i \in DOMAIN m_contexts : i # 1 => i - 1 \in DOMAIN m_contexts
      BY SequenceIsFunction DEF LiveInv, LiveTypeOK
    <2>6. ASSUME NEW i \in DOMAIN m_contexts, i # 1
          PROVE  m_contexts[i].at \in Children(heap', m_contexts[i - 1].at)
      <3> DEFINE a == m_contexts[i - 1].at
                 c == m_contexts[i].at
      <3>1. a \in DOMAIN heap /\ a \notin gone /\ c \in Children(heap, a)
        BY <2>3, <2>4, <2>5, <2>6
      <3>2. PICK p \in DOMAIN Slots(heap[a]) : Owns(Slots(heap[a])[p]) /\ Slots(heap[a])[p].at = c
        BY <3>1, ChildInPlace
      <3>3. ~(a = at /\ p = position)
        BY <2>2, <3>2 DEF BeingWritten
      <3>4. p \in DOMAIN Slots(heap'[a]) /\ Slots(heap'[a])[p] = Slots(heap[a])[p]
        BY <1>3, <1>6, <1>7, <3>1, <3>2, <3>3 DEF Placed
      <3>5. QED
        BY <3>2, <3>4, ChildInPlace
    <2>7. QED
      BY <1>5, <2>4, <2>6 DEF StackIsAPath, Dangles
  <1>13. UndefinedOnlyIfTampered'
    BY <1>5 DEF LiveInv, UndefinedOnlyIfTampered
  <1>14. QED
    BY <1>5, <1>8, <1>9, <1>10, <1>11, <1>12, <1>13
    DEF LiveInv, LiveTypeOK, OwnedOnce, ContextsAreSound
-----------------------------------------------------------------------------
(* What the serializer does.                                               *)

LEMMA EndBlockStep == LiveInv /\ EndBlock => LiveInv'
  <1> SUFFICES ASSUME LiveInv, EndBlock PROVE LiveInv'
    OBVIOUS
  <1>1. /\ m_contexts # <<>> /\ m_contexts' = Front(m_contexts)
        /\ heap' = heap /\ allocation' = allocation /\ ec' = ec /\ tampered' = tampered
        /\ IsSequence(m_contexts)
    BY DEF EndBlock, IsWriting, LiveInv, LiveTypeOK
  <1>2. /\ IsSequence(m_contexts')
        /\ Len(m_contexts') = Len(m_contexts) - 1
        /\ \A i \in 1 .. Len(m_contexts) - 1 : m_contexts'[i] = m_contexts[i]
    BY <1>1, Pop
  <1>3. /\ DOMAIN m_contexts = 1 .. Len(m_contexts) /\ Len(m_contexts) \in Nat
        /\ DOMAIN m_contexts' = 1 .. Len(m_contexts')
    BY <1>1, <1>2, SequenceIsFunction
  <1>4. \A i \in DOMAIN m_contexts' : i \in DOMAIN m_contexts /\ m_contexts'[i] = m_contexts[i]
    BY <1>2, <1>3
  <1>5. \A i \in DOMAIN m_contexts' : i # 1 => i - 1 \in DOMAIN m_contexts'
    BY <1>2, <1>3
  <1>6. StackIsAPath'
    BY <1>1, <1>4, <1>5 DEF LiveInv, StackIsAPath, Dangles
  <1>7. QED
    BY <1>1, <1>2, <1>4, <1>6
    DEF LiveInv, LiveTypeOK, OwnedOnce, ContextsAreSound, UndefinedOnlyIfTampered

LEMMA WriteElementStep == LiveInv /\ WriteElement => LiveInv'
  <1> SUFFICES ASSUME LiveInv, WriteElement PROVE LiveInv'
    OBVIOUS
  <1> DEFINE container == heap[Top.at]
             value == Slots(container)[Top.m_ptr]
             popped == Popped(Top, container)
             below == SetTop(m_contexts, popped)
             inner == make_serializer_context(value.at)
             n == Len(m_contexts)
  <1>1. /\ m_contexts # <<>> /\ IsSequence(m_contexts)
        /\ Top.m_ptr # Top.m_end /\ ~Dangles(Top)
        /\ heap' = heap /\ allocation' = allocation /\ ec' = ec /\ tampered' = tampered
        /\ m_contexts' = IF Owns(value) THEN Append(below, inner) ELSE below
    BY DEF WriteElement, IsWriting, LiveInv, LiveTypeOK, Popped
  <1>2. /\ n \in Nat /\ n \in 1 .. n /\ DOMAIN m_contexts = 1 .. n
        /\ Top = m_contexts[n]
    BY <1>1, SequenceIsFunction DEF Top, Last
  <1>3. /\ IsMemory(heap) /\ IsTree(heap) /\ allocation \in [Addresses -> Nat]
        /\ IsSound(Top, heap, allocation)
    BY <1>2 DEF LiveInv, LiveTypeOK, OwnedOnce, ContextsAreSound
  <1>4. /\ Top \in Contexts /\ Top.at \in DOMAIN heap /\ IsContainer(container)
        /\ Fits(Top, container)
    BY <1>1, <1>3 DEF IsSound, Dangles, IsMemory
  <1>5. /\ popped \in Contexts
        /\ popped.at = Top.at /\ popped.allocation = Top.allocation
        /\ Fits(popped, container)
    BY <1>1, <1>4, PoppedFits
  <1>6. IsSound(popped, heap, allocation)
    BY <1>3, <1>5 DEF IsSound
  <1> HIDE DEF popped
  <1>7. /\ IsSequence(below) /\ Len(below) = n
        /\ \A i \in 1 .. n - 1 : below[i] = m_contexts[i]
        /\ below[n] = popped
    BY <1>1, ReplaceTop
  <1>8. \A i \in 1 .. n : /\ IsSound(below[i], heap, allocation)
                          /\ below[i].at = m_contexts[i].at
                          /\ below[i].allocation = m_contexts[i].allocation
    BY <1>2, <1>5, <1>6, <1>7 DEF LiveInv, ContextsAreSound
  <1>9. DOMAIN below = 1 .. n
    BY <1>7, SequenceIsFunction
  <1>10. \A i \in 1 .. n : i # 1 => i - 1 \in 1 .. n
    BY <1>2
  <1>11. ASSUME NEW i \in 1 .. n, ~tampered
         PROVE  /\ ~Dangles(below[i])
                /\ below[i].at \in IF i = 1 THEN {Root} ELSE Children(heap, below[i - 1].at)
    BY <1>2, <1>8, <1>10, <1>11 DEF LiveInv, StackIsAPath, Dangles
  <1> HIDE DEF below
  <1>12. CASE ~Owns(value)
    <2>1. m_contexts' = below
      BY <1>1, <1>12
    <2>2. StackIsAPath'
      BY <1>1, <1>9, <1>11, <2>1 DEF StackIsAPath, Dangles
    <2>3. QED
      BY <1>1, <1>7, <1>8, <1>9, <2>1, <2>2
      DEF LiveInv, LiveTypeOK, OwnedOnce, ContextsAreSound, UndefinedOnlyIfTampered
  <1>13. CASE Owns(value)
    <2>1. value.at \in Children(heap, Top.at)
      BY <1>1, <1>4, <1>13, ChildInPlace DEF Fits
    <2>2. value.at \in DOMAIN heap
      BY <1>3, <1>4, <2>1, OneOwner
    <2>3. /\ IsSound(inner, heap, allocation)
          /\ inner.at = value.at /\ inner.allocation = allocation[value.at]
      BY <1>3, <2>2, NewContextIsSound DEF make_serializer_context
    <2> HIDE DEF value, inner
    <2>4. /\ m_contexts' = Append(below, inner)
          /\ IsSequence(m_contexts') /\ Len(m_contexts') = n + 1
          /\ \A i \in 1 .. n : m_contexts'[i] = below[i]
          /\ m_contexts'[n + 1] = inner
      BY <1>1, <1>7, <1>13, Push
    <2>5. DOMAIN m_contexts' = 1 .. n + 1
      BY <2>4, SequenceIsFunction
    <2>6. \A i \in 1 .. n + 1 : i \in 1 .. n \/ i = n + 1
      BY <1>2
    <2>7. ContextsAreSound'
      BY <1>1, <1>8, <2>3, <2>4, <2>5, <2>6 DEF ContextsAreSound
    <2>8. ASSUME NEW i \in 1 .. n + 1, ~tampered
          PROVE  /\ ~Dangles(m_contexts'[i])
                 /\ m_contexts'[i].at \in
                       IF i = 1 THEN {Root} ELSE Children(heap, m_contexts'[i - 1].at)
      <3>1. CASE i \in 1 .. n
        BY <1>10, <1>11, <2>4, <2>8, <3>1
      <3>2. CASE i = n + 1
        <4>1. i # 1 /\ i - 1 = n
          BY <1>2, <3>2
        <4>2. m_contexts'[n] = popped
          BY <1>2, <1>7, <2>4
        <4>3. m_contexts'[i] = inner /\ m_contexts'[i - 1].at = Top.at
          BY <1>5, <2>4, <3>2, <4>1, <4>2
        <4>4. ~Dangles(m_contexts'[i])
          BY <2>3, <4>3 DEF Dangles
        <4>5. m_contexts'[i].at \in Children(heap, m_contexts'[i - 1].at)
          BY <2>1, <2>3, <4>3
        <4>6. QED
          BY <4>1, <4>4, <4>5
      <3>3. QED
        BY <2>6, <3>1, <3>2
    <2>9. StackIsAPath'
      BY <1>1, <2>5, <2>8 DEF StackIsAPath, Dangles
    <2>10. QED
      BY <1>1, <2>4, <2>7, <2>9
      DEF LiveInv, LiveTypeOK, OwnedOnce, UndefinedOnlyIfTampered
  <1>14. QED
    BY <1>12, <1>13

\* An iterator dangles only if the caller has tampered with the path.
LEMMA OtherStep ==
    ASSUME LiveInv, Serialize \/ WriteDangling \/ Return \/ UNCHANGED liveVars
    PROVE  LiveInv'
  <1>1. /\ heap' = heap /\ allocation' = allocation
        /\ m_contexts' = m_contexts /\ tampered' = tampered
        /\ ec' \in {"running", "completed", "buffer_is_full", "undefined"}
    BY DEF Serialize, WriteDangling, Return, liveVars, LiveInv, LiveTypeOK
  <1>2. StackIsAPath'
    BY <1>1 DEF LiveInv, StackIsAPath, Dangles
  <1>3. UndefinedOnlyIfTampered'
    <2>1. CASE WriteDangling
      <3>1. Len(m_contexts) \in DOMAIN m_contexts /\ Top = m_contexts[Len(m_contexts)]
        BY <2>1, SequenceIsFunction DEF WriteDangling, IsWriting, LiveInv, LiveTypeOK, Top, Last
      <3>2. tampered
        BY <2>1, <3>1 DEF WriteDangling, LiveInv, StackIsAPath
      <3>3. QED
        BY <1>1, <3>2 DEF UndefinedOnlyIfTampered
    <2>2. CASE ~WriteDangling
      BY <1>1, <2>2
      DEF Serialize, Return, liveVars, LiveInv, UndefinedOnlyIfTampered
    <2>3. QED
      BY <2>1, <2>2
  <1>4. QED
    BY <1>1, <1>2, <1>3 DEF LiveInv, LiveTypeOK, OwnedOnce, ContextsAreSound
-----------------------------------------------------------------------------
(* Theorems.                                                               *)

LEMMA LiveInvInit == LiveInit => LiveInv
  <1> SUFFICES ASSUME LiveInit PROVE LiveInv
    OBVIOUS
  <1> DEFINE first == make_serializer_context(Root)
  <1>1. IsMemory(heap) /\ IsTree(heap) /\ Root \in DOMAIN heap /\ Root \in Addresses
    BY LiveAssumption DEF LiveInit, IsTree, IsMemory
  <1>2. allocation \in [Addresses -> Nat] /\ m_contexts = <<first>>
    BY DEF LiveInit
  <1>3. /\ IsSound(first, heap, allocation)
        /\ first.at = Root /\ first.allocation = allocation[Root]
    BY <1>1, <1>2, NewContextIsSound DEF make_serializer_context
  <1> HIDE DEF first
  <1>4. m_contexts = [i \in 1 .. 1 |-> m_contexts[i]] /\ m_contexts[1] = first
    BY <1>2
  <1>5. IsSequence(m_contexts) /\ DOMAIN m_contexts = 1 .. 1
    BY <1>4, FunctionIsSequence
  <1>6. \A i \in DOMAIN m_contexts : i = 1
    BY <1>5
  <1>7. StackIsAPath /\ ContextsAreSound
    BY <1>3, <1>4, <1>6 DEF StackIsAPath, ContextsAreSound, Dangles
  <1>8. QED
    BY <1>1, <1>2, <1>5, <1>7
    DEF LiveInit, LiveInv, LiveTypeOK, OwnedOnce, UndefinedOnlyIfTampered

LEMMA LiveInvNext == LiveInv /\ [LiveNext]_liveVars => LiveInv'
  <1> SUFFICES ASSUME LiveInv, [LiveNext]_liveVars PROVE LiveInv'
    OBVIOUS
  <1>1. CASE EndBlock
    BY <1>1, EndBlockStep
  <1>2. CASE WriteElement
    BY <1>2, WriteElementStep
  <1>3. CASE Serialize \/ WriteDangling \/ Return \/ UNCHANGED liveVars
    BY <1>3, OtherStep
  <1>4. ASSUME NEW at \in DOMAIN heap, PushBack(at) PROVE LiveInv'
    BY <1>4, PushBackStep
  <1>5. ASSUME NEW at \in DOMAIN heap, NEW key \in Keys, Insert(at, key) PROVE LiveInv'
    BY <1>5, InsertStep
  <1>6. ASSUME NEW at \in DOMAIN heap, NEW position \in DOMAIN Slots(heap[at]),
               Replace(at, position)
        PROVE  LiveInv'
    BY <1>6, ReplaceStep
  <1>7. QED
    BY <1>1, <1>2, <1>3, <1>4, <1>5, <1>6 DEF LiveNext

LEMMA LiveInvariant == LiveSpec => []LiveInv
  BY LiveInvInit, LiveInvNext, PTL DEF LiveSpec

\* Whatever a caller inserts, appends and replaces in the middle of writing,
\* the containers stay a tree: none is freed twice and none is left over.
THEOREM Ownership == LiveSpec => []OwnedOnce
  <1>1. LiveInv => OwnedOnce
    BY DEF LiveInv
  <1>2. QED
    BY <1>1, LiveInvariant, PTL

\* As long as nothing on it is moved or destroyed, the stack of contexts is a
\* path down from the root, and no iterator in it dangles.
THEOREM StackSafety == LiveSpec => []StackIsAPath
  <1>1. LiveInv => StackIsAPath
    BY DEF LiveInv
  <1>2. QED
    BY <1>1, LiveInvariant, PTL

\* Any other change to the tree is safe between any two calls.
THEOREM SafeChanges == LiveSpec => []UndefinedOnlyIfTampered
  <1>1. LiveInv => UndefinedOnlyIfTampered
    BY DEF LiveInv
  <1>2. QED
    BY <1>1, LiveInvariant, PTL

\* In a container that has not been moved or destroyed, each element that was
\* there or comes behind the iterator is written once, and nothing else.
THEOREM WritesOnce == LiveSpec => []WritesWhatIsDue
  BY InvDue, LiveInvariant, PTL
=============================================================================
