----------------------------- MODULE ArrayQueue -----------------------------
(***************************************************************************)
(* ArrayQueue<T> of kernel/queue/queue.hpp as operators on its members:    *)
(* a fixed array data_, the two positions, the element count.  The         *)
(* operators return the members after the call; ArrayQueueSpec makes them  *)
(* into a state machine and EventLoop uses them for the kernel's main      *)
(* queue.                                                                  *)
(***************************************************************************)
EXTENDS Naturals

CONSTANTS
  Capacity,  \* number of elements of the std::array the queue is built on
  Message    \* the element type T

ASSUME CapacityAssumption == Capacity \in Nat \ {0}

Index == 0 .. Capacity - 1

Queue == [data : [Index -> Message], read_pos : Index, write_pos : Index,
          count : 0 .. Capacity]

\* The constructor leaves the array as it finds it.
NewQueue(buf) == [data |-> buf, read_pos |-> 0, write_pos |-> 0, count |-> 0]

(* Mutated: the position stays at the end.                                 *)
AdvanceNoWrap(pos) == IF pos + 1 = Capacity THEN pos ELSE pos + 1
Advance(pos) == (pos + 1) % Capacity

(* Mutated: a push to a full queue overwrites; the queue takes one more.    *)
PushedOverwriting(q, v) ==
  [q EXCEPT !.data[q.write_pos] = v,
            !.write_pos = Advance(@),
            !.count = IF @ = Capacity THEN @ ELSE @ + 1]

IsFullOffByOne(q) == q.count > Capacity

IsFull(q)  == q.count = Capacity
IsEmpty(q) == q.count = 0

Pushed(q, v) ==
  IF IsFull(q) THEN q
  ELSE [q EXCEPT !.data[q.write_pos] = v,
                 !.write_pos = Advance(@),
                 !.count = @ + 1]

\* Pop() when the count it decrements was read earlier as n.
PoppedAt(q, n) == [q EXCEPT !.read_pos = Advance(@), !.count = n - 1]

Popped(q) == IF IsEmpty(q) THEN q ELSE PoppedAt(q, q.count)

Front(q) == q.data[q.read_pos]

\* The messages the queue holds, oldest first.
Contents(q) == [i \in 1 .. q.count |-> q.data[(q.read_pos + i - 1) % Capacity]]

\* The three position members agree with each other.
WellFormed(q) == q.write_pos = (q.read_pos + q.count) % Capacity
=============================================================================
