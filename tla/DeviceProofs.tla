---------------------------- MODULE DeviceProofs -----------------------------
(***************************************************************************)
(* What TLAPS proves of Device, for any device that conforms and any       *)
(* failures: the types, how the configuration is read, the report buffer   *)
(* and, with the sizes of the driver's arrays, that each transfer event is *)
(* traced back to its request and that no TRB is overwritten.              *)
(*                                                                         *)
(* First what the recursive functions return: each is the function that    *)
(* exists by its equation, and what holds of it is shown by its least      *)
(* counterexample.  Then four inductive invariants: ConfigInv is what the  *)
(* driver has read of the device, PipeOK the types of the control pipe,    *)
(* ReportInv the report buffer and its copy, PipeInv what lies in the      *)
(* control pipe.                                                           *)
(***************************************************************************)
EXTENDS Device, Integers, SequenceTheorems, FiniteSetTheorems, TLAPS

-----------------------------------------------------------------------------
(* The invariants.                                                         *)

Drivers == {"none", "keyboard", "mouse"}

\* What the driver knows of the device, from InitializePhase2 on.
Found(read) ==
  class_driver = read.driver /\ ep_configs = read.endpoints
    /\ class_drivers = Numbers(read.endpoints)

ConfigInv ==
  /\ configuration \in Configurations
  /\ initialize_phase \in 0 .. 4
  /\ \/ class_driver = "none" /\ class_drivers = {} /\ ep_configs = <<>>
     \/ Found(Reading[configuration])
  /\ initialize_phase >= 3 => /\ Found(Reading[configuration])
                              /\ class_driver # "none"
                              /\ ~Astray(Reading[configuration])
  /\ err = "astray" => Astray(Reading[configuration])
  /\ configuring \in BOOLEAN /\ hid_phase \in 0 .. 2
  /\ configuring => initialize_phase = 4 /\ hid_phase = 0
  /\ hid_phase # 0 => initialize_phase = 4
  /\ initialize_phase # 4 => ep_interrupt_in = {} /\ rings = {}
  /\ initialize_phase = 4 =>
       /\ rings = {ep_configs[k] : k \in DOMAIN ep_configs}
       /\ ep_interrupt_in \subseteq rings /\ ep_interrupt_in # {}

Transfer == [issuer : Position, request : Request, trbs : 1 .. 3]
Event    == [issuer : Position, ok : BOOLEAN]

Pipes ==
  [ring            : [Position -> Trb \cup {"none"}],
   write_index     : Position,
   setup_stage_map : [1 .. MapSize -> {Free} \cup [issuer : Position, setup : Position]],
   under_way       : Seq(Transfer)]

PipeOK ==
  /\ pipe \in Pipes
  /\ events \in Seq(Event)
  /\ event_waiters \in 0 .. WaiterSize

Reported(r) == r = NoReport \/ r \in ReportsOf(class_driver)

ReportInv ==
  /\ polled \in Nat /\ reported \in Nat /\ polled + reported <= 1
  /\ hid_phase # 2 => /\ polled = 0 /\ reported = 0
                      /\ buf = NoReport /\ previous_buf = NoReport
                      /\ sent = <<NoReport, NoReport>> /\ told = {}
  /\ sent = <<sent[1], sent[2]>> /\ Reported(sent[1]) /\ Reported(sent[2])
  /\ buf = sent[2]
  /\ previous_buf = IF reported = 1 THEN sent[1] ELSE sent[2]
  /\ reported = 1 => buf \in ReportsOf(class_driver)
  /\ told \subseteq Keys \cup Moves
  /\ ReportsTold

-----------------------------------------------------------------------------
(* The control pipe.  Open: transfers whose event has yet to be handled, or *)
(* to come; those that failed are not.                                     *)

Asked    == {k \in DOMAIN pipe.under_way : pipe.under_way[k].trbs > 1}
Answered == {k \in DOMAIN events : events[k].ok}
Open     == {pipe.under_way[k].issuer : k \in Asked} \cup {events[k].issuer : k \in Answered}
Unused   == \A k \in 1 .. MapSize : pipe.setup_stage_map[k] = Free

\* setup_stage_map_ has one entry for the issuer, which leads to the request
\* that the handler expects.
Traced(issuer) ==
  \E k \in 1 .. MapSize :
    /\ Entries(pipe.setup_stage_map, issuer) = {k}
    /\ pipe.ring[pipe.setup_stage_map[k].setup] = Expected[initialize_phase]

\* Two open transfers never have the same issuer.
Apart ==
  /\ \A j, k \in Asked : pipe.under_way[j].issuer = pipe.under_way[k].issuer => j = k
  /\ \A j, k \in Answered : events[j].issuer = events[k].issuer => j = k
  /\ \A j \in Asked, k \in Answered : pipe.under_way[j].issuer # events[k].issuer

\* The phases before the class driver: one request after the other.  The status
\* stage of the one before may still be under way.
OneRequest ==
  /\ Len(events) <= 1 /\ Len(pipe.under_way) <= 2
  /\ Len(pipe.under_way) = 2 => events = <<>> /\ pipe.under_way[1].trbs = 1
  /\ events # <<>> => \A k \in DOMAIN pipe.under_way : pipe.under_way[k].trbs = 1
  /\ initialize_phase = 3 =>
       /\ events # <<>> => pipe.under_way = <<>>
       /\ \A k \in DOMAIN pipe.under_way : pipe.under_way[k].trbs <= 2
  /\ \A k \in 1 .. MapSize : \/ pipe.setup_stage_map[k] = Free
                             \/ pipe.setup_stage_map[k].issuer \in Open
                             \/ Open = {}

Idle == events = <<>> /\ pipe.under_way = <<>> /\ Unused

PipeInv ==
  /\ \A k \in Asked : pipe.under_way[k].request = Expected[initialize_phase]
  /\ \A i \in Open : Traced(i)
  /\ Apart
  /\ initialize_phase = 0 \/ configuring => Idle
  /\ initialize_phase \in 1 .. 3 => OneRequest
  /\ initialize_phase = 4 =>
       /\ Len(pipe.under_way) <= Cardinality(class_drivers)
       /\ \A k \in DOMAIN pipe.under_way : pipe.under_way[k].trbs <= 2
       /\ Open # {} => event_waiters > 0
  /\ NoUnexpectedError

\* The arrays of the driver: 32 TRBs, maps of 16 and 4 entries.
DriverSizes == RingSize >= 32 /\ MapSize >= 15 /\ WaiterSize >= 1

-----------------------------------------------------------------------------
(* Recursion.                                                              *)

LEMMA LeastNat ==
  ASSUME NEW S \in SUBSET Nat, S # {}
  PROVE  \E m \in S : \A n \in S : m <= n
<1> DEFINE T == {0 .. n : n \in S}
           R == StrictSubsetOrdering(Nat)
<1>1. IsWellFoundedOn(R, FiniteSubsetsOf(Nat))
  BY FS_StrictSubsetOrderingWellFounded
<1>2. T \subseteq FiniteSubsetsOf(Nat) /\ T # {}
  <2>1. \A n \in S : IsFiniteSet(0 .. n) /\ 0 .. n \subseteq Nat
    BY FS_Interval
  <2> QED
    BY <2>1 DEF FiniteSubsetsOf
<1>3. PICK i \in T : \A j \in T : ~(<<j, i>> \in R)
  <2> HIDE DEF T, R
  <2> QED
    BY <1>1, <1>2, WFMin
<1>4. PICK m \in S : i = 0 .. m
  OBVIOUS
<1>5. ASSUME NEW n \in S, n < m PROVE FALSE
  <2>1. 0 .. n \subseteq 0 .. m /\ m \in 0 .. m /\ m \notin 0 .. n
    BY <1>5
  <2>2. <<0 .. n, 0 .. m>> \in R
    BY <2>1 DEF StrictSubsetOrdering
  <2> QED
    BY <2>2, <1>3, <1>4
<1> QED
  BY <1>5

LEMMA SetProtocolIssues ==
  ASSUME NEW p, NEW n \in Nat
  PROVE  \E f : /\ f[0] = p /\ f[n] = SetProtocol(p, n)
                /\ \A k \in 1 .. n : f[k] = ControlOut(f[k - 1], "set_protocol")
<1> DEFINE Eq(f, m) ==
             f = [k \in 0 .. m |-> IF k = 0 THEN p ELSE ControlOut(f[k - 1], "set_protocol")]
           Missing == {m \in Nat : ~\E f : Eq(f, m)}
<1>1. Missing = {}
  <2> SUFFICES ASSUME Missing # {} PROVE FALSE
    OBVIOUS
  <2>1. PICK m \in Missing : \A k \in Missing : m <= k
    BY LeastNat
  <2>2. m # 0
    <3> DEFINE f == [k \in 0 .. 0 |-> p]
    <3>1. Eq(f, 0)
      OBVIOUS
    <3> QED
      BY <3>1
  <2>3. PICK f : Eq(f, m - 1)
    <3>1. m - 1 \in Nat /\ ~(m <= m - 1)
      BY <2>2
    <3> HIDE DEF Eq
    <3> QED
      BY <2>1, <3>1
  <2> DEFINE g == [k \in 0 .. m |-> IF k = m THEN ControlOut(f[m - 1], "set_protocol") ELSE f[k]]
  <2>4. ASSUME NEW k \in 0 .. m
        PROVE  g[k] = IF k = 0 THEN p ELSE ControlOut(g[k - 1], "set_protocol")
    <3>1. CASE k = m
      BY <2>2, <3>1
    <3>2. CASE k # m
      <4>1. k \in 0 .. m - 1 /\ (k # 0 => k - 1 \in 0 .. m /\ k - 1 # m)
        BY <3>2
      <4>2. f[k] = IF k = 0 THEN p ELSE ControlOut(f[k - 1], "set_protocol")
        BY <2>3, <4>1
      <4> QED
        BY <3>2, <4>1, <4>2
    <3> QED
      BY <3>1, <3>2
  <2>5. Eq(g, m)
    <3> HIDE DEF g
    <3>1. g = [k \in 0 .. m |-> g[k]]
      BY DEF g
    <3> QED
      BY <2>4, <3>1
  <2> QED
    BY <2>5
<1> DEFINE h == CHOOSE f : Eq(f, n)
<1>2. Eq(h, n)
  BY <1>1
<1>3. SetProtocol(p, n) = h[n]
  BY DEF SetProtocol
<1> HIDE DEF h
<1>4. h[0] = p
  BY <1>2
<1>5. \A k \in 1 .. n : h[k] = ControlOut(h[k - 1], "set_protocol")
  BY <1>2
<1> QED
  BY <1>3, <1>4, <1>5

-----------------------------------------------------------------------------
(* The ring and the map of the control pipe.                               *)

Lap == RingSize - 1
Pos(w, j) == IF w + j < Lap THEN w + j ELSE w + j - Lap

Entry == [issuer : Position, setup : Position]
Maps  == [1 .. MapSize -> {Free} \cup Entry]

LEMMA Advances ==
  ASSUME NEW k \in Position, NEW n \in Nat
  PROVE  /\ Advance(k, n) \in Position
         /\ n <= Lap => Advance(k, n) = Pos(k, n)
<1>1. RingSize \in Nat /\ RingSize >= 2
  BY DeviceAssumption
<1> DEFINE r == RingSize - 1
<1>2. r \in Nat /\ r > 0 /\ k \in 0 .. r - 1
  BY <1>1 DEF Position
<1> HIDE DEF r
<1>3. (k + n) % r \in 0 .. r - 1
  BY <1>2, SMT
<1>4. n <= r => (k + n) % r = IF k + n < r THEN k + n ELSE k + n - r
  BY <1>2, SMT
<1>5. 0 .. r - 1 = Position
  BY <1>1 DEF r, Position
<1> QED
  BY <1>3, <1>4, <1>5 DEF r, Advance, Pos, Lap

LEMMA MinIsLeast ==
  ASSUME NEW S \in SUBSET Nat, S # {}
  PROVE  Min(S) \in S /\ \A n \in S : Min(S) <= n
BY LeastNat DEF Min

LEMMA FreeIsNoEntry ==
  /\ Free.issuer \notin Position
  /\ \A e \in Entry : e # Free /\ e.issuer # Free.issuer /\ e.issuer \in Position
BY DeviceAssumption DEF Free, Entry, Position

LEMMA EntriesOfMap ==
  ASSUME NEW map \in Maps, NEW issuer
  PROVE  /\ Entries(map, issuer) \in SUBSET (1 .. MapSize) /\ 1 .. MapSize \subseteq Nat
         /\ Entries(map, issuer) = {k \in 1 .. MapSize : map[k].issuer = issuer}
         /\ Has(map, issuer) => Min(Entries(map, issuer)) \in Entries(map, issuer)
<1>1. DOMAIN map = 1 .. MapSize
  BY DEF Maps
<1>2. Entries(map, issuer) = {k \in 1 .. MapSize : map[k].issuer = issuer}
  BY <1>1 DEF Entries
<1>3. 1 .. MapSize \subseteq Nat
  BY DeviceAssumption
<1> QED
  BY <1>2, <1>3, MinIsLeast DEF Has

LEMMA PutType ==
  ASSUME NEW map \in Maps, NEW e \in Entry
  PROVE  Put(map, e) \in Maps
<1>1. CASE Entries(map, Free.issuer) = {}
  BY <1>1 DEF Put
<1>2. CASE Entries(map, Free.issuer) # {}
  <2> DEFINE k == Min(Entries(map, Free.issuer))
  <2>1. Put(map, e) = [map EXCEPT ![k] = e]
    BY <1>2 DEF Put
  <2> HIDE DEF k
  <2> QED
    BY <2>1 DEF Maps
<1> QED
  BY <1>1, <1>2

LEMMA PutInOrder ==
  ASSUME NEW map \in Maps, NEW m \in Nat, m < MapSize, NEW e \in Entry,
         \A k \in 1 .. MapSize : map[k] = Free <=> m < k
  PROVE  Put(map, e) = [map EXCEPT ![m + 1] = e]
<1>1. Entries(map, Free.issuer) = (m + 1) .. MapSize
  <2>1. \A k \in 1 .. MapSize : map[k].issuer = Free.issuer <=> map[k] = Free
    BY FreeIsNoEntry DEF Maps
  <2>2. MapSize \in Nat
    BY DeviceAssumption
  <2>3. Entries(map, Free.issuer) = {k \in 1 .. MapSize : m < k}
    BY <2>1, EntriesOfMap
  <2> QED
    BY <2>2, <2>3
<1>2. MapSize \in Nat /\ m + 1 \in (m + 1) .. MapSize
  BY DeviceAssumption
<1>3. Min((m + 1) .. MapSize) = m + 1
  <2>1. (m + 1) .. MapSize \in SUBSET Nat
    BY <1>2
  <2>2. /\ Min((m + 1) .. MapSize) \in (m + 1) .. MapSize
        /\ Min((m + 1) .. MapSize) <= m + 1
    BY <1>2, <2>1, MinIsLeast
  <2> QED
    BY <1>2, <2>2
<1> QED
  BY <1>1, <1>2, <1>3 DEF Put

LEMMA DeleteType ==
  ASSUME NEW map \in Maps, NEW issuer
  PROVE  Delete(map, issuer) \in Maps
<1> DEFINE k == Min(Entries(map, issuer))
<1>1. Delete(map, issuer) = [map EXCEPT ![k] = Free]
  BY DEF Delete
<1> HIDE DEF k
<1> QED
  BY <1>1 DEF Maps

LEMMA PipeFields ==
  ASSUME NEW p \in Pipes
  PROVE  /\ p.ring \in [Position -> Trb \cup {"none"}] /\ p.write_index \in Position
         /\ p.setup_stage_map \in Maps /\ p.under_way \in Seq(Transfer)
BY DEF Pipes, Maps, Entry

LEMMA ControlInType ==
  ASSUME NEW p \in Pipes, NEW request \in Request
  PROVE  ControlIn(p, request) \in Pipes
<1> DEFINE w == p.write_index
           a == Advance(w, 1)
           b == Advance(w, 2)
           c == Advance(w, 3)
           ring == [p.ring EXCEPT ![w] = request, ![a] = "Data", ![b] = "Status"]
           map == Put(p.setup_stage_map, [issuer |-> a, setup |-> w])
           way == Append(p.under_way, [issuer |-> a, request |-> request, trbs |-> 3])
<1>1. w \in Position /\ a \in Position /\ b \in Position /\ c \in Position
  BY PipeFields, Advances
<1>2. ControlIn(p, request) =
        [ring |-> ring, write_index |-> c, setup_stage_map |-> map, under_way |-> way]
  BY DEF ControlIn
<1> HIDE DEF w, a, b, c
<1>3. ring \in [Position -> Trb \cup {"none"}]
  BY <1>1, PipeFields DEF Trb
<1>4. map \in Maps
  BY <1>1, PipeFields, PutType DEF Entry
<1>5. way \in Seq(Transfer)
  <2>1. [issuer |-> a, request |-> request, trbs |-> 3] \in Transfer
    BY <1>1 DEF Transfer
  <2> QED
    BY <2>1, PipeFields, AppendProperties
<1> HIDE DEF ring, map, way
<1> QED
  BY <1>1, <1>2, <1>3, <1>4, <1>5 DEF Pipes, Maps, Entry

LEMMA ControlOutType ==
  ASSUME NEW p \in Pipes, NEW request \in Request
  PROVE  ControlOut(p, request) \in Pipes
<1> DEFINE w == p.write_index
           a == Advance(w, 1)
           b == Advance(w, 2)
           ring == [p.ring EXCEPT ![w] = request, ![a] = "Status"]
           map == Put(p.setup_stage_map, [issuer |-> a, setup |-> w])
           way == Append(p.under_way, [issuer |-> a, request |-> request, trbs |-> 2])
<1>1. w \in Position /\ a \in Position /\ b \in Position
  BY PipeFields, Advances
<1>2. ControlOut(p, request) =
        [ring |-> ring, write_index |-> b, setup_stage_map |-> map, under_way |-> way]
  BY DEF ControlOut
<1> HIDE DEF w, a, b
<1>3. ring \in [Position -> Trb \cup {"none"}]
  BY <1>1, PipeFields DEF Trb
<1>4. map \in Maps
  BY <1>1, PipeFields, PutType DEF Entry
<1>5. way \in Seq(Transfer)
  <2>1. [issuer |-> a, request |-> request, trbs |-> 2] \in Transfer
    BY <1>1 DEF Transfer
  <2> QED
    BY <2>1, PipeFields, AppendProperties
<1> HIDE DEF ring, map, way
<1> QED
  BY <1>1, <1>2, <1>3, <1>4, <1>5 DEF Pipes, Maps, Entry

LEMMA SetProtocolType ==
  ASSUME NEW p \in Pipes, NEW n \in Nat
  PROVE  SetProtocol(p, n) \in Pipes
<1>1. PICK f : /\ f[0] = p /\ f[n] = SetProtocol(p, n)
               /\ \A k \in 1 .. n : f[k] = ControlOut(f[k - 1], "set_protocol")
  BY SetProtocolIssues
<1> DEFINE Bad == {k \in 0 .. n : f[k] \notin Pipes}
<1>2. Bad = {}
  <2> SUFFICES ASSUME Bad # {} PROVE FALSE
    OBVIOUS
  <2>1. PICK m \in Bad : \A k \in Bad : m <= k
    <3>1. Bad \in SUBSET Nat
      OBVIOUS
    <3> HIDE DEF Bad
    <3> QED
      BY <3>1, LeastNat
  <2>2. m # 0
    BY <1>1
  <2>3. m - 1 \in 0 .. n /\ ~(m <= m - 1)
    BY <2>2
  <2>4. f[m - 1] \in Pipes
    BY <2>1, <2>3
  <2>5. f[m] = ControlOut(f[m - 1], "set_protocol")
    BY <1>1, <2>2
  <2> QED
    BY <2>4, <2>5, ControlOutType DEF Request
<1> QED
  BY <1>1, <1>2

\* After m calls on an idle pipe: m requests of two TRBs each, one behind the
\* other from position w on, and the first m entries of the map.
Laid(q, w, m) ==
  /\ q \in Pipes
  /\ q.write_index = Pos(w, m + m)
  /\ Len(q.under_way) = m
  /\ \A k \in 1 .. m :
       /\ q.under_way[k] =
            [issuer |-> Pos(w, k + k - 1), request |-> "set_protocol", trbs |-> 2]
       /\ q.setup_stage_map[k] = [issuer |-> Pos(w, k + k - 1), setup |-> Pos(w, k + k - 2)]
       /\ q.ring[Pos(w, k + k - 2)] = "set_protocol"
  /\ \A k \in 1 .. MapSize : k > m => q.setup_stage_map[k] = Free

LEMMA Positions ==
  ASSUME DriverSizes, NEW w \in Position, NEW i \in 0 .. 30, NEW j \in 0 .. 30
  PROVE  /\ Pos(w, i) \in Position
         /\ Pos(w, i) = Pos(w, j) => i = j
         /\ i < 30 => Advance(Pos(w, i), 1) = Pos(w, i + 1)
         /\ i < 29 => Advance(Pos(w, i), 2) = Pos(w, i + 2)
<1>1. RingSize \in Nat /\ RingSize >= 32
  BY DeviceAssumption DEF DriverSizes
<1>2. Pos(w, i) \in Position /\ Pos(w, j) \in Position
  BY <1>1 DEF Pos, Lap, Position
<1>3. Pos(w, i) = Pos(w, j) => i = j
  BY <1>1 DEF Pos, Lap, Position
<1>4. Advance(Pos(w, i), 1) = Pos(Pos(w, i), 1) /\ Advance(Pos(w, i), 2) = Pos(Pos(w, i), 2)
  BY <1>1, <1>2, Advances DEF Lap
<1>5. i < 30 => Pos(Pos(w, i), 1) = Pos(w, i + 1)
  BY <1>1 DEF Pos, Lap, Position
<1>6. i < 29 => Pos(Pos(w, i), 2) = Pos(w, i + 2)
  BY <1>1 DEF Pos, Lap, Position
<1> QED
  BY <1>2, <1>3, <1>4, <1>5, <1>6

LEMMA OneMore ==
  ASSUME DriverSizes, NEW w \in Position, NEW m \in 0 .. 14, NEW q, Laid(q, w, m)
  PROVE  Laid(ControlOut(q, "set_protocol"), w, m + 1)
<1> DEFINE r == ControlOut(q, "set_protocol")
           at == Pos(w, m + m)
           issuer == Pos(w, m + m + 1)
<1>1. q \in Pipes /\ q.write_index = at /\ MapSize \in Nat /\ MapSize >= 15
  BY DeviceAssumption DEF Laid, DriverSizes
<1>2. m + m \in 0 .. 30 /\ m + m < 29 /\ m + m + 1 \in 0 .. 30
  OBVIOUS
<1>3. /\ at \in Position /\ issuer \in Position /\ at # issuer
      /\ Advance(at, 1) = issuer /\ Advance(at, 2) = Pos(w, m + m + 2)
  BY <1>2, Positions
<1>4. /\ r.ring = [q.ring EXCEPT ![at] = "set_protocol", ![issuer] = "Status"]
      /\ r.write_index = Pos(w, m + m + 2)
      /\ r.setup_stage_map = Put(q.setup_stage_map, [issuer |-> issuer, setup |-> at])
      /\ r.under_way = Append(q.under_way,
                         [issuer |-> issuer, request |-> "set_protocol", trbs |-> 2])
  BY <1>1, <1>3 DEF ControlOut
<1>5. r \in Pipes
  BY <1>1, ControlOutType DEF Request
<1>6. \A k \in 1 .. m : q.setup_stage_map[k] # Free
  <2> SUFFICES ASSUME NEW k \in 1 .. m PROVE q.setup_stage_map[k] # Free
    OBVIOUS
  <2>1. k + k - 1 \in 0 .. 30 /\ k + k - 2 \in 0 .. 30
    OBVIOUS
  <2>2. q.setup_stage_map[k] = [issuer |-> Pos(w, k + k - 1), setup |-> Pos(w, k + k - 2)]
    BY DEF Laid
  <2>3. q.setup_stage_map[k] \in Entry
    BY <2>1, <2>2, Positions DEF Entry
  <2> QED
    BY <2>3, FreeIsNoEntry
<1>7. r.setup_stage_map = [q.setup_stage_map EXCEPT ![m + 1] = [issuer |-> issuer, setup |-> at]]
  <2>1. q.setup_stage_map \in Maps /\ [issuer |-> issuer, setup |-> at] \in Entry
    BY <1>1, <1>3, PipeFields DEF Entry
  <2>2. \A k \in 1 .. MapSize : q.setup_stage_map[k] = Free <=> m < k
    BY <1>1, <1>6 DEF Laid
  <2>3. m \in Nat /\ m < MapSize
    BY <1>1
  <2> HIDE DEF at, issuer
  <2> QED
    BY <1>4, <2>1, <2>2, <2>3, PutInOrder
<1> HIDE DEF r
<1>8. \A k \in 1 .. MapSize :
        r.setup_stage_map[k] = IF k = m + 1 THEN [issuer |-> issuer, setup |-> at]
                               ELSE q.setup_stage_map[k]
  BY <1>1, <1>7, PipeFields DEF Maps
<1>9. /\ Len(r.under_way) = m + 1
      /\ \A k \in 1 .. m : r.under_way[k] = q.under_way[k]
      /\ r.under_way[m + 1] = [issuer |-> issuer, request |-> "set_protocol", trbs |-> 2]
  <2>1. q.under_way \in Seq(Transfer) /\ Len(q.under_way) = m
    BY <1>1, PipeFields DEF Laid
  <2> QED
    BY <1>4, <2>1, AppendProperties
<1>10. \A k \in Position :
         r.ring[k] = IF k = issuer THEN "Status" ELSE IF k = at THEN "set_protocol" ELSE q.ring[k]
  BY <1>1, <1>3, <1>4, PipeFields
<1>11. ASSUME NEW k \in 1 .. m + 1
       PROVE  /\ r.under_way[k] =
                   [issuer |-> Pos(w, k + k - 1), request |-> "set_protocol", trbs |-> 2]
              /\ r.setup_stage_map[k] = [issuer |-> Pos(w, k + k - 1), setup |-> Pos(w, k + k - 2)]
              /\ r.ring[Pos(w, k + k - 2)] = "set_protocol"
  <2>1. CASE k = m + 1
    <3>1. Pos(w, k + k - 1) = issuer /\ Pos(w, k + k - 2) = at
      BY <2>1
    <3>2. r.under_way[k] = [issuer |-> issuer, request |-> "set_protocol", trbs |-> 2]
      BY <1>9, <2>1
    <3>3. r.setup_stage_map[k] = [issuer |-> issuer, setup |-> at]
      BY <1>1, <1>8, <2>1
    <3>4. r.ring[at] = "set_protocol"
      BY <1>3, <1>10
    <3> QED
      BY <3>1, <3>2, <3>3, <3>4
  <2>2. CASE k \in 1 .. m
    <3>1. k + k - 2 \in 0 .. 30 /\ k + k - 2 # m + m + 1 /\ k \in 1 .. MapSize /\ k # m + 1
      <4>1. k \in Nat /\ 1 <= k /\ k <= m /\ m <= 14
        BY <2>2
      <4>2. k <= MapSize
        BY <1>1, <4>1
      <4> QED
        BY <1>1, <4>1, <4>2
    <3>2. Pos(w, k + k - 2) \in Position /\ Pos(w, k + k - 2) # issuer
      BY <1>2, <3>1, Positions
    <3>3. r.ring[Pos(w, k + k - 2)] = "set_protocol"
      BY <1>10, <2>2, <3>2 DEF Laid
    <3> QED
      BY <1>8, <1>9, <2>2, <3>1, <3>3 DEF Laid
  <2> QED
    BY <2>1, <2>2
<1>12. \A k \in 1 .. MapSize : k > m + 1 => r.setup_stage_map[k] = Free
  BY <1>8 DEF Laid
<1>13. m + 1 + (m + 1) = m + m + 2
  OBVIOUS
<1> QED
  BY <1>4, <1>5, <1>9, <1>11, <1>12, <1>13 DEF Laid, r

LEMMA SetProtocolLays ==
  ASSUME DriverSizes, NEW p \in Pipes, NEW n \in Nat, n <= 15, p.under_way = <<>>,
         \A k \in 1 .. MapSize : p.setup_stage_map[k] = Free
  PROVE  Laid(SetProtocol(p, n), p.write_index, n)
<1> DEFINE w == p.write_index
<1>1. PICK f : /\ f[0] = p /\ f[n] = SetProtocol(p, n)
               /\ \A k \in 1 .. n : f[k] = ControlOut(f[k - 1], "set_protocol")
  BY SetProtocolIssues
<1>2. w \in Position
  BY PipeFields
<1> DEFINE Bad == {k \in 0 .. n : ~Laid(f[k], w, k)}
<1>3. Bad = {}
  <2> SUFFICES ASSUME Bad # {} PROVE FALSE
    OBVIOUS
  <2>1. PICK m \in Bad : \A k \in Bad : m <= k
    <3>1. Bad \in SUBSET Nat
      OBVIOUS
    <3> HIDE DEF Bad
    <3> QED
      BY <3>1, LeastNat
  <2>2. m # 0
    <3>1. Pos(w, 0 + 0) = w
      BY <1>2, DeviceAssumption DEF Pos, Lap, Position
    <3>2. Laid(p, w, 0)
      BY <3>1 DEF Laid
    <3> QED
      BY <1>1, <3>2
  <2>3. m - 1 \in 0 .. 14 /\ m - 1 \in 0 .. n /\ ~(m <= m - 1) /\ m - 1 + 1 = m /\ m \in 1 .. n
    <3>1. m \in 0 .. n
      OBVIOUS
    <3> HIDE DEF w, Bad
    <3> QED
      BY <2>2, <3>1
  <2>4. Laid(f[m - 1], w, m - 1)
    BY <2>1, <2>3
  <2>5. f[m] = ControlOut(f[m - 1], "set_protocol")
    BY <1>1, <2>3
  <2>6. Laid(f[m], w, m)
    <3> HIDE DEF w, Bad
    <3> QED
      BY <1>2, <2>3, <2>4, <2>5, OneMore
  <2> QED
    BY <2>6
<1>4. n \in 0 .. n
  OBVIOUS
<1> QED
  BY <1>1, <1>3, <1>4

-----------------------------------------------------------------------------
(* What the driver reads of a configuration.                               *)

LEMMA OffsetAt ==
  ASSUME NEW c \in Seq(Descriptor)
  PROVE  /\ Offset(c)[1] = 0
         /\ \A k \in 1 .. Len(c) : Offset(c)[k + 1] = Offset(c)[k] + c[k].length
<1> DEFINE Eq(f, m) ==
             f = [k \in 1 .. m + 1 |-> IF k = 1 THEN 0 ELSE f[k - 1] + c[k - 1].length]
           Missing == {m \in Nat : ~\E f : Eq(f, m)}
<1>1. Missing = {}
  <2> SUFFICES ASSUME Missing # {} PROVE FALSE
    OBVIOUS
  <2>1. PICK m \in Missing : \A k \in Missing : m <= k
    BY LeastNat
  <2>2. m # 0
    <3> DEFINE f == [k \in 1 .. 0 + 1 |-> 0]
    <3>1. Eq(f, 0)
      OBVIOUS
    <3> QED
      BY <3>1
  <2>3. PICK f : Eq(f, m - 1)
    <3>1. m - 1 \in Nat /\ ~(m <= m - 1)
      BY <2>2
    <3> HIDE DEF Eq
    <3> QED
      BY <2>1, <3>1
  <2> DEFINE g == [k \in 1 .. m + 1 |-> IF k = m + 1 THEN f[m] + c[m].length ELSE f[k]]
  <2>4. ASSUME NEW k \in 1 .. m + 1
        PROVE  g[k] = IF k = 1 THEN 0 ELSE g[k - 1] + c[k - 1].length
    <3>1. CASE k = m + 1
      BY <2>2, <3>1
    <3>2. CASE k # m + 1
      <4>1. k \in 1 .. (m - 1) + 1 /\ (k # 1 => k - 1 \in 1 .. m + 1 /\ k - 1 # m + 1)
        BY <3>2
      <4>2. f[k] = IF k = 1 THEN 0 ELSE f[k - 1] + c[k - 1].length
        BY <2>3, <4>1
      <4> QED
        BY <3>2, <4>1, <4>2
    <3> QED
      BY <3>1, <3>2
  <2>5. Eq(g, m)
    <3> HIDE DEF g
    <3>1. g = [k \in 1 .. m + 1 |-> g[k]]
      BY DEF g
    <3> QED
      BY <2>4, <3>1
  <2> QED
    BY <2>5
<1> DEFINE h == CHOOSE f : Eq(f, Len(c))
<1>2. Len(c) \in Nat
  OBVIOUS
<1>3. Eq(h, Len(c))
  <2> HIDE DEF Eq
  <2> QED
    BY <1>1, <1>2
<1>4. Offset(c) = h
  BY DEF Offset
<1> HIDE DEF h
<1>5. h[1] = 0
  BY <1>2, <1>3
<1>6. ASSUME NEW k \in 1 .. Len(c) PROVE h[k + 1] = h[k] + c[k].length
  <2>1. k + 1 \in 1 .. Len(c) + 1 /\ k + 1 # 1 /\ k + 1 - 1 = k
    BY <1>2
  <2> QED
    BY <1>3, <2>1
<1> QED
  BY <1>4, <1>5, <1>6

LEMMA Lengths ==
  ASSUME NEW d \in Descriptor
  PROVE  /\ d.length \in Nat /\ d.length > 0
         /\ d.type \in {"other", "interface", "endpoint"}
         /\ d.type = "endpoint" => d.conf \in Endpoint
         /\ d.type = "interface" => d.num_endpoints \in Nat
BY DEF Descriptor

LEMMA OffsetsGrow ==
  ASSUME NEW c \in Seq(Descriptor)
  PROVE  /\ \A k \in 1 .. Len(c) + 1 : Offset(c)[k] \in Nat
         /\ \A k \in 1 .. Len(c) : Offset(c)[k] < Offset(c)[Len(c) + 1]
<1>1. Len(c) \in Nat
  OBVIOUS
<1>2. \A k \in 1 .. Len(c) : c[k].length \in Nat /\ c[k].length > 0
  <2> SUFFICES ASSUME NEW k \in 1 .. Len(c) PROVE c[k].length \in Nat /\ c[k].length > 0
    OBVIOUS
  <2>1. c[k] \in Descriptor
    OBVIOUS
  <2> QED
    BY <2>1, Lengths
<1> DEFINE at == Offset(c)
           Bad == {k \in 1 .. Len(c) + 1 : at[k] \notin Nat}
<1>3. at[1] = 0 /\ \A k \in 1 .. Len(c) : at[k + 1] = at[k] + c[k].length
  BY OffsetAt
<1> HIDE DEF at
<1>4. Bad = {}
  <2> SUFFICES ASSUME Bad # {} PROVE FALSE
    OBVIOUS
  <2>1. PICK m \in Bad : \A k \in Bad : m <= k
    <3>1. Bad \in SUBSET Nat
      OBVIOUS
    <3> HIDE DEF Bad
    <3> QED
      BY <3>1, LeastNat
  <2>2. m # 1
    BY <1>3
  <2>3. m - 1 \in 1 .. Len(c) /\ m - 1 + 1 = m /\ m - 1 \in 1 .. Len(c) + 1 /\ ~(m <= m - 1)
    BY <1>1, <2>2
  <2>4. at[m - 1] \in Nat
    BY <2>1, <2>3
  <2>5. at[m] = at[m - 1] + c[m - 1].length
    BY <1>3, <2>3
  <2> QED
    BY <1>2, <2>3, <2>4, <2>5
<1> DEFINE end == Len(c) + 1
           Low == {d \in Nat : d \in 1 .. Len(c) /\ ~(at[end - d] < at[end])}
<1>5. Low = {}
  <2> SUFFICES ASSUME Low # {} PROVE FALSE
    OBVIOUS
  <2>1. PICK d \in Low : \A k \in Low : d <= k
    <3>1. Low \in SUBSET Nat
      OBVIOUS
    <3> HIDE DEF Low
    <3> QED
      BY <3>1, LeastNat
  <2> DEFINE j == end - d
  <2>2. d \in 1 .. Len(c) /\ j \in 1 .. Len(c) /\ j + 1 = end - (d - 1) /\ j + 1 \in 1 .. Len(c) + 1
    BY <1>1
  <2>3. at[j + 1] = at[j] + c[j].length /\ at[j] \in Nat /\ at[j + 1] \in Nat /\ at[end] \in Nat
    <3>1. end \in 1 .. Len(c) + 1 /\ j \in 1 .. Len(c) + 1
      BY <1>1, <2>2
    <3> QED
      BY <1>3, <1>4, <2>2, <3>1
  <2>4. at[j] < at[j + 1]
    BY <1>2, <2>2, <2>3
  <2>5. CASE d = 1
    <3>1. j + 1 = end
      BY <1>1, <2>5
    <3> QED
      BY <2>1, <2>4, <3>1
  <2>6. CASE d # 1
    <3>1. d - 1 \in Nat /\ d - 1 \in 1 .. Len(c) /\ ~(d <= d - 1)
      BY <1>1, <2>2, <2>6
    <3>2. at[end - (d - 1)] < at[end]
      BY <2>1, <3>1
    <3>3. at[j] < at[end]
      <4> HIDE DEF j, end
      <4> QED
        BY <2>2, <2>3, <2>4, <3>2
    <3> QED
      BY <2>1, <3>3
  <2> QED
    BY <2>5, <2>6
<1>6. ASSUME NEW k \in 1 .. Len(c) PROVE at[k] < at[end]
  <2>1. end - k \in Nat /\ end - k \in 1 .. Len(c) /\ end - (end - k) = k
    BY <1>1
  <2> QED
    BY <1>5, <2>1
<1> QED
  BY <1>4, <1>6 DEF at

\* The driver sees a part of the configuration from its beginning on, all of it
\* if it fits.
LEMMA SeenIsPrefix ==
  ASSUME NEW c \in Seq(Descriptor), c # <<>>
  PROVE  \E n \in 1 .. Len(c) : Seen(c) = SubSeq(c, 1, n) /\ (Fits(c) => n = Len(c))
<1> DEFINE start == Offset(c)
           len == Len(c)
           End(n) == (n > 0 => start[n] < BufSize) /\ (n < len => start[n + 1] >= BufSize)
           m == CHOOSE n \in 0 .. len : End(n)
<1>1. len \in Nat /\ len >= 1 /\ BufSize \in Nat /\ BufSize > 0
  BY BufSizeAssumption
<1>2. Seen(c) = SubSeq(c, 1, m)
  BY DEF Seen
<1>3. start[1] = 0 /\ (\A k \in 1 .. len + 1 : start[k] \in Nat)
      /\ \A k \in 1 .. len : start[k] < start[len + 1]
  BY OffsetAt, OffsetsGrow
<1> HIDE DEF len
<1>4. \E n \in 0 .. len : End(n)
  <2> DEFINE Stops == {n \in Nat : n \in 1 .. len /\ (n = len \/ start[n + 1] >= BufSize)}
  <2>1. len \in Stops
    BY <1>1
  <2>2. PICK n \in Stops : \A k \in Stops : n <= k
    <3>1. Stops \in SUBSET Nat /\ Stops # {}
      BY <2>1
    <3> HIDE DEF Stops
    <3> QED
      BY <3>1, LeastNat
  <2>3. n \in 1 .. len /\ (n < len => start[n + 1] >= BufSize)
    BY <1>1, <2>2
  <2>4. start[n] < BufSize
    <3>1. CASE n = 1
      BY <1>1, <1>3, <3>1
    <3>2. CASE n # 1
      <4>1. n - 1 \in 1 .. len /\ n - 1 \in Nat /\ n - 1 # len /\ ~(n <= n - 1) /\ n - 1 + 1 = n
        BY <1>1, <2>3, <3>2
      <4>2. ~(start[n] >= BufSize)
        BY <2>2, <4>1
      <4>3. start[n] \in Nat
        BY <1>1, <1>3, <2>3
      <4> QED
        BY <1>1, <4>2, <4>3
    <3> QED
      BY <3>1, <3>2
  <2>5. n \in 0 .. len /\ n > 0
    BY <1>1, <2>3
  <2> QED
    BY <2>3, <2>4, <2>5
<1>5. m \in 0 .. len /\ End(m)
  <2> HIDE DEF End
  <2> QED
    BY <1>4
<1> HIDE DEF m, start
<1>6. m \in 1 .. len
  <2>1. m # 0
    <3> SUFFICES ASSUME m = 0 PROVE FALSE
      OBVIOUS
    <3>1. start[1] >= BufSize
      BY <1>1, <1>5
    <3> QED
      BY <1>1, <1>3, <3>1
  <2> QED
    BY <1>1, <1>5, <2>1
<1>7. ASSUME Fits(c) PROVE m = len
  <2> SUFFICES ASSUME m < len PROVE FALSE
    BY <1>1, <1>6
  <2>1. start[m + 1] >= BufSize
    BY <1>5
  <2>2. m + 1 \in 1 .. len /\ m + 1 \in 1 .. len + 1 /\ len + 1 \in 1 .. len + 1
    BY <1>1, <1>6
  <2>3. start[m + 1] < start[len + 1] /\ start[m + 1] \in Nat /\ start[len + 1] \in Nat
    BY <1>3, <2>2
  <2>4. start[len + 1] <= BufSize
    BY <1>7 DEF Fits, start, len
  <2> QED
    BY <1>1, <2>1, <2>3, <2>4
<1> QED
  BY <1>2, <1>6, <1>7 DEF len

LEMMA ReadFromFirst ==
  ASSUME NEW c \in Seq(Descriptor), NEW n \in 1 .. Len(c), Seen(c) = SubSeq(c, 1, n)
  PROVE  \E f : /\ f[1] = Nothing /\ f[n] = ReadConfiguration(c)
                /\ \A k \in 2 .. n : f[k] = Read(f[k - 1], c[k])
<1> DEFINE seen == Seen(c)
           Eq(f, m) ==
             f = [k \in 1 .. m |-> IF k = 1 THEN Nothing ELSE Read(f[k - 1], seen[k])]
           Missing == {m \in Nat : ~\E f : Eq(f, m)}
<1> HIDE DEF seen
<1>1. Missing = {}
  <2> SUFFICES ASSUME Missing # {} PROVE FALSE
    OBVIOUS
  <2>1. PICK m \in Missing : \A k \in Missing : m <= k
    BY LeastNat
  <2>2. m # 0
    <3> DEFINE f == [k \in 1 .. 0 |-> Nothing]
    <3>1. Eq(f, 0)
      OBVIOUS
    <3> QED
      BY <3>1
  <2>3. PICK f : Eq(f, m - 1)
    <3>1. m - 1 \in Nat /\ ~(m <= m - 1)
      BY <2>2
    <3> HIDE DEF Eq
    <3> QED
      BY <2>1, <3>1
  <2> DEFINE g == [k \in 1 .. m |-> IF k = m THEN IF m = 1 THEN Nothing
                                                  ELSE Read(f[m - 1], seen[m])
                                    ELSE f[k]]
  <2>4. ASSUME NEW k \in 1 .. m
        PROVE  g[k] = IF k = 1 THEN Nothing ELSE Read(g[k - 1], seen[k])
    <3>1. CASE k = m
      BY <2>2, <3>1
    <3>2. CASE k # m
      <4>1. k \in 1 .. m - 1 /\ (k # 1 => k - 1 \in 1 .. m /\ k - 1 # m)
        BY <3>2
      <4>2. f[k] = IF k = 1 THEN Nothing ELSE Read(f[k - 1], seen[k])
        BY <2>3, <4>1
      <4> QED
        BY <3>2, <4>1, <4>2
    <3> QED
      BY <3>1, <3>2
  <2>5. Eq(g, m)
    <3> HIDE DEF g
    <3>1. g = [k \in 1 .. m |-> g[k]]
      BY DEF g
    <3> QED
      BY <2>4, <3>1
  <2> QED
    BY <2>5
<1> DEFINE h == CHOOSE f : Eq(f, Len(seen))
<1>2. Len(seen) = n /\ n \in Nat /\ n >= 1 /\ \A k \in 1 .. n : seen[k] = c[k]
  BY DEF seen
<1>3. Eq(h, n)
  <2> HIDE DEF Eq
  <2> QED
    BY <1>1, <1>2
<1>4. ReadConfiguration(c) = h[n]
  BY <1>2 DEF ReadConfiguration, seen
<1> HIDE DEF h
<1>5. h[1] = Nothing
  BY <1>2, <1>3
<1>6. ASSUME NEW k \in 2 .. n PROVE h[k] = Read(h[k - 1], c[k])
  <2>1. k \in 1 .. n /\ k # 1
    BY <1>2
  <2> QED
    BY <1>2, <1>3, <2>1
<1> QED
  BY <1>4, <1>5, <1>6

Upto(S, j) == {e \in S : e <= j}
Rank(S, j) == Cardinality(Upto(S, j))

LEMMA Ranks ==
  ASSUME NEW n \in Nat, NEW S \in SUBSET (1 .. n), NEW j \in Nat
  PROVE  /\ Cardinality(S) \in Nat /\ Rank(S, j) \in 0 .. Cardinality(S)
         /\ Rank(S, j) = Cardinality(S) => Upto(S, j) = S
         /\ j + 1 \notin S => Upto(S, j + 1) = Upto(S, j)
         /\ j + 1 \in S => /\ Upto(S, j + 1) = Upto(S, j) \cup {j + 1}
                           /\ Rank(S, j + 1) = Rank(S, j) + 1
<1>0. n \in Int /\ 1 \in Int /\ \A e \in S : e \in Nat
  OBVIOUS
<1>1. IsFiniteSet(S)
  BY <1>0, FS_Interval, FS_Subset
<1>2. Upto(S, j) \in SUBSET S
  BY DEF Upto
<1>3. /\ IsFiniteSet(Upto(S, j)) /\ Cardinality(Upto(S, j)) <= Cardinality(S)
      /\ Cardinality(S) = Cardinality(Upto(S, j)) => S = Upto(S, j)
  BY <1>1, <1>2, FS_Subset
<1>4. Cardinality(S) \in Nat /\ Cardinality(Upto(S, j)) \in Nat
  BY <1>1, <1>3, FS_CardinalityType
<1>9. \A e \in S : e <= j + 1 <=> e <= j \/ e = j + 1
  BY <1>0
<1>5. j + 1 \notin S => Upto(S, j + 1) = Upto(S, j)
  BY <1>9 DEF Upto
<1>6. j + 1 \in S => Upto(S, j + 1) = Upto(S, j) \cup {j + 1}
  BY <1>9 DEF Upto
<1>7. j + 1 \notin Upto(S, j)
  BY DEF Upto
<1>8. Cardinality(Upto(S, j) \cup {j + 1}) = Cardinality(Upto(S, j)) + 1
  BY <1>3, <1>7, FS_AddElement
<1> QED
  BY <1>3, <1>4, <1>5, <1>6, <1>8 DEF Rank

FoundSoFar == [driver : Drivers, wanted : Nat, endpoints : Seq(Endpoint)]

\* What the driver has found once it has looked at the descriptors up to j.
NothingYet(c, j, read) ==
  read = Nothing /\ \A i \in InterfacesOf(c) : i <= j => NewClassDriver(c[i]) = "none"

TakenOf(c, k, j, read) ==
  LET eps == EndpointsOf(c, k) IN
    /\ k \in Driven(c) /\ k <= j
    /\ read \in FoundSoFar /\ read.driver = NewClassDriver(c[k])
    /\ Len(read.endpoints) = Rank(eps, j) /\ read.wanted + Rank(eps, j) = Cardinality(eps)
    /\ \A i \in Upto(eps, j) : read.endpoints[Rank(eps, i)] = c[i].conf
    /\ \A m \in 1 .. Rank(eps, j) : \E i \in Upto(eps, j) : Rank(eps, i) = m

LEMMA EndpointsFollow ==
  ASSUME NEW c \in Seq(Descriptor), NEW k \in InterfacesOf(c)
  PROVE  /\ EndpointsOf(c, k) \in SUBSET (1 .. Len(c)) /\ Len(c) \in Nat /\ k \in 1 .. Len(c)
         /\ \A i \in EndpointsOf(c, k) : k < i /\ c[i].type = "endpoint"
BY DEF EndpointsOf, InterfacesOf

LEMMA FirstDriver ==
  ASSUME NEW c \in Seq(Descriptor), WellFormed(c), NEW j \in Nat, j + 1 \in InterfacesOf(c),
         NEW read, NothingYet(c, j, read), NewClassDriver(c[j + 1]) # "none"
  PROVE  TakenOf(c, j + 1, j + 1, Read(read, c[j + 1]))
<1> DEFINE k == j + 1
           eps == EndpointsOf(c, k)
           next == Read(read, c[k])
<1>1. k \in Driven(c) /\ c[k].type = "interface" /\ k \in 1 .. Len(c)
  BY EndpointsFollow DEF NothingYet, Driven, InterfacesOf
<1>2. next = [driver |-> NewClassDriver(c[k]), wanted |-> c[k].num_endpoints, endpoints |-> <<>>]
  BY <1>1 DEF Read, NothingYet, Nothing
<1>3. c[k] \in Descriptor
  BY <1>1
<1>4. c[k].num_endpoints \in Nat /\ NewClassDriver(c[k]) \in Drivers
  BY <1>1, <1>3, Lengths DEF NewClassDriver, Drivers
<1>5. c[k].num_endpoints = Cardinality(eps)
  BY DEF WellFormed
<1>6. Upto(eps, k) = {}
  BY <1>1, EndpointsFollow DEF Upto
<1>7. Rank(eps, k) = 0
  BY <1>6, FS_EmptySet DEF Rank
<1> HIDE DEF k, eps, next
<1>8. next \in FoundSoFar /\ next.driver = NewClassDriver(c[k]) /\ Len(next.endpoints) = 0
      /\ next.wanted = Cardinality(eps) /\ Cardinality(eps) \in Nat
  BY <1>2, <1>4, <1>5 DEF FoundSoFar
<1>9. k \in Nat
  BY DEF k
<1> QED
  BY <1>1, <1>6, <1>7, <1>8, <1>9 DEF TakenOf, k, eps, next

LEMMA NextEndpoint ==
  ASSUME NEW c \in Seq(Descriptor), WellFormed(c), NEW j \in Nat, j + 1 \in 1 .. Len(c),
         NEW k \in 1 .. Len(c), NEW read, TakenOf(c, k, j, read)
  PROVE  TakenOf(c, k, j + 1, Read(read, c[j + 1]))
<1> DEFINE eps == EndpointsOf(c, k)
           d == c[j + 1]
           next == Read(read, d)
<1>1. k \in Driven(c) /\ k <= j /\ k \in InterfacesOf(c) /\ NewClassDriver(c[k]) # "none"
  BY DEF TakenOf, Driven
<1>2. eps \in SUBSET (1 .. Len(c)) /\ Len(c) \in Nat
      /\ \A i \in eps : k < i /\ c[i].type = "endpoint"
  BY <1>1, EndpointsFollow
<1>3. read \in FoundSoFar /\ read.driver = NewClassDriver(c[k])
      /\ Len(read.endpoints) = Rank(eps, j) /\ read.wanted + Rank(eps, j) = Cardinality(eps)
      /\ (\A i \in Upto(eps, j) : read.endpoints[Rank(eps, i)] = c[i].conf)
      /\ \A m \in 1 .. Rank(eps, j) : \E i \in Upto(eps, j) : Rank(eps, i) = m
  BY DEF TakenOf
<1>4. read.driver # "none" /\ read.wanted \in Nat /\ read.endpoints \in Seq(Endpoint)
      /\ read = [driver |-> read.driver, wanted |-> read.wanted, endpoints |-> read.endpoints]
  BY <1>1, <1>3 DEF FoundSoFar
<1>5. /\ Cardinality(eps) \in Nat /\ Rank(eps, j) \in 0 .. Cardinality(eps)
      /\ Rank(eps, j) = Cardinality(eps) => Upto(eps, j) = eps
      /\ j + 1 \notin eps => Upto(eps, j + 1) = Upto(eps, j)
      /\ j + 1 \in eps => /\ Upto(eps, j + 1) = Upto(eps, j) \cup {j + 1}
                          /\ Rank(eps, j + 1) = Rank(eps, j) + 1
  BY <1>2, Ranks
<1>6. d \in Descriptor
  OBVIOUS
<1>7. CASE read.wanted > 0 /\ d.type = "endpoint"
  <2>1. next = [driver |-> read.driver, wanted |-> read.wanted - 1,
                endpoints |-> Append(read.endpoints, d.conf)]
    BY <1>4, <1>7 DEF Read
  <2>2. j + 1 \in eps
    <3>1. Upto(eps, j) # eps
      <4> SUFFICES ASSUME Upto(eps, j) = eps PROVE FALSE
        OBVIOUS
      <4>1. Rank(eps, j) = Cardinality(eps)
        BY DEF Rank
      <4> QED
        BY <1>3, <1>4, <1>5, <1>7, <4>1
    <3>2. PICK e \in eps : ~(e <= j)
      BY <3>1 DEF Upto
    <3>3. e \in Nat /\ j + 1 <= e
      BY <1>2, <3>2
    <3>4. \A i \in InterfacesOf(c) : i <= k \/ i > e
      BY <3>2 DEF EndpointsOf
    <3>5. \A i \in InterfacesOf(c) : i <= k \/ i > j + 1
      <4>1. \A i \in InterfacesOf(c) : i \in Nat
        BY DEF InterfacesOf
      <4> QED
        BY <3>3, <3>4, <4>1
    <3>6. j + 1 > k /\ j + 1 \in DOMAIN c
      BY <1>1
    <3> QED
      BY <1>7, <3>5, <3>6 DEF EndpointsOf
  <2>3. d.conf \in Endpoint
    BY <1>6, <1>7, Lengths
  <2>4. /\ Append(read.endpoints, d.conf) \in Seq(Endpoint)
        /\ Len(Append(read.endpoints, d.conf)) = Rank(eps, j) + 1
        /\ Append(read.endpoints, d.conf)[Rank(eps, j) + 1] = d.conf
        /\ \A m \in 1 .. Rank(eps, j) :
             Append(read.endpoints, d.conf)[m] = read.endpoints[m]
    <3>1. read.endpoints \in Seq(Endpoint) /\ Len(read.endpoints) = Rank(eps, j)
      BY <1>3, <1>4
    <3> HIDE DEF d, eps
    <3> QED
      BY <2>3, <3>1, AppendProperties
  <2> HIDE DEF next
  <2>5. next \in FoundSoFar /\ next.driver = NewClassDriver(c[k])
        /\ Len(next.endpoints) = Rank(eps, j + 1)
        /\ next.wanted + Rank(eps, j + 1) = Cardinality(eps)
    <3>1. read.wanted - 1 \in Nat /\ read.driver \in Drivers
      BY <1>3, <1>4, <1>7 DEF FoundSoFar
    <3>2. next \in FoundSoFar
      BY <2>1, <2>4, <3>1 DEF FoundSoFar
    <3> HIDE DEF eps, d
    <3> QED
      BY <1>3, <1>4, <1>5, <2>1, <2>2, <2>4, <3>2
  <2>6. ASSUME NEW i \in Upto(eps, j + 1) PROVE next.endpoints[Rank(eps, i)] = c[i].conf
    <3>1. CASE i = j + 1
      BY <1>5, <2>1, <2>2, <2>4, <3>1
    <3>2. CASE i # j + 1
      <4>1. i \in Upto(eps, j)
        BY <1>5, <2>2, <3>2
      <4>2. Rank(eps, i) \in 1 .. Rank(eps, j)
        <5>1. i \in eps /\ i \in Nat /\ i <= j
          BY <1>2, <4>1 DEF Upto
        <5>2. i \in Upto(eps, i) /\ Upto(eps, i) \in SUBSET Upto(eps, j)
          BY <1>2, <5>1 DEF Upto
        <5>3. IsFiniteSet(Upto(eps, j))
          <6>1. IsFiniteSet(1 .. Len(c)) /\ Upto(eps, j) \in SUBSET (1 .. Len(c))
            <7>1. Len(c) \in Int /\ 1 \in Int
              BY <1>2
            <7> QED
              BY <1>2, <7>1, FS_Interval DEF Upto
          <6> QED
            BY <6>1, FS_Subset
        <5>4. IsFiniteSet(Upto(eps, i)) /\ Cardinality(Upto(eps, i)) <= Cardinality(Upto(eps, j))
          BY <5>2, <5>3, FS_Subset
        <5>5. Cardinality(Upto(eps, i)) \in Nat /\ Cardinality(Upto(eps, i)) # 0
          BY <5>2, <5>4, FS_CardinalityType, FS_EmptySet
        <5>6. Cardinality(Upto(eps, j)) \in Nat
          BY <5>3, FS_CardinalityType
        <5> QED
          BY <5>4, <5>5, <5>6 DEF Rank
      <4> QED
        BY <1>3, <2>1, <2>4, <4>1, <4>2
    <3> QED
      BY <3>1, <3>2
  <2>7. ASSUME NEW m \in 1 .. Rank(eps, j + 1)
        PROVE  \E i \in Upto(eps, j + 1) : Rank(eps, i) = m
    <3>1. CASE m = Rank(eps, j) + 1
      <4>1. j + 1 \in Upto(eps, j + 1) /\ Rank(eps, j + 1) = m
        BY <1>5, <2>2, <3>1
      <4> QED
        BY <4>1
    <3>2. CASE m # Rank(eps, j) + 1
      <4>1. m \in 1 .. Rank(eps, j)
        BY <1>5, <2>2, <3>2
      <4> QED
        BY <1>3, <1>5, <2>2, <4>1
    <3> QED
      BY <3>1, <3>2
  <2>8. k <= j + 1
    BY <1>1
  <2> QED
    BY <1>1, <2>5, <2>6, <2>7, <2>8 DEF TakenOf, next
<1>8. CASE ~(read.wanted > 0 /\ d.type = "endpoint")
  <2>1. next = read
    BY <1>4, <1>8 DEF Read
  <2>2. j + 1 \notin eps
    <3>1. CASE d.type # "endpoint"
      BY <1>2, <3>1
    <3>2. CASE read.wanted = 0
      <4>1. Upto(eps, j) = eps
        BY <1>3, <1>5, <3>2
      <4>2. j + 1 \notin Upto(eps, j)
        BY DEF Upto
      <4> QED
        BY <4>1, <4>2
    <3> QED
      BY <1>4, <1>8, <3>1, <3>2
  <2>3. Upto(eps, j + 1) = Upto(eps, j) /\ Rank(eps, j + 1) = Rank(eps, j) /\ k <= j + 1
    BY <1>1, <1>5, <2>2 DEF Rank
  <2> HIDE DEF next
  <2> QED
    BY <1>1, <1>3, <2>1, <2>3 DEF TakenOf, next
<1> QED
  BY <1>7, <1>8

LEMMA WhatIsRead ==
  ASSUME NEW c \in Configurations
  PROVE  /\ c \in Seq(Descriptor) /\ WellFormed(c) /\ Reading[c] = ReadConfiguration(c)
         /\ \/ /\ Reading[c] = Nothing
               /\ Fits(c) => Driven(c) = {}
            \/ \E k \in Driven(c), n \in 1 .. Len(c) :
                 TakenOf(c, k, n, Reading[c]) /\ (Fits(c) => n = Len(c))
<1>1. c \in Seq(Descriptor) /\ WellFormed(c)
  BY DeviceAssumption
<1>2. c # <<>> /\ c[1].type = "other" /\ Len(c) \in Nat
  BY <1>1 DEF WellFormed
<1>3. PICK n \in 1 .. Len(c) : Seen(c) = SubSeq(c, 1, n) /\ (Fits(c) => n = Len(c))
  BY <1>1, <1>2, SeenIsPrefix
<1>4. PICK f : /\ f[1] = Nothing /\ f[n] = ReadConfiguration(c)
               /\ \A k \in 2 .. n : f[k] = Read(f[k - 1], c[k])
  BY <1>1, <1>3, ReadFromFirst
<1> DEFINE Good(j) == NothingYet(c, j, f[j]) \/ \E k \in Driven(c) : TakenOf(c, k, j, f[j])
           Bad == {j \in Nat : j \in 1 .. n /\ ~Good(j)}
<1>5. Bad = {}
  <2> SUFFICES ASSUME Bad # {} PROVE FALSE
    OBVIOUS
  <2>1. PICK m \in Bad : \A j \in Bad : m <= j
    <3>1. Bad \in SUBSET Nat
      OBVIOUS
    <3> HIDE DEF Bad
    <3> QED
      BY <3>1, LeastNat
  <2>2. m # 1
    <3>1. NothingYet(c, 1, f[1])
      <4> SUFFICES ASSUME NEW i \in InterfacesOf(c), i <= 1 PROVE FALSE
        BY <1>4 DEF NothingYet
      <4>1. i \in 1 .. Len(c) /\ c[i].type = "interface"
        BY <1>1 DEF InterfacesOf
      <4>2. i = 1
        BY <4>1
      <4> QED
        BY <1>2, <4>1, <4>2
    <3> QED
      BY <3>1
  <2> DEFINE j == m - 1
  <2>3. j \in Nat /\ j \in 1 .. n /\ ~(m <= j) /\ j + 1 = m /\ m \in 2 .. n /\ j + 1 \in 1 .. Len(c)
    BY <1>2, <1>3, <2>2
  <2>4. Good(j)
    BY <2>1, <2>3
  <2>5. f[m] = Read(f[j], c[j + 1])
    BY <1>4, <2>3
  <2> HIDE DEF j, Bad
  <2>6. CASE \E k \in Driven(c) : TakenOf(c, k, j, f[j])
    <3>1. PICK k \in Driven(c) : TakenOf(c, k, j, f[j])
      BY <2>6
    <3>2. k \in 1 .. Len(c)
      BY <1>1 DEF Driven, InterfacesOf
    <3>3. TakenOf(c, k, m, f[m])
      BY <1>1, <2>3, <2>5, <3>1, <3>2, NextEndpoint
    <3> QED
      BY <2>1, <3>1, <3>3 DEF Bad
  <2>7. CASE NothingYet(c, j, f[j])
    <3>1. CASE j + 1 \in InterfacesOf(c) /\ NewClassDriver(c[j + 1]) # "none"
      <4>1. TakenOf(c, m, m, f[m])
        BY <1>1, <2>3, <2>5, <2>7, <3>1, FirstDriver
      <4>2. m \in Driven(c)
        BY <4>1 DEF TakenOf
      <4> QED
        BY <2>1, <4>1, <4>2 DEF Bad
    <3>2. CASE ~(j + 1 \in InterfacesOf(c) /\ NewClassDriver(c[j + 1]) # "none")
      <4>1. f[m] = Nothing
        <5>1. f[j] = Nothing
          BY <2>7 DEF NothingYet
        <5>2. c[j + 1].type = "interface" => NewClassDriver(c[j + 1]) = "none"
          BY <1>1, <2>3, <3>2 DEF InterfacesOf
        <5> QED
          BY <2>5, <5>1, <5>2 DEF Read, Nothing
      <4>2. ASSUME NEW i \in InterfacesOf(c), i <= m PROVE NewClassDriver(c[i]) = "none"
        <5>1. i \in Nat
          BY <1>1 DEF InterfacesOf
        <5>2. i = j + 1 \/ i <= j
          BY <2>3, <4>2, <5>1
        <5> QED
          BY <2>7, <3>2, <5>2 DEF NothingYet
      <4> QED
        BY <2>1, <4>1, <4>2 DEF Bad, NothingYet
    <3> QED
      BY <3>1, <3>2
  <2> QED
    BY <2>4, <2>6, <2>7
<1>6. Good(n)
  <2>1. n \in Nat /\ n \in 1 .. n
    BY <1>2, <1>3
  <2> QED
    BY <1>5, <2>1
<1>7. Reading[c] = ReadConfiguration(c)
  BY DEF Reading
<1>8. CASE NothingYet(c, n, f[n])
  <2>1. Reading[c] = Nothing
    BY <1>4, <1>7, <1>8 DEF NothingYet
  <2>2. ASSUME Fits(c), NEW k \in Driven(c) PROVE FALSE
    <3>1. k \in InterfacesOf(c) /\ NewClassDriver(c[k]) # "none"
      BY DEF Driven
    <3>2. k <= n
      BY <1>1, <1>2, <1>3, <2>2, <3>1 DEF InterfacesOf
    <3> QED
      BY <1>8, <3>1, <3>2 DEF NothingYet
  <2> QED
    BY <1>1, <1>7, <2>1, <2>2
<1>9. CASE \E k \in Driven(c) : TakenOf(c, k, n, f[n])
  BY <1>1, <1>3, <1>4, <1>7, <1>9
<1> QED
  BY <1>6, <1>8, <1>9

LEMMA ReadingType ==
  ASSUME NEW c \in Configurations
  PROVE  Reading[c] \in FoundSoFar
<1>1. Nothing \in FoundSoFar
  BY DEF Nothing, FoundSoFar, Drivers
<1> QED
  BY <1>1, WhatIsRead DEF TakenOf

\* Unless the driver loses its way it has all endpoints of its interface.
LEMMA AllEndpoints ==
  ASSUME NEW c \in Configurations, ~Astray(Reading[c]), NEW k \in Driven(c),
         NEW n \in 1 .. Len(c), TakenOf(c, k, n, Reading[c])
  PROVE  /\ EndpointsOf(c, k) \in SUBSET (1 .. Len(c)) /\ Len(c) \in Nat
         /\ Rank(EndpointsOf(c, k), n) = Cardinality(EndpointsOf(c, k))
         /\ Upto(EndpointsOf(c, k), n) = EndpointsOf(c, k)
<1> DEFINE eps == EndpointsOf(c, k)
<1>1. c \in Seq(Descriptor)
  BY WhatIsRead
<1>2. eps \in SUBSET (1 .. Len(c)) /\ Len(c) \in Nat
  BY <1>1, EndpointsFollow DEF Driven
<1>3. Reading[c].wanted = 0
  <2>1. Reading[c].wanted \in Nat
    BY ReadingType DEF FoundSoFar
  <2> QED
    BY <2>1 DEF Astray
<1>4. Cardinality(eps) \in Nat /\ Rank(eps, n) \in 0 .. Cardinality(eps)
      /\ (Rank(eps, n) = Cardinality(eps) => Upto(eps, n) = eps)
  <2>1. n \in Nat
    BY <1>2
  <2> HIDE DEF eps
  <2> QED
    BY <1>2, <2>1, Ranks
<1>5. Reading[c].wanted + Rank(eps, n) = Cardinality(eps)
  BY DEF TakenOf
<1> QED
  BY <1>2, <1>3, <1>4, <1>5

\* A driver that has found its device has an endpoint to ask for reports.
LEMMA InterruptInFound ==
  ASSUME NEW c \in Configurations, ~Astray(Reading[c]), Reading[c].driver # "none"
  PROVE  \E m \in DOMAIN Reading[c].endpoints :
           Reading[c].endpoints[m].in /\ Reading[c].endpoints[m].interrupt
<1>1. PICK k \in Driven(c), n \in 1 .. Len(c) : TakenOf(c, k, n, Reading[c])
  BY WhatIsRead DEF Nothing
<1> DEFINE eps == EndpointsOf(c, k)
<1>2. PICK j \in eps : c[j].conf.in /\ c[j].conf.interrupt
  BY DeviceAssumption
<1>3. eps \in SUBSET (1 .. Len(c)) /\ Len(c) \in Nat /\ Rank(eps, n) = Cardinality(eps)
      /\ Upto(eps, n) = eps
  BY <1>1, AllEndpoints
<1>4. Reading[c].endpoints[Rank(eps, j)] = c[j].conf /\ Len(Reading[c].endpoints) = Rank(eps, n)
  BY <1>1, <1>3 DEF TakenOf
<1> HIDE DEF eps
<1>5. Rank(eps, j) \in 1 .. Rank(eps, n)
  <2>1. j \in Nat /\ j \in Upto(eps, j)
    BY <1>3 DEF Upto
  <2>2. Cardinality(eps) \in Nat /\ Rank(eps, j) \in 0 .. Cardinality(eps)
    BY <1>3, <2>1, Ranks
  <2>3. Rank(eps, j) # 0
    <3>1. IsFiniteSet(Upto(eps, j))
      <4>1. Upto(eps, j) \in SUBSET (1 .. Len(c))
        BY <1>3 DEF Upto
      <4>2. 1 \in Int /\ Len(c) \in Int
        BY <1>3
      <4>3. IsFiniteSet(1 .. Len(c))
        BY <4>2, FS_Interval
      <4> QED
        BY <4>1, <4>3, FS_Subset
    <3> QED
      BY <2>1, <3>1, FS_EmptySet DEF Rank
  <2> QED
    BY <1>3, <2>2, <2>3
<1>6. DOMAIN Reading[c].endpoints = 1 .. Len(Reading[c].endpoints)
  <2>1. Reading[c].endpoints \in Seq(Endpoint)
    BY ReadingType DEF FoundSoFar
  <2> QED
    BY <2>1
<1> QED
  BY <1>2, <1>4, <1>5, <1>6

\* Positions of a set that have the same rank are the same.
LEMMA RanksApart ==
  ASSUME NEW n \in Nat, NEW S \in SUBSET (1 .. n), NEW i \in S, NEW j \in S,
         Rank(S, i) = Rank(S, j)
  PROVE  i = j
<1>1. i \in Nat /\ j \in Nat /\ \A e \in S : e \in Nat
  OBVIOUS
<1>2. IsFiniteSet(Upto(S, i)) /\ IsFiniteSet(Upto(S, j))
  <2>1. 1 \in Int /\ n \in Int
    OBVIOUS
  <2>2. IsFiniteSet(1 .. n)
    BY <2>1, FS_Interval
  <2>3. Upto(S, i) \in SUBSET (1 .. n) /\ Upto(S, j) \in SUBSET (1 .. n)
    BY DEF Upto
  <2> QED
    BY <2>2, <2>3, FS_Subset
<1>3. i \in Upto(S, i) /\ j \in Upto(S, j)
  BY <1>1 DEF Upto
<1>4. CASE i <= j
  <2>1. Upto(S, i) \in SUBSET Upto(S, j)
    <3>1. \A e \in S : e <= i => e <= j
      BY <1>1, <1>4
    <3> QED
      BY <3>1 DEF Upto
  <2>2. Cardinality(Upto(S, j)) = Cardinality(Upto(S, i))
    BY DEF Rank
  <2>3. Upto(S, j) = Upto(S, i)
    BY <1>2, <2>1, <2>2, FS_Subset
  <2>4. j <= i
    BY <1>3, <2>3 DEF Upto
  <2> QED
    BY <1>1, <1>4, <2>4
<1>5. CASE j <= i
  <2>1. Upto(S, j) \in SUBSET Upto(S, i)
    <3>1. \A e \in S : e <= j => e <= i
      BY <1>1, <1>5
    <3> QED
      BY <3>1 DEF Upto
  <2>2. Cardinality(Upto(S, i)) = Cardinality(Upto(S, j))
    BY DEF Rank
  <2>3. Upto(S, i) = Upto(S, j)
    BY <1>2, <2>1, <2>2, FS_Subset
  <2>4. i <= j
    BY <1>3, <2>3 DEF Upto
  <2> QED
    BY <1>1, <1>5, <2>4
<1> QED
  BY <1>1, <1>4, <1>5

\* What fits into the buffer is read as the USB specification has it.
LEMMA UnderstoodIfFits ==
  ASSUME NEW c \in Configurations, Fits(c)
  PROVE  /\ ~Astray(Reading[c])
         /\ Reading[c].driver = Promised(c).driver
         /\ Reading[c].endpoints = Promised(c).endpoints
<1>1. CASE Reading[c] = Nothing /\ Driven(c) = {}
  BY <1>1 DEF Astray, Nothing, Promised
<1>2. CASE \E k \in Driven(c) : TakenOf(c, k, Len(c), Reading[c])
  <2>1. PICK k \in Driven(c) : TakenOf(c, k, Len(c), Reading[c])
    BY <1>2
  <2> DEFINE eps == EndpointsOf(c, k)
             read == Reading[c]
  <2>2. c \in Seq(Descriptor) /\ k \in InterfacesOf(c)
    BY WhatIsRead DEF Driven
  <2>3. eps \in SUBSET (1 .. Len(c)) /\ Len(c) \in Nat
    BY <2>2, EndpointsFollow
  <2>4. /\ read \in FoundSoFar /\ read.driver = NewClassDriver(c[k])
        /\ Len(read.endpoints) = Rank(eps, Len(c))
        /\ read.wanted + Rank(eps, Len(c)) = Cardinality(eps)
        /\ \A i \in Upto(eps, Len(c)) : read.endpoints[Rank(eps, i)] = c[i].conf
        /\ \A m \in 1 .. Rank(eps, Len(c)) : \E i \in Upto(eps, Len(c)) : Rank(eps, i) = m
    BY <2>1 DEF TakenOf
  <2>5. Upto(eps, Len(c)) = eps
    BY <2>3 DEF Upto
  <2>6. Rank(eps, Len(c)) = Cardinality(eps)
    BY <2>5 DEF Rank
  <2>7. read.wanted = 0
    <3>1. Cardinality(eps) \in Nat
      <4> HIDE DEF eps
      <4> QED
        BY <2>3, Ranks
    <3> QED
      BY <2>4, <2>6, <3>1 DEF FoundSoFar
  <2>8. Driven(c) = {k}
    <3>1. ASSUME NEW i \in Driven(c) PROVE i = k
      <4>1. i \in InterfacesOf(c) /\ i \in Nat /\ k \in Nat
        BY <2>2 DEF Driven, InterfacesOf
      <4> QED
        BY <4>1, <2>2 DEF Driven
    <3> QED
      BY <3>1
  <2>9. Promised(c) = [driver |-> NewClassDriver(c[k]), wanted |-> 0,
                       endpoints |-> [i \in 1 .. Cardinality(eps) |-> c[Nth(eps, i)].conf]]
    BY <2>8 DEF Promised
  <2> HIDE DEF eps, read
  <2>10. ASSUME NEW m \in 1 .. Cardinality(eps)
         PROVE  c[Nth(eps, m)].conf = read.endpoints[m]
    <3>1. PICK i \in eps : Rank(eps, i) = m
      BY <2>4, <2>5, <2>6
    <3>2. Nth(eps, m) \in eps /\ Rank(eps, Nth(eps, m)) = m
      BY <3>1 DEF Nth, Rank, Upto
    <3>3. Nth(eps, m) = i
      BY <2>3, <3>1, <3>2, RanksApart
    <3> QED
      BY <2>4, <2>5, <3>1, <3>3
  <2>11. read.endpoints = [i \in 1 .. Cardinality(eps) |-> c[Nth(eps, i)].conf]
    <3>1. read.endpoints \in Seq(Endpoint) /\ Len(read.endpoints) = Cardinality(eps)
      BY <2>4, <2>6 DEF FoundSoFar
    <3>2. read.endpoints = [m \in 1 .. Cardinality(eps) |-> read.endpoints[m]]
      BY <3>1
    <3> QED
      BY <2>10, <3>2
  <2> QED
    BY <2>4, <2>7, <2>9, <2>11 DEF Astray, read
<1> QED
  BY <1>1, <1>2, WhatIsRead

-----------------------------------------------------------------------------
(* What the driver knows of the device.                                    *)

LEMMA LastOf ==
  ASSUME NEW n \in Nat, NEW S \in SUBSET (1 .. n), S # {}
  PROVE  \E l \in S : \A j \in S : j <= l
<1> DEFINE T == {n - k : k \in S}
<1>1. T \in SUBSET Nat /\ T # {}
  <2>1. \A k \in S : n - k \in Nat
    OBVIOUS
  <2> QED
    BY <2>1
<1>2. PICK t \in T : \A u \in T : t <= u
  <2> HIDE DEF T
  <2> QED
    BY <1>1, LeastNat
<1>3. PICK l \in S : t = n - l
  BY <1>2
<1>4. ASSUME NEW j \in S PROVE j <= l
  <2>1. n - j \in T
    OBVIOUS
  <2>2. n - l <= n - j
    BY <1>2, <1>3, <2>1
  <2>3. j \in Nat /\ l \in Nat
    OBVIOUS
  <2> QED
    BY <2>2, <2>3
<1> QED
  BY <1>4

LEMMA NumbersType ==
  ASSUME NEW eps \in Seq(Endpoint)
  PROVE  /\ Numbers(eps) \subseteq 1 .. 15 /\ DOMAIN eps = 1 .. Len(eps)
         /\ \A k \in DOMAIN eps : eps[k] \in Endpoint /\ eps[k].num \in Numbers(eps)
         /\ IsFiniteSet(Numbers(eps)) /\ Cardinality(Numbers(eps)) \in 0 .. 15
<1>1. DOMAIN eps = 1 .. Len(eps)
  OBVIOUS
<1>2. \A k \in DOMAIN eps : eps[k] \in Endpoint
  BY <1>1
<1>3. Numbers(eps) \subseteq 1 .. 15 /\ \A k \in DOMAIN eps : eps[k].num \in Numbers(eps)
  BY <1>2 DEF Numbers, Endpoint
<1>4. IsFiniteSet(1 .. 15) /\ Cardinality(1 .. 15) = 15
  <2>1. 1 \in Int /\ 15 \in Int /\ ~(1 > 15) /\ 15 - 1 + 1 = 15
    OBVIOUS
  <2>2. IsFiniteSet(1 .. 15) /\ Cardinality(1 .. 15) = IF 1 > 15 THEN 0 ELSE 15 - 1 + 1
    BY <2>1, FS_Interval
  <2> QED
    BY <2>1, <2>2
<1>5. IsFiniteSet(Numbers(eps)) /\ Cardinality(Numbers(eps)) <= 15
  BY <1>3, <1>4, FS_Subset
<1>6. Cardinality(Numbers(eps)) \in Nat
  BY <1>5, FS_CardinalityType
<1> QED
  BY <1>1, <1>2, <1>3, <1>5, <1>6

LEMMA ConfigTypes ==
  ASSUME ConfigInv
  PROVE  /\ class_driver \in Drivers /\ ep_configs \in Seq(Endpoint)
         /\ class_drivers = Numbers(ep_configs)
         /\ rings \subseteq Endpoint /\ ep_interrupt_in \subseteq Endpoint
         /\ Reading[configuration] \in FoundSoFar
<1>1. Reading[configuration] \in FoundSoFar
  BY ReadingType DEF ConfigInv
<1>2. class_driver \in Drivers /\ ep_configs \in Seq(Endpoint) /\ class_drivers = Numbers(ep_configs)
  <2>1. CASE class_driver = "none" /\ class_drivers = {} /\ ep_configs = <<>>
    BY <2>1 DEF Drivers, Numbers
  <2>2. CASE Found(Reading[configuration])
    BY <1>1, <2>2 DEF Found, FoundSoFar
  <2> QED
    BY <2>1, <2>2 DEF ConfigInv
<1>3. \A k \in DOMAIN ep_configs : ep_configs[k] \in Endpoint
  BY <1>2, NumbersType
<1>4. initialize_phase # 4 \/ initialize_phase = 4
  OBVIOUS
<1>5. rings \subseteq Endpoint /\ ep_interrupt_in \subseteq Endpoint
  BY <1>3 DEF ConfigInv
<1> QED
  BY <1>1, <1>2, <1>5

\* Once the device is configured its reports have a ring and a driver.
LEMMA ReportsHaveDriver ==
  ASSUME ConfigInv, initialize_phase = 4
  PROVE  /\ ep_interrupt_in \subseteq rings /\ ep_interrupt_in # {}
         /\ \A e \in ep_interrupt_in : e.num \in class_drivers
<1>1. \A k \in DOMAIN ep_configs : ep_configs[k].num \in class_drivers
  BY ConfigTypes, NumbersType
<1> QED
  BY <1>1 DEF ConfigInv

LEMMA ConfigInit ==
  Init => ConfigInv
<1> SUFFICES ASSUME Init PROVE ConfigInv
  OBVIOUS
<1>1. /\ configuration \in Configurations /\ initialize_phase = 0 /\ hid_phase = 0
      /\ class_driver = "none" /\ class_drivers = {} /\ ep_configs = <<>>
      /\ rings = {} /\ ep_interrupt_in = {} /\ err = "kSuccess"
  BY DEF Init
<1>2. initialize_phase \in 0 .. 4 /\ hid_phase \in 0 .. 2 /\ ~(initialize_phase >= 3)
      /\ initialize_phase # 4 /\ hid_phase = 0 /\ err # "astray"
  BY <1>1
<1>3. configuring = FALSE
  BY DEF Init
<1> QED
  BY <1>1, <1>2, <1>3 DEF ConfigInv

LEMMA ConfigStep ==
  ASSUME ConfigInv, [Next]_vars
  PROVE  ConfigInv'
<1>1. CASE StartInitialize
  BY <1>1 DEF ConfigInv, Found, StartInitialize, found, hid
<1>2. CASE InitializePhase1
  BY <1>2 DEF ConfigInv, Found, InitializePhase1, found, hid
<1>3. CASE InitializePhase2
  <2>1. configuration' = configuration /\ rings' = rings /\ hid_phase' = hid_phase
        /\ ep_interrupt_in' = ep_interrupt_in /\ configuring' = configuring
        /\ initialize_phase = 2
    BY <1>3 DEF InitializePhase2, hid
  <2>2. Found(Reading[configuration])'
    BY <1>3, <2>1 DEF InitializePhase2, Found, Reading
  <2>3. \/ initialize_phase' = 2 /\ err' = "kSuccess"
        \/ initialize_phase' = 2 /\ err' = "astray" /\ Astray(Reading[configuration])
        \/ /\ initialize_phase' = 3 /\ err' = "kSuccess" /\ ~Astray(Reading[configuration])
           /\ class_driver' # "none"
    BY <1>3 DEF InitializePhase2
  <2>4. (Astray(Reading[configuration]))' <=> Astray(Reading[configuration])
    BY <2>1 DEF Reading
  <2> QED
    BY <2>1, <2>2, <2>3, <2>4 DEF ConfigInv
<1>4. CASE InitializePhase3
  <2> DEFINE in == {k \in DOMAIN ep_configs : ep_configs[k].in /\ ep_configs[k].interrupt}
             last == {l \in in : \A j \in in : j <= l}
  <2>1. initialize_phase = 3 /\ Found(Reading[configuration]) /\ class_driver # "none"
        /\ ~Astray(Reading[configuration]) /\ configuration \in Configurations /\ hid_phase = 0
    BY <1>4 DEF InitializePhase3, ConfigInv
  <2>2. last # {}
    <3>1. in # {}
      BY <2>1, InterruptInFound DEF Found
    <3>2. in \in SUBSET (1 .. Len(ep_configs)) /\ Len(ep_configs) \in Nat
      BY ConfigTypes, NumbersType
    <3> HIDE DEF in
    <3> QED
      BY <3>1, <3>2, LastOf
  <2>3. ep_interrupt_in' = {ep_configs[k] : k \in last} /\ rings' = {ep_configs[k] : k \in DOMAIN ep_configs}
    BY <1>4 DEF InitializePhase3
  <2>4. configuration' = configuration /\ class_driver' = class_driver
        /\ class_drivers' = class_drivers /\ ep_configs' = ep_configs /\ hid_phase' = hid_phase
        /\ initialize_phase' = 4 /\ configuring' = TRUE /\ err' = "kSuccess"
    BY <1>4 DEF InitializePhase3, found
  <2>5. last \subseteq DOMAIN ep_configs
    OBVIOUS
  <2> HIDE DEF last
  <2>6. ep_interrupt_in' \subseteq rings' /\ ep_interrupt_in' # {}
    BY <2>2, <2>3, <2>5
  <2> QED
    BY <2>1, <2>3, <2>4, <2>6 DEF ConfigInv, Found, Reading
<1>5. CASE OnEndpointsConfigured
  <2>1. /\ UNCHANGED <<configuration, initialize_phase, found, rings, ep_interrupt_in>>
        /\ configuring /\ configuring' = FALSE /\ hid_phase' = 1 /\ err' = "kSuccess"
    BY <1>5 DEF OnEndpointsConfigured
  <2> QED
    <3>1. initialize_phase = 4
      BY <2>1 DEF ConfigInv
    <3>2. hid_phase' \in 0 .. 2 /\ err' # "astray" /\ initialize_phase' = 4
      BY <2>1, <3>1
    <3>3. configuring' \in BOOLEAN /\ ~configuring'
      BY <2>1
    <3> QED
      BY <2>1, <3>1, <3>2, <3>3 DEF ConfigInv, Found, found
<1>6. CASE OnProtocolSet
  <2>1. UNCHANGED <<configuration, initialize_phase, found, rings, ep_interrupt_in, configuring>>
        /\ initialize_phase = 4 /\ err' # "astray" /\ hid_phase' \in {hid_phase, 2}
    BY <1>6 DEF OnProtocolSet, InterruptIn
  <2>2. configuring => hid_phase' = 0
    BY <1>6 DEF OnProtocolSet, ConfigInv
  <2> QED
    BY <2>1, <2>2 DEF ConfigInv, Found, found
<1>7. CASE RefuseControl
  <2>1. UNCHANGED <<configuration, initialize_phase, found, rings, hid, configuring>> /\ err' # "astray"
    BY <1>7 DEF RefuseControl
  <2> QED
    BY <2>1 DEF ConfigInv, Found, found, hid
<1>8. CASE OnReport
  <2>1. UNCHANGED <<configuration, initialize_phase, found, rings, hid, configuring>> /\ err' # "astray"
    BY <1>8 DEF OnReport, InterruptIn
  <2> QED
    BY <2>1 DEF ConfigInv, Found, found, hid
<1>9. CASE Hardware
  <2>1. UNCHANGED <<configuration, initialize_phase, found, rings, hid, configuring>>
        /\ (err' = err \/ err' = "kTransferFailed")
    BY <1>9 DEF Hardware, CompleteIssuer, CompleteStatus, FailControl, FailReport, Report, Others
  <2> QED
    BY <2>1 DEF ConfigInv, Found, found, hid
<1>10. CASE UNCHANGED vars
  BY <1>10 DEF ConfigInv, Found, vars, found, hid
<1> QED
  BY <1>1, <1>2, <1>3, <1>4, <1>5, <1>6, <1>7, <1>8, <1>9, <1>10 DEF Next, Driver

LEMMA ConfigAlways ==
  Spec => []ConfigInv
<1>1. ConfigInv /\ [Next]_vars => ConfigInv'
  BY ConfigStep
<1> QED
  BY <1>1, ConfigInit, PTL DEF Spec

\* ConfigurationUnderstood, for all configurations and buffers: what fits is read
\* as the USB specification has it (Device::InitializePhase2,
\* ConfigurationDescriptorReader).
THEOREM ConfigurationAlwaysUnderstood ==
  Spec => []ConfigurationUnderstood
<1>1. ConfigInv => ConfigurationUnderstood
  <2> SUFFICES ASSUME ConfigInv PROVE ConfigurationUnderstood
    OBVIOUS
  <2>1. configuration \in Configurations
    BY DEF ConfigInv
  <2>2. Fits(configuration) =>
          /\ ~Astray(Reading[configuration])
          /\ Reading[configuration].driver = Promised(configuration).driver
          /\ Reading[configuration].endpoints = Promised(configuration).endpoints
    BY <2>1, UnderstoodIfFits
  <2> QED
    BY <2>2 DEF ConfigInv, Found, ConfigurationUnderstood
<1> QED
  BY <1>1, ConfigAlways, PTL

-----------------------------------------------------------------------------
(* The types of the control pipe, and the report buffer.                   *)

LEMMA DeletedType ==
  ASSUME pipe \in Pipes
  PROVE  /\ Deleted \in Pipes /\ Deleted.ring = pipe.ring
         /\ Deleted.write_index = pipe.write_index /\ Deleted.under_way = pipe.under_way
         /\ Deleted.setup_stage_map = Delete(pipe.setup_stage_map, Head(events).issuer)
<1> DEFINE map == Delete(pipe.setup_stage_map, Head(events).issuer)
<1>1. map \in Maps
  BY PipeFields, DeleteType
<1>2. pipe = [ring |-> pipe.ring, write_index |-> pipe.write_index,
              setup_stage_map |-> pipe.setup_stage_map, under_way |-> pipe.under_way]
  BY DEF Pipes
<1>3. Deleted = [ring |-> pipe.ring, write_index |-> pipe.write_index,
                 setup_stage_map |-> map, under_way |-> pipe.under_way]
  BY <1>2 DEF Deleted
<1> HIDE DEF map
<1> QED
  BY <1>1, <1>3, PipeFields DEF Pipes, Maps, Entry, map

LEMMA PipeInit ==
  Init => PipeOK
<1> SUFFICES ASSUME Init PROVE PipeOK
  OBVIOUS
<1>1. RingSize \in Nat /\ RingSize >= 2 /\ WaiterSize \in Nat
  BY DeviceAssumption
<1>2. pipe = [ring            |-> [k \in Position |-> "none"],
              write_index     |-> 0,
              setup_stage_map |-> [k \in 1 .. MapSize |-> Free],
              under_way       |-> <<>>]
  BY DEF Init, Position
<1>3. 0 \in Position /\ 0 \in 0 .. WaiterSize
  BY <1>1 DEF Position
<1>4. pipe \in Pipes
  BY <1>2, <1>3 DEF Pipes
<1> QED
  BY <1>3, <1>4 DEF Init, PipeOK

\* What the controller makes of the transfers that are under way.
LEMMA WayTypes ==
  ASSUME NEW way \in Seq(Transfer), way # <<>>
  PROVE  /\ Tail(way) \in Seq(Transfer) /\ Head(way) = way[1] /\ way[1] \in Transfer
         /\ [way EXCEPT ![1].trbs = 1] \in Seq(Transfer)
         /\ Len([way EXCEPT ![1].trbs = 1]) = Len(way)
         /\ [way EXCEPT ![1].trbs = 1][1] =
              [issuer |-> way[1].issuer, request |-> way[1].request, trbs |-> 1]
         /\ \A k \in 2 .. Len(way) : [way EXCEPT ![1].trbs = 1][k] = way[k]
<1> DEFINE first == [way[1] EXCEPT !.trbs = 1]
<1>1. way[1] \in Transfer /\ Head(way) = way[1] /\ Tail(way) \in Seq(Transfer)
      /\ Len(way) \in Nat /\ 1 \in 1 .. Len(way)
  BY HeadTailProperties, EmptySeq
<1>2. first = [issuer |-> way[1].issuer, request |-> way[1].request, trbs |-> 1]
      /\ first \in Transfer
  BY <1>1 DEF Transfer
<1> HIDE DEF first
<1>3. [way EXCEPT ![1].trbs = 1] = [way EXCEPT ![1] = first]
  BY DEF first
<1>4. /\ [way EXCEPT ![1] = first] \in Seq(Transfer)
      /\ Len([way EXCEPT ![1] = first]) = Len(way)
      /\ [way EXCEPT ![1] = first][1] = first
      /\ \A k \in 2 .. Len(way) : [way EXCEPT ![1] = first][k] = way[k]
  BY <1>1, <1>2, ExceptSeq
<1> QED
  BY <1>1, <1>2, <1>3, <1>4

\* The pipe with other transfers under way.
LEMMA WayChanged ==
  ASSUME NEW p \in Pipes, NEW way \in Seq(Transfer)
  PROVE  /\ [p EXCEPT !.under_way = way] \in Pipes
         /\ [p EXCEPT !.under_way = way].ring = p.ring
         /\ [p EXCEPT !.under_way = way].setup_stage_map = p.setup_stage_map
         /\ [p EXCEPT !.under_way = way].under_way = way
BY DEF Pipes

LEMMA CompleteIssuerPipe ==
  ASSUME PipeOK, CompleteIssuer
  PROVE  LET way == IF pipe.under_way[1].trbs = 3 THEN [pipe.under_way EXCEPT ![1].trbs = 1]
                    ELSE Tail(pipe.under_way)
         IN /\ way \in Seq(Transfer) /\ pipe' = [pipe EXCEPT !.under_way = way]
            /\ pipe'.ring = pipe.ring /\ pipe'.setup_stage_map = pipe.setup_stage_map
            /\ pipe'.under_way = way
<1> DEFINE old == pipe.under_way
           way == IF old[1].trbs = 3 THEN [old EXCEPT ![1].trbs = 1] ELSE Tail(old)
<1>1. old \in Seq(Transfer) /\ pipe \in Pipes /\ old # <<>>
  BY PipeFields DEF PipeOK, CompleteIssuer
<1>2. way \in Seq(Transfer) /\ Head(old) = old[1]
  BY <1>1, WayTypes
<1>3. pipe' = [pipe EXCEPT !.under_way = way]
  BY <1>2 DEF CompleteIssuer
<1> HIDE DEF way, old
<1>4. pipe'.ring = pipe.ring /\ pipe'.setup_stage_map = pipe.setup_stage_map /\ pipe'.under_way = way
  BY <1>1, <1>2, <1>3, WayChanged
<1> QED
  BY <1>2, <1>3, <1>4 DEF way, old

LEMMA EventType ==
  ASSUME PipeOK, pipe.under_way # <<>>, NEW ok \in BOOLEAN
  PROVE  Append(events, [issuer |-> Head(pipe.under_way).issuer, ok |-> ok])
           \in Seq(Event)
<1>1. Head(pipe.under_way) \in Transfer
  BY PipeFields, WayTypes DEF PipeOK
<1>2. [issuer |-> Head(pipe.under_way).issuer, ok |-> ok] \in Event
  BY <1>1 DEF Transfer, Event
<1> QED
  BY <1>2, AppendProperties DEF PipeOK

LEMMA PipeStep ==
  ASSUME ConfigInv, PipeOK, [Next]_vars
  PROVE  PipeOK'
<1>1. pipe \in Pipes /\ Deleted \in Pipes /\ (events # <<>> =>
        Tail(events) \in Seq(Event))
  BY DeletedType DEF PipeOK
<1>2. CASE StartInitialize
  <2>1. pipe' \in Pipes
    BY <1>1, <1>2, ControlInType DEF StartInitialize, Request
  <2> QED
    BY <1>2, <2>1 DEF StartInitialize, PipeOK
<1>3. CASE InitializePhase1
  <2>1. pipe' \in Pipes
    BY <1>1, <1>3, ControlInType DEF InitializePhase1, Request
  <2> QED
    BY <1>1, <1>3, <2>1 DEF InitializePhase1, Completed, PipeOK
<1>4. CASE InitializePhase2
  <2>1. pipe' \in Pipes
    BY <1>1, <1>4, ControlOutType DEF InitializePhase2, Request
  <2> QED
    BY <1>1, <1>4, <2>1 DEF InitializePhase2, Completed, PipeOK
<1>5. CASE InitializePhase3
  BY <1>1, <1>5 DEF InitializePhase3, Completed, PipeOK
<1>6. CASE OnEndpointsConfigured
  <2>1. Cardinality(class_drivers) \in Nat
    BY ConfigTypes, NumbersType
  <2>2. pipe' \in Pipes
    BY <1>1, <1>6, <2>1, SetProtocolType DEF OnEndpointsConfigured
  <2>3. event_waiters' \in 0 .. WaiterSize
    <3>1. event_waiters \in 0 .. WaiterSize /\ WaiterSize \in Nat
      BY DeviceAssumption DEF PipeOK
    <3>2. event_waiters' = IF event_waiters + Cardinality(class_drivers) <= WaiterSize
                           THEN event_waiters + Cardinality(class_drivers) ELSE WaiterSize
      BY <1>6 DEF OnEndpointsConfigured
    <3> QED
      BY <2>1, <3>1, <3>2
  <2> QED
    BY <1>6, <2>2, <2>3 DEF OnEndpointsConfigured, PipeOK
<1>7. CASE OnProtocolSet
  BY <1>1, <1>7 DEF OnProtocolSet, Completed, PipeOK
<1>8. CASE RefuseControl
  <2>1. pipe' \in Pipes
    BY <1>1, <1>8 DEF RefuseControl
  <2> QED
    BY <1>1, <1>8, <2>1 DEF RefuseControl, PipeOK
<1>9. CASE OnReport
  BY <1>9 DEF OnReport, PipeOK
<1>10. CASE CompleteIssuer
  <2>1. PICK way \in Seq(Transfer) : pipe' = [pipe EXCEPT !.under_way = way]
    BY <1>10, CompleteIssuerPipe
  <2>2. pipe' \in Pipes
    BY <1>1, <2>1, WayChanged
  <2> QED
    BY <1>10, <2>2, EventType DEF CompleteIssuer, Finish, Others, PipeOK
<1>11. CASE CompleteStatus
  <2>1. Tail(pipe.under_way) \in Seq(Transfer)
    BY <1>1, <1>11, PipeFields, WayTypes DEF CompleteStatus
  <2>2. pipe' \in Pipes
    BY <1>1, <1>11, <2>1, WayChanged DEF CompleteStatus
  <2> QED
    BY <1>11, <2>2 DEF CompleteStatus, Others, PipeOK
<1>12. CASE FailControl
  <2>1. pipe' \in Pipes
    <3>1. <<>> \in Seq(Transfer)
      OBVIOUS
    <3> QED
      BY <1>1, <1>12, <3>1, WayChanged DEF FailControl
  <2> QED
    BY <1>12, <2>1, EventType DEF FailControl, Finish, Others, PipeOK
<1>13. CASE FailReport \/ Report
  BY <1>13 DEF FailReport, Report, Others, PipeOK
<1>14. CASE UNCHANGED vars
  BY <1>14 DEF vars, PipeOK
<1> QED
  BY <1>2, <1>3, <1>4, <1>5, <1>6, <1>7, <1>8, <1>9, <1>10, <1>11, <1>12, <1>13, <1>14
     DEF Next, Driver, Hardware

LEMMA ReportInit ==
  Init => ReportInv
BY DEF Init, ReportInv, Reported, ReportsTold

LEMMA ReportStep ==
  ASSUME ConfigInv, ReportInv, [Next]_vars
  PROVE  ReportInv'
<1>1. ASSUME UNCHANGED <<polled, reported, reports, class_driver>>, hid_phase = 2 => hid_phase' = 2
      PROVE  ReportInv'
  BY <1>1 DEF ReportInv, Reported, ReportsTold, WhatIsNew, reports
<1>2. CASE StartInitialize \/ InitializePhase1 \/ InitializePhase3 \/ OnEndpointsConfigured
           \/ RefuseControl \/ CompleteIssuer \/ CompleteStatus \/ FailControl
  <2>1. UNCHANGED <<polled, reported, reports, class_driver>>
    BY <1>2 DEF StartInitialize, InitializePhase1, InitializePhase3, OnEndpointsConfigured,
                RefuseControl, CompleteIssuer, CompleteStatus, FailControl, Others, found
  <2>2. hid_phase' = hid_phase \/ configuring
    BY <1>2 DEF StartInitialize, InitializePhase1, InitializePhase3, OnEndpointsConfigured,
                RefuseControl, CompleteIssuer, CompleteStatus, FailControl, Others, hid
  <2>3. hid_phase = 2 => hid_phase' = 2
    BY <2>2 DEF ConfigInv
  <2> QED
    BY <1>1, <2>1, <2>3
<1>3. CASE InitializePhase2
  <2>1. hid_phase' = hid_phase /\ hid_phase = 0 /\ UNCHANGED <<polled, reported, reports>>
    BY <1>3 DEF InitializePhase2, ConfigInv, hid
  <2> QED
    BY <2>1 DEF ReportInv, Reported, ReportsTold, reports
<1>4. CASE OnProtocolSet
  <2>1. UNCHANGED <<reported, reports, class_driver>>
    BY <1>4 DEF OnProtocolSet, found
  <2>2. \/ hid_phase' = hid_phase /\ polled' = polled
        \/ hid_phase = 1 /\ hid_phase' = 2 /\ polled' \in {polled, polled + 1}
    BY <1>4 DEF OnProtocolSet, InterruptIn
  <2>3. CASE hid_phase' = hid_phase /\ polled' = polled
    BY <1>1, <2>1, <2>3
  <2>4. CASE hid_phase = 1 /\ hid_phase' = 2 /\ polled' \in {polled, polled + 1}
    BY <2>1, <2>4 DEF ReportInv, Reported, ReportsTold, reports
  <2> QED
    BY <2>2, <2>3, <2>4
<1>5. CASE OnReport
  <2>1. reported = 1 /\ polled = 0 /\ hid_phase = 2 /\ initialize_phase = 4
    BY <1>5 DEF OnReport, ReportInv, ConfigInv
  <2>2. /\ told' = OnDataReceived /\ previous_buf' = buf /\ polled' \in {polled, polled + 1}
        /\ reported' = 0
    <3>1. \E e \in ep_interrupt_in : e.num \in class_drivers
      BY <2>1, ReportsHaveDriver
    <3> QED
      BY <1>5, <2>1, <3>1 DEF OnReport, InterruptIn
  <2>3. UNCHANGED <<class_driver, hid_phase, buf, sent>>
    BY <1>5 DEF OnReport, found, hid
  <2>4. buf = sent[2] /\ previous_buf = sent[1] /\ buf \in ReportsOf(class_driver)
    BY <2>1 DEF ReportInv
  <2>5. told' \subseteq Keys \cup Moves
    <3>1. CASE class_driver = "keyboard"
      <4>1. buf.keys \subseteq Keys
        BY <2>4, <3>1 DEF ReportsOf
      <4> QED
        BY <2>2, <3>1, <4>1 DEF OnDataReceived
    <3>2. CASE class_driver # "keyboard"
      <4>1. buf.move \in Moves
        BY <2>4, <3>2 DEF ReportsOf
      <4> QED
        BY <2>2, <3>2, <4>1 DEF OnDataReceived
    <3> QED
      BY <3>1, <3>2
  <2>6. ReportsTold'
    <3>1. CASE class_driver = "keyboard"
      BY <2>2, <2>3, <2>4, <3>1 DEF ReportsTold, WhatIsNew, OnDataReceived
    <3>2. CASE class_driver = "mouse"
      BY <2>2, <2>3, <2>4, <3>2 DEF ReportsTold, WhatIsNew, OnDataReceived
    <3>3. CASE class_driver = "none"
      BY <2>3, <3>3 DEF ReportsTold
    <3> QED
      BY <3>1, <3>2, <3>3, ConfigTypes DEF Drivers
  <2> QED
    BY <2>1, <2>2, <2>3, <2>4, <2>5, <2>6 DEF ReportInv, Reported
<1>6. CASE Report
  <2>1. polled = 1 /\ reported = 0 /\ hid_phase = 2 /\ polled' = 0 /\ reported' = 1
    BY <1>6 DEF Report, ReportInv
  <2>2. /\ UNCHANGED <<class_driver, hid_phase, previous_buf, told>> /\ buf' \in ReportsOf(class_driver)
        /\ sent' = <<sent[2], buf'>>
    BY <1>6 DEF Report, Others, found, hid
  <2> QED
    BY <2>1, <2>2 DEF ReportInv, Reported, ReportsTold
<1>7. CASE FailReport
  <2>1. UNCHANGED <<class_driver, hid_phase, reported, reports>> /\ polled' = polled - 1 /\ polled > 0
    BY <1>7 DEF FailReport, found, hid
  <2> QED
    BY <2>1 DEF ReportInv, Reported, ReportsTold, WhatIsNew, reports
<1>8. CASE UNCHANGED vars
  <2>1. UNCHANGED <<polled, reported, reports, class_driver, hid_phase>>
    BY <1>8 DEF vars, found, hid
  <2> QED
    BY <1>1, <2>1
<1> QED
  BY <1>2, <1>3, <1>4, <1>5, <1>6, <1>7, <1>8 DEF Next, Driver, Hardware

LEMMA ReportsAlways ==
  Spec => []ReportInv
<1>1. ConfigInv /\ ReportInv /\ [Next]_vars => ReportInv'
  BY ReportStep
<1> QED
  BY <1>1, ReportInit, ConfigAlways, PTL DEF Spec

LEMMA PipeOKAlways ==
  Spec => []PipeOK
<1>1. ConfigInv /\ PipeOK /\ [Next]_vars => PipeOK'
  BY PipeStep
<1> QED
  BY <1>1, PipeInit, ConfigAlways, PTL DEF Spec

\* TypeOK, for any device and any failures (Device).
THEOREM DeviceTypesHold ==
  Spec => []TypeOK
<1>1. ConfigInv /\ PipeOK /\ ReportInv => TypeOK
  <2> SUFFICES ASSUME ConfigInv, PipeOK, ReportInv PROVE TypeOK
    OBVIOUS
  <2>1. configuration \in Configurations /\ initialize_phase \in 0 .. 4 /\ hid_phase \in 0 .. 2
        /\ configuring \in BOOLEAN
    BY DEF ConfigInv
  <2>2. /\ class_driver \in {"none", "keyboard", "mouse"} /\ class_drivers \subseteq 1 .. 15
        /\ \A k \in DOMAIN ep_configs : ep_configs[k] \in Endpoint
        /\ rings \subseteq Endpoint /\ ep_interrupt_in \subseteq Endpoint
    BY ConfigTypes, NumbersType DEF Drivers
  <2>3. /\ pipe.ring \in [Position -> Trb \cup {"none"}] /\ pipe.write_index \in Position
        /\ event_waiters \in 0 .. WaiterSize
    BY PipeFields DEF PipeOK
  <2>4. \A k \in DOMAIN pipe.setup_stage_map :
          \/ pipe.setup_stage_map[k] = Free
          \/ pipe.setup_stage_map[k] \in [issuer : Position, setup : Position]
    BY PipeFields DEF PipeOK, Maps, Entry
  <2>5. \A k \in DOMAIN pipe.under_way : pipe.under_way[k].issuer \in Position
    <3>1. pipe.under_way \in Seq(Transfer)
      BY PipeFields DEF PipeOK
    <3>2. \A k \in DOMAIN pipe.under_way : pipe.under_way[k] \in Transfer
      BY <3>1
    <3> QED
      BY <3>2 DEF Transfer
  <2>6. /\ polled \in Nat /\ reported \in Nat /\ told \subseteq Keys \cup Moves
        /\ {buf, previous_buf, sent[1], sent[2]} \subseteq {NoReport} \cup ReportsOf(class_driver)
    BY DEF ReportInv, Reported
  <2> QED
    BY <2>1, <2>2, <2>3, <2>4, <2>5, <2>6 DEF TypeOK
<1> QED
  BY <1>1, ConfigAlways, PipeOKAlways, ReportsAlways, PTL

\* ReportsTold, for all keys, modifiers and displacements, any device and any
\* failures (HIDKeyboardDriver::OnDataReceived, HIDBaseDriver::OnInterruptCompleted).
THEOREM ReportsAlwaysTold ==
  Spec => []ReportsTold
<1>1. ReportInv => ReportsTold
  BY DEF ReportInv
<1> QED
  BY <1>1, ReportsAlways, PTL

-----------------------------------------------------------------------------
(* What lies in the control pipe.                                          *)

LEMMA PipeTypes ==
  ASSUME PipeOK
  PROVE  /\ pipe \in Pipes /\ pipe.under_way \in Seq(Transfer) /\ pipe.setup_stage_map \in Maps
         /\ Len(pipe.under_way) \in Nat /\ DOMAIN pipe.under_way = 1 .. Len(pipe.under_way)
         /\ \A k \in 1 .. Len(pipe.under_way) : pipe.under_way[k] \in Transfer
         /\ Len(events) \in Nat /\ DOMAIN events = 1 .. Len(events)
         /\ \A k \in 1 .. Len(events) : events[k].issuer \in Position
         /\ Open \subseteq Position
<1>1. pipe \in Pipes /\ pipe.under_way \in Seq(Transfer) /\ pipe.setup_stage_map \in Maps
  BY PipeFields DEF PipeOK
<1>2. /\ Len(pipe.under_way) \in Nat /\ DOMAIN pipe.under_way = 1 .. Len(pipe.under_way)
      /\ \A k \in 1 .. Len(pipe.under_way) : pipe.under_way[k] \in Transfer
  BY <1>1
<1>3. events \in Seq(Event)
  BY DEF PipeOK
<1>4. /\ Len(events) \in Nat /\ DOMAIN events = 1 .. Len(events)
  BY <1>3
<1>5. ASSUME NEW k \in 1 .. Len(events)
      PROVE  events[k].issuer \in Position
  <2>1. events[k] \in Event
    BY <1>3
  <2> QED
    BY <2>1 DEF Event
<1>6. \A k \in 1 .. Len(pipe.under_way) : pipe.under_way[k].issuer \in Position
  BY <1>2 DEF Transfer
<1>7. Open \subseteq Position
  BY <1>2, <1>4, <1>5, <1>6 DEF Open, Asked, Answered
<1> QED
  BY <1>1, <1>2, <1>4, <1>5, <1>7

\* The handler finds the setup stage of a transfer that is open.
LEMMA TracedBack ==
  ASSUME PipeOK, NEW issuer, Traced(issuer)
  PROVE  \E k \in 1 .. MapSize :
           /\ Entries(pipe.setup_stage_map, issuer) = {k} /\ Min({k}) = k
           /\ pipe.ring[pipe.setup_stage_map[k].setup] = Expected[initialize_phase]
           /\ Has(pipe.setup_stage_map, issuer)
           /\ pipe.ring[Get(pipe.setup_stage_map, issuer)] = Expected[initialize_phase]
           /\ Delete(pipe.setup_stage_map, issuer) = [pipe.setup_stage_map EXCEPT ![k] = Free]
<1>1. PICK k \in 1 .. MapSize :
        /\ Entries(pipe.setup_stage_map, issuer) = {k}
        /\ pipe.ring[pipe.setup_stage_map[k].setup] = Expected[initialize_phase]
  BY DEF Traced
<1>2. Min({k}) = k
  <2>1. {k} \in SUBSET Nat
    BY DeviceAssumption
  <2> QED
    BY <2>1, MinIsLeast
<1>3. Min(Entries(pipe.setup_stage_map, issuer)) = k
  BY <1>1, <1>2
<1> QED
  BY <1>1, <1>2, <1>3 DEF Has, Get, Delete

LEMMA AnswerTraced ==
  ASSUME PipeOK, PipeInv, events # <<>>, Head(events).ok
  PROVE  /\ Head(events).issuer \in Open /\ Traced(Head(events).issuer)
         /\ 1 \in Answered /\ Head(events) = events[1]
<1>1. 1 \in DOMAIN events /\ Head(events) = events[1]
  BY PipeTypes, HeadTailProperties DEF PipeOK
<1>2. 1 \in Answered
  BY <1>1 DEF Answered
<1> QED
  BY <1>1, <1>2 DEF Open, PipeInv

\* The event at the head is handled.
LEMMA TailEvents ==
  ASSUME PipeOK, PipeInv, events # <<>>, events' = Tail(events),
         pipe'.under_way = pipe.under_way
  PROVE  /\ Asked' = Asked /\ Open' \subseteq Open /\ Apart'
         /\ Head(events).ok => Head(events).issuer \notin Open'
         /\ Len(events') = Len(events) - 1
<1>1. /\ Len(events') = Len(events) - 1 /\ Head(events) = events[1] /\ 1 \in DOMAIN events
      /\ DOMAIN events' = 1 .. Len(events) - 1
      /\ \A k \in 1 .. Len(events) - 1 : events'[k] = events[k + 1]
  BY PipeTypes, HeadTailProperties DEF PipeOK
<1>2. Asked' = Asked
  BY DEF Asked
<1>3. ASSUME NEW k \in Answered' 
      PROVE  k + 1 \in Answered /\ events'[k] = events[k + 1] /\ k + 1 # 1 /\ k \in Nat
  <2>1. k \in 1 .. Len(events) - 1 /\ events'[k].ok
    BY <1>1, <1>3 DEF Answered
  <2>2. k + 1 \in DOMAIN events /\ events'[k] = events[k + 1] /\ k + 1 # 1 /\ k \in Nat
    BY <1>1, <2>1, PipeTypes
  <2> QED
    BY <2>1, <2>2 DEF Answered
<1>4. Open' \subseteq Open
  <2> SUFFICES ASSUME NEW i \in Open' PROVE i \in Open
    OBVIOUS
  <2>1. CASE \E k \in Asked' : i = pipe'.under_way[k].issuer
    BY <1>2, <2>1 DEF Open
  <2>2. CASE \E k \in Answered' : i = events'[k].issuer
    BY <1>3, <2>2 DEF Open
  <2> QED
    BY <2>1, <2>2 DEF Open
<1>5. Apart'
  <2>1. \A j, k \in Asked' :
          pipe'.under_way[j].issuer = pipe'.under_way[k].issuer => j = k
    BY <1>2 DEF PipeInv, Apart
  <2>2. \A j, k \in Answered' : events'[j].issuer = events'[k].issuer => j = k
    <3> SUFFICES ASSUME NEW j \in Answered', NEW k \in Answered',
                        events'[j].issuer = events'[k].issuer
                 PROVE  j = k
      OBVIOUS
    <3>1. j + 1 \in Answered /\ k + 1 \in Answered /\ j \in Nat /\ k \in Nat
          /\ events[j + 1].issuer = events[k + 1].issuer
      BY <1>3
    <3>2. j + 1 = k + 1
      BY <3>1 DEF PipeInv, Apart
    <3> QED
      BY <3>1, <3>2
  <2>3. \A j \in Asked', k \in Answered' : pipe'.under_way[j].issuer # events'[k].issuer
    <3> SUFFICES ASSUME NEW j \in Asked', NEW k \in Answered'
                 PROVE  pipe'.under_way[j].issuer # events'[k].issuer
      OBVIOUS
    <3>1. j \in Asked /\ k + 1 \in Answered /\ events'[k] = events[k + 1]
      BY <1>2, <1>3
    <3>2. pipe.under_way[j].issuer # events[k + 1].issuer
      BY <3>1 DEF PipeInv, Apart
    <3> QED
      BY <3>1, <3>2
  <2> QED
    BY <2>1, <2>2, <2>3 DEF Apart
<1>6. ASSUME Head(events).ok PROVE Head(events).issuer \notin Open'
  <2>1. 1 \in Answered
    BY <1>1, <1>6 DEF Answered
  <2>2. ASSUME NEW k \in Answered' PROVE events'[k].issuer # Head(events).issuer
    <3>1. k + 1 \in Answered /\ k + 1 # 1 /\ events'[k] = events[k + 1]
      BY <1>3
    <3>2. events[k + 1].issuer # events[1].issuer
      BY <2>1, <3>1 DEF PipeInv, Apart
    <3> QED
      BY <1>1, <3>1, <3>2
  <2>3. ASSUME NEW k \in Asked' PROVE pipe'.under_way[k].issuer # Head(events).issuer
    <3>1. pipe.under_way[k].issuer # events[1].issuer
      BY <1>2, <2>1 DEF PipeInv, Apart
    <3> QED
      BY <1>1, <3>1
  <2> QED
    BY <2>2, <2>3 DEF Open
<1> QED
  BY <1>1, <1>2, <1>4, <1>5, <1>6

\* The issuers that are left have their entries.
LEMMA StaysTraced ==
  ASSUME PipeInv, Open' \subseteq Open, pipe'.ring = pipe.ring,
         pipe'.setup_stage_map = pipe.setup_stage_map, initialize_phase' = initialize_phase
  PROVE  \A i \in Open' : Traced(i)'
<1> SUFFICES ASSUME NEW i \in Open' PROVE Traced(i)'
  OBVIOUS
<1>1. Traced(i)
  BY DEF PipeInv
<1> QED
  BY <1>1 DEF Traced

LEMMA DeletedTraced ==
  ASSUME PipeOK, PipeInv, events # <<>>, Head(events).ok, events' = Tail(events),
         pipe' = Deleted, initialize_phase' = initialize_phase
  PROVE  \A i \in Open' : Traced(i)'
<1> DEFINE map == pipe.setup_stage_map
<1> SUFFICES ASSUME NEW i \in Open' PROVE Traced(i)'
  OBVIOUS
<1>1. /\ pipe'.ring = pipe.ring /\ pipe'.under_way = pipe.under_way
      /\ pipe'.setup_stage_map = Delete(map, Head(events).issuer) /\ map \in Maps
  BY PipeTypes, DeletedType
<1>2. i \in Open /\ i # Head(events).issuer /\ i \in Position
  BY <1>1, TailEvents, PipeTypes
<1>3. PICK k \in 1 .. MapSize :
        /\ Entries(map, Head(events).issuer) = {k}
        /\ Delete(map, Head(events).issuer) = [map EXCEPT ![k] = Free]
  BY AnswerTraced, TracedBack
<1>4. PICK j \in 1 .. MapSize : Entries(map, i) = {j} /\ pipe.ring[map[j].setup] = Expected[initialize_phase]
  BY <1>2 DEF PipeInv, Traced
<1>5. map[k].issuer = Head(events).issuer /\ map[j].issuer = i
  BY <1>1, <1>3, <1>4, EntriesOfMap
<1>6. j # k
  BY <1>2, <1>5
<1> DEFINE new == pipe'.setup_stage_map
<1>7. new \in Maps /\ new[j] = map[j] /\ new[k] = Free
      /\ \A l \in 1 .. MapSize : l # k => new[l] = map[l]
  <2>1. new = [map EXCEPT ![k] = Free] /\ new \in Maps /\ map \in Maps
    BY <1>1, <1>3, DeleteType
  <2> HIDE DEF new, map
  <2> QED
    BY <1>6, <2>1 DEF Maps
<1> HIDE DEF new, map
<1>8. Entries(new, i) = {j}
  <2>1. Entries(new, i) = {l \in 1 .. MapSize : new[l].issuer = i}
    BY <1>7, EntriesOfMap
  <2>2. Entries(map, i) = {l \in 1 .. MapSize : map[l].issuer = i}
    BY <1>1, EntriesOfMap
  <2>3. new[k].issuer # i
    BY <1>2, <1>7, FreeIsNoEntry
  <2> QED
    BY <1>4, <1>6, <1>7, <2>1, <2>2, <2>3
<1> QED
  BY <1>1, <1>4, <1>7, <1>8 DEF Traced, new

\* Before the class driver, an answer leaves no request open and no entry.
LEMMA LastAnswer ==
  ASSUME PipeOK, PipeInv, initialize_phase \in 1 .. 3, events # <<>>, events' = Tail(events)
  PROVE  /\ events' = <<>> /\ Len(pipe.under_way) <= 1
         /\ \A k \in DOMAIN pipe.under_way : pipe.under_way[k].trbs = 1
         /\ initialize_phase = 3 => pipe.under_way = <<>>
         /\ Asked = {}
         /\ ~Head(events).ok => Open = {}
         /\ Head(events).ok => \A k \in 1 .. MapSize :
              Delete(pipe.setup_stage_map, Head(events).issuer)[k] = Free
<1> DEFINE map == pipe.setup_stage_map
<1>1. /\ Len(events) = 1 /\ Len(events') = 0 /\ events' \in Seq(Event)
      /\ Head(events) = events[1] /\ DOMAIN events = {1}
  <2>1. Len(events) <= 1
    BY DEF PipeInv, OneRequest
  <2> QED
    BY <2>1, PipeTypes, HeadTailProperties, EmptySeq DEF PipeOK
<1>2. events' = <<>>
  BY <1>1, EmptySeq
<1>3. /\ Len(pipe.under_way) <= 1 /\ \A k \in DOMAIN pipe.under_way : pipe.under_way[k].trbs = 1
      /\ initialize_phase = 3 => pipe.under_way = <<>>
  <2>1. /\ Len(pipe.under_way) <= 2 /\ Len(pipe.under_way) # 2
        /\ \A k \in DOMAIN pipe.under_way : pipe.under_way[k].trbs = 1
        /\ initialize_phase = 3 => pipe.under_way = <<>>
    BY DEF PipeInv, OneRequest
  <2>2. Len(pipe.under_way) <= 1
    <3>1. Len(pipe.under_way) \in Nat
      BY PipeTypes
    <3>2. Len(pipe.under_way) <= 2 /\ Len(pipe.under_way) # 2
      BY <2>1
    <3>3. \A n \in Nat : n <= 2 /\ n # 2 => n <= 1
      OBVIOUS
    <3> QED
      BY <3>1, <3>2, <3>3
  <2> QED
    BY <2>1, <2>2
<1>4. Asked = {}
  BY <1>3 DEF Asked
<1>5. ~Head(events).ok => Open = {}
  BY <1>1, <1>4 DEF Open, Answered
<1>6. ASSUME Head(events).ok, NEW l \in 1 .. MapSize
      PROVE  Delete(map, Head(events).issuer)[l] = Free
  <2>1. Open = {Head(events).issuer}
    BY <1>1, <1>4, <1>6 DEF Open, Answered
  <2>2. PICK k \in 1 .. MapSize :
          /\ Entries(map, Head(events).issuer) = {k}
          /\ Delete(map, Head(events).issuer) = [map EXCEPT ![k] = Free]
    BY <1>6, AnswerTraced, TracedBack
  <2>3. map \in Maps
    BY PipeTypes
  <2>4. map[l] = Free \/ map[l].issuer = Head(events).issuer
    BY <2>1 DEF PipeInv, OneRequest
  <2>5. map[l].issuer = Head(events).issuer => l = k
    BY <2>2, <2>3, EntriesOfMap
  <2> HIDE DEF map
  <2> QED
    BY <2>2, <2>3, <2>4, <2>5 DEF Maps
<1> QED
  BY <1>2, <1>3, <1>4, <1>5, <1>6

\* A request on a pipe without entries: it gets the first one.
LEMMA FirstEntry ==
  ASSUME DriverSizes, NEW map \in Maps, \A k \in 1 .. MapSize : map[k] = Free, NEW e \in Entry
  PROVE  /\ 1 \in 1 .. MapSize /\ Put(map, e)[1] = e /\ Entries(Put(map, e), e.issuer) = {1}
         /\ \A k \in 1 .. MapSize : k # 1 => Put(map, e)[k] = Free
<1>1. MapSize \in Nat /\ MapSize >= 15
  BY DeviceAssumption DEF DriverSizes
<1>2. 0 \in Nat /\ 0 < MapSize /\ 1 \in 1 .. MapSize /\ 0 + 1 = 1
  BY <1>1
<1>3. Put(map, e) = [map EXCEPT ![0 + 1] = e]
  <2>1. \A k \in 1 .. MapSize : map[k] = Free <=> 0 < k
    BY <1>1
  <2> QED
    BY <1>2, <2>1, PutInOrder
<1>4. Put(map, e) = [map EXCEPT ![1] = e] /\ Put(map, e) \in Maps
  BY <1>2, <1>3, PutType
<1>5. Put(map, e)[1] = e /\ \A k \in 1 .. MapSize : k # 1 => Put(map, e)[k] = Free
  BY <1>2, <1>4 DEF Maps
<1>6. Entries(Put(map, e), e.issuer) = {k \in 1 .. MapSize : Put(map, e)[k].issuer = e.issuer}
  BY <1>4, EntriesOfMap
<1>7. e.issuer # Free.issuer
  BY FreeIsNoEntry
<1> QED
  BY <1>2, <1>5, <1>6, <1>7

\* q is p with one more request, which leads back to its setup stage.
Requested(p, q, request, trbs) ==
  \E issuer \in Position :
    /\ q \in Pipes
    /\ q.under_way =
         Append(p.under_way, [issuer |-> issuer, request |-> request, trbs |-> trbs])
    /\ 1 \in 1 .. MapSize /\ Entries(q.setup_stage_map, issuer) = {1}
    /\ q.setup_stage_map[1].issuer = issuer
    /\ q.ring[q.setup_stage_map[1].setup] = request
    /\ \A k \in 1 .. MapSize : k # 1 => q.setup_stage_map[k] = Free

LEMMA FirstRequest ==
  ASSUME DriverSizes, NEW p \in Pipes, \A k \in 1 .. MapSize : p.setup_stage_map[k] = Free,
         NEW request \in Request
  PROVE  /\ Requested(p, ControlIn(p, request), request, 3)
         /\ Requested(p, ControlOut(p, request), request, 2)
<1> DEFINE w == p.write_index
           a == Advance(w, 1)
           b == Advance(w, 2)
           map == Put(p.setup_stage_map, [issuer |-> a, setup |-> w])
<1>1. w \in Position /\ a \in Position /\ b \in Position /\ w # a /\ w # b
  <2>1. RingSize \in Nat /\ RingSize >= 32 /\ w \in Position
    BY DeviceAssumption, PipeFields DEF DriverSizes
  <2>2. a \in Position /\ b \in Position /\ a = Pos(w, 1) /\ b = Pos(w, 2)
    BY <2>1, Advances DEF Lap
  <2>3. Pos(w, 1) # w /\ Pos(w, 2) # w
    BY <2>1 DEF Pos, Lap, Position
  <2> QED
    BY <2>1, <2>2, <2>3
<1>2. [issuer |-> a, setup |-> w] \in Entry
  BY <1>1 DEF Entry
<1>3. /\ 1 \in 1 .. MapSize /\ map[1] = [issuer |-> a, setup |-> w] /\ Entries(map, a) = {1}
      /\ \A k \in 1 .. MapSize : k # 1 => map[k] = Free
  <2>1. p.setup_stage_map \in Maps
    BY PipeFields
  <2> DEFINE e == [issuer |-> a, setup |-> w]
  <2>2. e.issuer = a
    OBVIOUS
  <2> HIDE DEF e
  <2>3. /\ 1 \in 1 .. MapSize /\ Put(p.setup_stage_map, e)[1] = e
        /\ Entries(Put(p.setup_stage_map, e), e.issuer) = {1}
        /\ \A k \in 1 .. MapSize : k # 1 => Put(p.setup_stage_map, e)[k] = Free
    BY <1>2, <2>1, FirstEntry DEF e
  <2> QED
    BY <2>2, <2>3 DEF e
<1>4. map[1].issuer = a /\ map[1].setup = w
  BY <1>3
<1>5. ControlIn(p, request) \in Pipes /\ ControlOut(p, request) \in Pipes
  BY ControlInType, ControlOutType
<1>6. /\ ControlIn(p, request).under_way =
           Append(p.under_way, [issuer |-> a, request |-> request, trbs |-> 3])
      /\ ControlIn(p, request).setup_stage_map = map
      /\ ControlIn(p, request).ring =
           [p.ring EXCEPT ![w] = request, ![a] = "Data", ![b] = "Status"]
  BY DEF ControlIn
<1>7. /\ ControlOut(p, request).under_way =
           Append(p.under_way, [issuer |-> a, request |-> request, trbs |-> 2])
      /\ ControlOut(p, request).setup_stage_map = map
      /\ ControlOut(p, request).ring = [p.ring EXCEPT ![w] = request, ![a] = "Status"]
  BY DEF ControlOut
<1> HIDE DEF w, a, b, map
<1>8. p.ring \in [Position -> Trb \cup {"none"}]
  BY PipeFields
<1>9. ControlIn(p, request).ring[w] = request /\ ControlOut(p, request).ring[w] = request
  BY <1>1, <1>6, <1>7, <1>8
<1>10. Requested(p, ControlIn(p, request), request, 3)
  BY <1>1, <1>3, <1>4, <1>5, <1>6, <1>9 DEF Requested
<1>11. Requested(p, ControlOut(p, request), request, 2)
  BY <1>1, <1>3, <1>4, <1>5, <1>7, <1>9 DEF Requested
<1> QED
  BY <1>10, <1>11

\* The driver has issued the next request of the initialisation.
LEMMA NextRequest ==
  ASSUME PipeOK, NEW p \in Pipes, NEW request, NEW trbs \in 2 .. 3,
         Requested(p, pipe', request, trbs), events' = <<>>,
         Len(p.under_way) <= 1, \A k \in DOMAIN p.under_way : p.under_way[k].trbs = 1,
         initialize_phase' \in 1 .. 3, request = Expected[initialize_phase'],
         initialize_phase' = 3 => trbs = 2,
         configuring' = FALSE, NoUnexpectedError'
  PROVE  PipeInv'
<1> DEFINE n == Len(p.under_way)
           way == pipe'.under_way
<1>1. PICK issuer \in Position :
        /\ pipe' \in Pipes
        /\ way = Append(p.under_way, [issuer |-> issuer, request |-> request, trbs |-> trbs])
        /\ 1 \in 1 .. MapSize /\ Entries(pipe'.setup_stage_map, issuer) = {1}
        /\ pipe'.setup_stage_map[1].issuer = issuer
        /\ pipe'.ring[pipe'.setup_stage_map[1].setup] = request
        /\ \A k \in 1 .. MapSize : k # 1 => pipe'.setup_stage_map[k] = Free
  BY DEF Requested
<1>2. n \in Nat /\ n <= 1 /\ p.under_way \in Seq(Transfer) /\ n + 1 \in 1 .. n + 1
  BY PipeFields
<1> DEFINE last == [issuer |-> issuer, request |-> request, trbs |-> trbs]
<1>3. /\ Len(way) = n + 1 /\ DOMAIN way = 1 .. n + 1
      /\ \A k \in 1 .. n : way[k].trbs = 1
      /\ way[n + 1] = last
  <2>1. way = Append(p.under_way, last) /\ DOMAIN p.under_way = 1 .. n
    BY <1>1, <1>2
  <2> HIDE DEF last, way
  <2>2. /\ Len(way) = n + 1 /\ DOMAIN way = 1 .. n + 1
        /\ \A k \in 1 .. n : way[k] = p.under_way[k]
        /\ way[n + 1] = last
    BY <1>2, <2>1, AppendProperties
  <2> QED
    BY <2>1, <2>2
<1> HIDE DEF n, way
<1>4. way[n + 1].issuer = issuer /\ way[n + 1].request = request /\ way[n + 1].trbs = trbs
      /\ trbs > 1 /\ trbs \in Nat
  BY <1>3
<1>5. Asked' = {n + 1}
  <2>1. Asked' = {k \in 1 .. n + 1 : way[k].trbs > 1}
    BY <1>3 DEF Asked, way
  <2>2. ~(1 > 1)
    OBVIOUS
  <2> QED
    BY <1>2, <1>3, <1>4, <2>1, <2>2
<1>6. Answered' = {}
  BY DEF Answered
<1>7. Open' = {issuer}
  BY <1>4, <1>5, <1>6 DEF Open, way
<1>8. \A i \in Open' : Traced(i)'
  BY <1>1, <1>7 DEF Traced
<1>9. Apart'
  BY <1>5, <1>6 DEF Apart
<1>10. OneRequest'
  <2>1. Len(events') <= 1 /\ events' = <<>> /\ Len(way) <= 2
    BY <1>2, <1>3
  <2>2. Len(way) = 2 => way[1].trbs = 1
    <3>1. n + 1 = 2 => 1 \in 1 .. n
      BY <1>2
    <3> QED
      BY <1>3, <3>1
  <2>3. initialize_phase' = 3 => \A k \in DOMAIN way : way[k].trbs <= 2
    <3> SUFFICES ASSUME initialize_phase' = 3, NEW k \in DOMAIN way PROVE way[k].trbs <= 2
      OBVIOUS
    <3>1. k \in 1 .. n \/ k = n + 1
      BY <1>2, <1>3
    <3> QED
      BY <1>3, <1>4, <3>1
  <2>4. \A k \in 1 .. MapSize : \/ pipe'.setup_stage_map[k] = Free
                                \/ pipe'.setup_stage_map[k].issuer \in Open'
    BY <1>1, <1>7
  <2> QED
    BY <2>1, <2>2, <2>3, <2>4 DEF OneRequest, way
<1>11. \A k \in Asked' : way[k].request = Expected[initialize_phase']
  BY <1>4, <1>5
<1>12. initialize_phase' # 0 /\ initialize_phase' # 4
  OBVIOUS
<1> QED
  BY <1>8, <1>9, <1>10, <1>11, <1>12 DEF PipeInv, way, Expected

\* The answer to the request of an initialisation phase.
LEMMA AnswerOfPhase ==
  ASSUME PipeOK, PipeInv, NEW request, Completed(request)
  PROVE  /\ request = Expected[initialize_phase] /\ initialize_phase # 0 /\ ~configuring
         /\ events # <<>> /\ events' = Tail(events) /\ Head(events).ok
         /\ Deleted \in Pipes /\ Deleted.under_way = pipe.under_way
         /\ initialize_phase \in 1 .. 3 =>
              /\ \A k \in 1 .. MapSize : Deleted.setup_stage_map[k] = Free
              /\ events' = <<>> /\ Len(pipe.under_way) <= 1
              /\ \A k \in DOMAIN pipe.under_way : pipe.under_way[k].trbs = 1
              /\ initialize_phase = 3 => pipe.under_way = <<>>
<1>1. events # <<>> /\ Head(events).ok /\ events' = Tail(events)
      /\ request = pipe.ring[Get(pipe.setup_stage_map, Head(events).issuer)]
  BY DEF Completed
<1>2. request = Expected[initialize_phase]
  BY <1>1, AnswerTraced, TracedBack
<1>3. initialize_phase # 0 /\ ~configuring
  BY <1>1 DEF PipeInv, Idle
<1>4. Deleted \in Pipes /\ Deleted.under_way = pipe.under_way
      /\ Deleted.setup_stage_map = Delete(pipe.setup_stage_map, Head(events).issuer)
  BY PipeTypes, DeletedType
<1> QED
  BY <1>1, <1>2, <1>3, <1>4, LastAnswer

LEMMA StartInitializePipe ==
  ASSUME DriverSizes, ConfigInv, PipeOK, PipeInv, StartInitialize
  PROVE  PipeInv'
<1>1. pipe.under_way = <<>> /\ events = <<>> /\ (\A k \in 1 .. MapSize : pipe.setup_stage_map[k] = Free)
      /\ initialize_phase = 0 /\ initialize_phase' = 1 /\ pipe' = ControlIn(pipe, "device")
      /\ events' = events /\ err' = err
  BY DEF StartInitialize, PipeInv, Idle, Unused
<1>2. configuring' = FALSE
  BY <1>1 DEF StartInitialize, ConfigInv
<1>3. NoUnexpectedError'
  BY <1>1 DEF PipeInv, NoUnexpectedError
<1>4. pipe \in Pipes /\ Requested(pipe, pipe', "device", 3)
  BY <1>1, PipeTypes, FirstRequest DEF Request
<1>5. "device" = Expected[initialize_phase'] /\ initialize_phase' \in 1 .. 3 /\ initialize_phase' # 3
      /\ 3 \in 2 .. 3
  BY <1>1 DEF Expected
<1>6. Len(pipe.under_way) <= 1 /\ \A k \in DOMAIN pipe.under_way : pipe.under_way[k].trbs = 1
  BY <1>1
<1> QED
  BY <1>1, <1>2, <1>3, <1>4, <1>5, <1>6, NextRequest

LEMMA InitializePhase1Pipe ==
  ASSUME DriverSizes, ConfigInv, PipeOK, PipeInv, InitializePhase1
  PROVE  PipeInv'
<1>1. initialize_phase = 1 /\ initialize_phase' = 2 /\ Completed("device")
      /\ pipe' = ControlIn(Deleted, "config") /\ err' = "kSuccess"
  BY DEF InitializePhase1
<1>2. configuring' = FALSE
  BY <1>1 DEF InitializePhase1, ConfigInv
<1>3. NoUnexpectedError'
  BY <1>1 DEF NoUnexpectedError
<1>4. /\ Deleted \in Pipes /\ Deleted.under_way = pipe.under_way
      /\ \A k \in 1 .. MapSize : Deleted.setup_stage_map[k] = Free
      /\ events' = <<>> /\ Len(pipe.under_way) <= 1
      /\ \A k \in DOMAIN pipe.under_way : pipe.under_way[k].trbs = 1
  BY <1>1, AnswerOfPhase
<1>5. Requested(Deleted, pipe', "config", 3)
  BY <1>1, <1>4, FirstRequest DEF Request
<1>6. "config" = Expected[initialize_phase'] /\ initialize_phase' \in 1 .. 3 /\ initialize_phase' # 3
      /\ 3 \in 2 .. 3
  BY <1>1 DEF Expected
<1> QED
  BY <1>2, <1>3, <1>4, <1>5, <1>6, NextRequest

LEMMA InitializePhase2Pipe ==
  ASSUME DriverSizes, ConfigInv, PipeOK, PipeInv, InitializePhase2
  PROVE  PipeInv'
<1>1. initialize_phase = 2 /\ Completed("config")
      /\ \/ pipe' = Deleted /\ err' \in {"kSuccess", "astray"} /\ initialize_phase' = 2
         \/ pipe' = ControlOut(Deleted, "set_config") /\ err' = "kSuccess" /\ initialize_phase' = 3
  BY DEF InitializePhase2
<1>2. configuring' = FALSE
  BY <1>1 DEF InitializePhase2, ConfigInv
<1>3. NoUnexpectedError'
  BY <1>1 DEF NoUnexpectedError
<1>4. /\ Deleted \in Pipes /\ Deleted.under_way = pipe.under_way
      /\ \A k \in 1 .. MapSize : Deleted.setup_stage_map[k] = Free
      /\ events' = <<>> /\ Len(pipe.under_way) <= 1
      /\ \A k \in DOMAIN pipe.under_way : pipe.under_way[k].trbs = 1
  BY <1>1, AnswerOfPhase
<1>5. CASE pipe' = Deleted /\ initialize_phase' = 2
  <2>1. Asked' = {} /\ Answered' = {}
    BY <1>4, <1>5 DEF Asked, Answered
  <2>2. Open' = {}
    BY <2>1 DEF Open
  <2>3. OneRequest'
    BY <1>4, <1>5 DEF OneRequest
  <2> QED
    BY <1>2, <1>3, <1>5, <2>1, <2>2, <2>3 DEF PipeInv, Apart
<1>6. CASE pipe' = ControlOut(Deleted, "set_config") /\ initialize_phase' = 3
  <2>1. Requested(Deleted, pipe', "set_config", 2)
    BY <1>4, <1>6, FirstRequest DEF Request
  <2>2. "set_config" = Expected[initialize_phase'] /\ initialize_phase' \in 1 .. 3 /\ 2 \in 2 .. 3
    BY <1>6 DEF Expected
  <2> QED
    BY <1>2, <1>3, <1>4, <2>1, <2>2, NextRequest
<1> QED
  BY <1>1, <1>5, <1>6

LEMMA InitializePhase3Pipe ==
  ASSUME ConfigInv, PipeOK, PipeInv, InitializePhase3
  PROVE  PipeInv'
<1>1. initialize_phase = 3 /\ initialize_phase' = 4 /\ Completed("set_config")
      /\ pipe' = Deleted /\ err' = "kSuccess" /\ UNCHANGED <<class_drivers, ep_configs>>
  BY DEF InitializePhase3, found
<1>2. Deleted.under_way = <<>> /\ (\A k \in 1 .. MapSize : Deleted.setup_stage_map[k] = Free)
      /\ events' = <<>>
  BY <1>1, AnswerOfPhase
<1>3. Idle'
  BY <1>1, <1>2 DEF Idle, Unused
<1>4. Asked' = {} /\ Answered' = {}
  BY <1>1, <1>2 DEF Asked, Answered
<1>5. Open' = {}
  BY <1>4 DEF Open
<1>6. Len(pipe'.under_way) = 0 /\ DOMAIN pipe'.under_way = {}
  BY <1>1, <1>2
<1>7. Cardinality(class_drivers') \in Nat
  BY <1>1, ConfigTypes, NumbersType
<1>8. NoUnexpectedError'
  BY <1>1 DEF NoUnexpectedError
<1> QED
  BY <1>1, <1>3, <1>4, <1>5, <1>6, <1>7, <1>8 DEF PipeInv, Apart

LEMMA OnEndpointsConfiguredPipe ==
  ASSUME DriverSizes, ConfigInv, PipeOK, PipeInv, OnEndpointsConfigured
  PROVE  PipeInv'
<1> DEFINE n == Cardinality(class_drivers)
           w == pipe.write_index
<1>1. /\ initialize_phase = 4 /\ initialize_phase' = 4 /\ configuring' = FALSE
      /\ pipe' = SetProtocol(pipe, n) /\ events' = events /\ err' = "kSuccess"
      /\ event_waiters' = IF event_waiters + n <= WaiterSize THEN event_waiters + n ELSE WaiterSize
      /\ UNCHANGED class_drivers
  BY DEF OnEndpointsConfigured, ConfigInv, found
<1>2. pipe.under_way = <<>> /\ events = <<>> /\ \A k \in 1 .. MapSize : pipe.setup_stage_map[k] = Free
  BY DEF OnEndpointsConfigured, PipeInv, Idle, Unused
<1>3. n \in Nat /\ n <= 15
  BY ConfigTypes, NumbersType
<1>4. pipe \in Pipes /\ w \in Position
  BY PipeTypes, PipeFields
<1> HIDE DEF n, w
<1>5. Laid(pipe', w, n)
  BY <1>1, <1>2, <1>3, <1>4, SetProtocolLays DEF w
<1>6. MapSize \in Nat /\ MapSize >= 15 /\ WaiterSize \in Nat /\ WaiterSize >= 1
  BY DeviceAssumption DEF DriverSizes
<1>7. Len(pipe'.under_way) = n /\ DOMAIN pipe'.under_way = 1 .. n /\ pipe' \in Pipes
  <2>1. Len(pipe'.under_way) = n /\ pipe'.under_way \in Seq(Transfer) /\ pipe' \in Pipes
    BY <1>5, PipeFields DEF Laid
  <2> QED
    BY <2>1
<1>8. ASSUME NEW k \in 1 .. n
      PROVE  /\ k + k - 1 \in 0 .. 30 /\ k \in 1 .. MapSize
             /\ pipe'.under_way[k].issuer = Pos(w, k + k - 1)
             /\ pipe'.under_way[k].request = "set_protocol" /\ pipe'.under_way[k].trbs = 2
             /\ pipe'.setup_stage_map[k].issuer = Pos(w, k + k - 1)
             /\ pipe'.ring[pipe'.setup_stage_map[k].setup] = "set_protocol"
  <2>1. k + k - 1 \in 0 .. 30 /\ k \in 1 .. MapSize
    BY <1>3, <1>6
  <2>2. /\ pipe'.under_way[k] =
             [issuer |-> Pos(w, k + k - 1), request |-> "set_protocol", trbs |-> 2]
        /\ pipe'.setup_stage_map[k] = [issuer |-> Pos(w, k + k - 1), setup |-> Pos(w, k + k - 2)]
        /\ pipe'.ring[Pos(w, k + k - 2)] = "set_protocol"
    BY <1>5 DEF Laid
  <2> QED
    BY <2>1, <2>2
<1>9. Asked' = 1 .. n
  BY <1>7, <1>8 DEF Asked
<1>10. Answered' = {}
  BY <1>1, <1>2 DEF Answered
<1>11. \A k \in 1 .. n, j \in 1 .. n : Pos(w, k + k - 1) = Pos(w, j + j - 1) => k = j
  <2> SUFFICES ASSUME NEW k \in 1 .. n, NEW j \in 1 .. n, Pos(w, k + k - 1) = Pos(w, j + j - 1)
               PROVE  k = j
    OBVIOUS
  <2>1. k + k - 1 \in 0 .. 30 /\ j + j - 1 \in 0 .. 30
    BY <1>8
  <2>2. k + k - 1 = j + j - 1
    BY <1>4, <2>1, Positions
  <2> QED
    BY <1>3, <2>2
<1>12. Apart'
  BY <1>8, <1>9, <1>10, <1>11 DEF Apart
<1>13. \A i \in Open' : Traced(i)'
  <2> SUFFICES ASSUME NEW i \in Open' PROVE Traced(i)'
    OBVIOUS
  <2>1. PICK k \in 1 .. n : i = Pos(w, k + k - 1)
    BY <1>8, <1>9, <1>10 DEF Open
  <2>2. i \in Position
    BY <1>4, <1>8, <2>1, Positions
  <2>3. pipe'.setup_stage_map \in Maps
    BY <1>7, PipeFields
  <2>4. Entries(pipe'.setup_stage_map, i) = {j \in 1 .. MapSize : pipe'.setup_stage_map[j].issuer = i}
    BY <2>3, EntriesOfMap
  <2>5. ASSUME NEW j \in 1 .. MapSize, pipe'.setup_stage_map[j].issuer = i PROVE j = k
    <3>1. CASE j \in 1 .. n
      BY <1>8, <1>11, <2>1, <2>5, <3>1
    <3>2. CASE j \notin 1 .. n
      <4>1. j > n
        BY <1>3, <1>6, <3>2
      <4>2. pipe'.setup_stage_map[j] = Free
        BY <1>5, <4>1 DEF Laid
      <4> QED
        BY <2>2, <2>5, <4>2, FreeIsNoEntry
    <3> QED
      BY <3>1, <3>2
  <2>6. Entries(pipe'.setup_stage_map, i) = {k}
    BY <1>8, <2>1, <2>4, <2>5
  <2> QED
    BY <1>1, <1>8, <2>6 DEF Traced, Expected
<1>14. Open' # {} => event_waiters' > 0
  <2> SUFFICES ASSUME Open' # {} PROVE event_waiters' > 0
    OBVIOUS
  <2>1. 1 .. n # {}
    BY <1>9, <1>10 DEF Open
  <2>2. n >= 1
    BY <1>3, <2>1
  <2>3. event_waiters \in Nat
    BY <1>6 DEF PipeOK
  <2> QED
    BY <1>1, <1>3, <1>6, <2>2, <2>3
<1>15. \A k \in DOMAIN pipe'.under_way : pipe'.under_way[k].trbs <= 2
  BY <1>7, <1>8
<1>16. Len(pipe'.under_way) <= Cardinality(class_drivers')
  BY <1>1, <1>3, <1>7 DEF n
<1>17. \A k \in Asked' : pipe'.under_way[k].request = Expected[initialize_phase']
  BY <1>1, <1>8, <1>9 DEF Expected
<1>18. NoUnexpectedError'
  BY <1>1 DEF NoUnexpectedError
<1> QED
  BY <1>1, <1>12, <1>13, <1>14, <1>15, <1>16, <1>17, <1>18 DEF PipeInv

\* The handlers of the phase of the class driver.
LEMMA OnProtocolSetPipe ==
  ASSUME ConfigInv, PipeOK, PipeInv, OnProtocolSet
  PROVE  PipeInv'
<1>1. initialize_phase = 4 /\ initialize_phase' = 4 /\ Completed("set_protocol") /\ pipe' = Deleted
      /\ UNCHANGED <<class_drivers, event_waiters, configuring>>
  BY DEF OnProtocolSet, found
<1>2. events # <<>> /\ events' = Tail(events) /\ Head(events).ok /\ ~configuring
      /\ Deleted.under_way = pipe.under_way
  BY <1>1, AnswerOfPhase
<1>3. Asked' = Asked /\ Open' \subseteq Open /\ Apart'
  BY <1>1, <1>2, TailEvents
<1>4. \A i \in Open' : Traced(i)'
  BY <1>1, <1>2, DeletedTraced
<1>5. event_waiters > 0
  BY <1>1, <1>2, AnswerTraced DEF PipeInv
<1>6. err' \in {"kSuccess", "kNotImplemented"}
  BY <1>1, <1>5, ReportsHaveDriver DEF OnProtocolSet, InterruptIn
<1>7. NoUnexpectedError'
  BY <1>6 DEF NoUnexpectedError
<1>8. /\ \A k \in Asked' : pipe'.under_way[k].request = Expected[initialize_phase']
      /\ Len(pipe'.under_way) <= Cardinality(class_drivers')
      /\ \A k \in DOMAIN pipe'.under_way : pipe'.under_way[k].trbs <= 2
  BY <1>1, <1>2, <1>3 DEF PipeInv
<1> QED
  BY <1>1, <1>2, <1>3, <1>4, <1>5, <1>7, <1>8 DEF PipeInv

LEMMA RefuseControlPipe ==
  ASSUME ConfigInv, PipeOK, PipeInv, RefuseControl
  PROVE  PipeInv'
<1>1. events # <<>> /\ events' = Tail(events) /\ initialize_phase \in 0 .. 4
      /\ UNCHANGED <<initialize_phase, class_drivers, event_waiters, configuring>>
  BY DEF RefuseControl, ConfigInv, found
<1>2. ~Head(events).ok /\ err' = "kTransferFailed" /\ pipe' = pipe
  <2>1. Head(events).ok =>
          /\ Has(pipe.setup_stage_map, Head(events).issuer)
          /\ pipe.ring[Get(pipe.setup_stage_map, Head(events).issuer)] = Expected[initialize_phase]
    BY <1>1, AnswerTraced, TracedBack
  <2> QED
    BY <2>1 DEF RefuseControl
<1>3. Asked' = Asked /\ Open' \subseteq Open /\ Apart'
  BY <1>1, <1>2, TailEvents
<1>4. \A i \in Open' : Traced(i)'
  BY <1>1, <1>2, <1>3, StaysTraced
<1>5. initialize_phase # 0 /\ ~configuring
  BY <1>1 DEF PipeInv, Idle
<1>6. NoUnexpectedError'
  BY <1>2 DEF NoUnexpectedError
<1>7. \A k \in Asked' : pipe'.under_way[k].request = Expected[initialize_phase']
  BY <1>1, <1>2, <1>3 DEF PipeInv
<1>8. ASSUME initialize_phase \in 1 .. 3 PROVE OneRequest'
  <2>1. /\ events' = <<>> /\ Len(pipe.under_way) <= 1 /\ Open = {}
        /\ \A k \in DOMAIN pipe.under_way : pipe.under_way[k].trbs = 1
    BY <1>1, <1>2, <1>8, LastAnswer
  <2>2. Open' = {}
    BY <1>3, <2>1
  <2>3. Len(pipe.under_way) # 2 /\ Len(pipe.under_way) <= 2
    BY <2>1, PipeTypes
  <2>4. Len(events') <= 1
    BY <2>1
  <2> QED
    BY <1>2, <2>1, <2>2, <2>3, <2>4 DEF OneRequest
<1>9. initialize_phase = 4 =>
        /\ Len(pipe'.under_way) <= Cardinality(class_drivers')
        /\ \A k \in DOMAIN pipe'.under_way : pipe'.under_way[k].trbs <= 2
        /\ Open' # {} => event_waiters' > 0
  BY <1>1, <1>2, <1>3 DEF PipeInv
<1> QED
  BY <1>1, <1>3, <1>4, <1>5, <1>6, <1>7, <1>8, <1>9 DEF PipeInv

\* Nothing happens on the control pipe.
LEMMA OtherPipe ==
  ASSUME PipeInv, UNCHANGED <<pipe, events, initialize_phase, class_drivers, event_waiters, configuring>>,
         NoUnexpectedError'
  PROVE  PipeInv'
<1>1. Asked' = Asked /\ Answered' = Answered /\ Unused' = Unused
  BY DEF Asked, Answered, Unused
<1>2. Open' = Open
  BY <1>1 DEF Open
<1>3. Apart' /\ \A i \in Open' : Traced(i)'
  <2>1. Apart'
    BY <1>1 DEF PipeInv, Apart
  <2> QED
    BY <1>2, <2>1, StaysTraced
<1>4. OneRequest => OneRequest'
  BY <1>2 DEF OneRequest
<1>5. Idle => Idle'
  BY <1>1 DEF Idle
<1> QED
  BY <1>1, <1>2, <1>3, <1>4, <1>5 DEF PipeInv

\* The first transfer under way has gone.
LEMMA TailWay ==
  ASSUME PipeOK, pipe.under_way # <<>>, pipe'.under_way = Tail(pipe.under_way)
  PROVE  /\ Len(pipe'.under_way) = Len(pipe.under_way) - 1
         /\ \A k \in DOMAIN pipe'.under_way :
              k \in Nat /\ k + 1 \in DOMAIN pipe.under_way /\ pipe'.under_way[k] = pipe.under_way[k + 1]
         /\ \A k \in Asked' : /\ k \in Nat /\ k + 1 \in Asked /\ k + 1 # 1
                              /\ pipe'.under_way[k] = pipe.under_way[k + 1]
         /\ \A k \in Asked : k # 1 => k - 1 \in Asked' /\ pipe'.under_way[k - 1] = pipe.under_way[k]
<1> DEFINE old == pipe.under_way
           way == pipe'.under_way
<1>1. old \in Seq(Transfer) /\ Len(old) \in Nat /\ DOMAIN old = 1 .. Len(old) /\ old # <<>>
  BY PipeTypes
<1>2. way = Tail(old)
  OBVIOUS
<1> HIDE DEF way, old
<1>3. /\ Len(way) = Len(old) - 1 /\ DOMAIN way = 1 .. Len(old) - 1
      /\ \A k \in 1 .. Len(old) - 1 : way[k] = old[k + 1]
  BY <1>1, <1>2, HeadTailProperties
<1>4. ASSUME NEW k \in DOMAIN way
      PROVE  k \in Nat /\ k + 1 \in DOMAIN old /\ k + 1 # 1 /\ way[k] = old[k + 1]
  <2>1. k \in 1 .. Len(old) - 1 /\ k \in Nat
    BY <1>3
  <2> QED
    BY <1>1, <1>3, <2>1
<1>5. ASSUME NEW k \in Asked'
      PROVE  k \in Nat /\ k + 1 \in Asked /\ k + 1 # 1 /\ way[k] = old[k + 1]
  BY <1>4 DEF Asked, way, old
<1>6. ASSUME NEW k \in Asked, k # 1
      PROVE  k - 1 \in Asked' /\ way[k - 1] = old[k]
  <2>1. k \in 1 .. Len(old) /\ old[k].trbs > 1
    BY <1>1 DEF Asked, old
  <2>2. k - 1 \in 1 .. Len(old) - 1 /\ k - 1 + 1 = k
    BY <1>1, <1>6, <2>1
  <2>3. k - 1 \in DOMAIN way /\ way[k - 1] = old[k]
    BY <1>3, <2>2
  <2> QED
    BY <2>1, <2>3 DEF Asked, way
<1> QED
  BY <1>3, <1>4, <1>5, <1>6 DEF way, old

LEMMA HeadIsFirst ==
  ASSUME PipeOK, pipe.under_way # <<>>
  PROVE  /\ Head(pipe.under_way) = pipe.under_way[1] /\ 1 \in DOMAIN pipe.under_way
         /\ pipe.under_way[1].trbs \in 1 .. 3 /\ pipe.under_way[1].issuer \in Position
         /\ Tail(pipe.under_way) \in Seq(Transfer)
<1>1. pipe.under_way \in Seq(Transfer) /\ DOMAIN pipe.under_way = 1 .. Len(pipe.under_way)
  BY PipeTypes
<1>2. /\ Head(pipe.under_way) = pipe.under_way[1] /\ Len(pipe.under_way) >= 1
      /\ Len(pipe.under_way) \in Nat /\ pipe.under_way[1] \in Transfer
      /\ Tail(pipe.under_way) \in Seq(Transfer)
  BY <1>1, HeadTailProperties, EmptySeq, WayTypes
<1> QED
  BY <1>1, <1>2 DEF Transfer

LEMMA CompleteStatusPipe ==
  ASSUME ConfigInv, PipeOK, PipeInv, CompleteStatus
  PROVE  PipeInv'
<1> DEFINE old == pipe.under_way
           way == pipe'.under_way
<1>1. old # <<>> /\ Head(old).trbs = 1 /\ pipe' = [pipe EXCEPT !.under_way = Tail(old)]
      /\ UNCHANGED <<events, initialize_phase, class_drivers, event_waiters, configuring, err>>
  BY DEF CompleteStatus, Others, found
<1>2. old[1].trbs = 1 /\ 1 \in DOMAIN old /\ Tail(old) \in Seq(Transfer)
  BY <1>1, HeadIsFirst
<1>3. way = Tail(old) /\ pipe'.ring = pipe.ring /\ pipe'.setup_stage_map = pipe.setup_stage_map
  BY <1>1, <1>2, PipeTypes, WayChanged
<1>4. /\ Len(way) = Len(old) - 1
      /\ \A k \in DOMAIN way : k \in Nat /\ k + 1 \in DOMAIN old /\ way[k] = old[k + 1]
      /\ \A k \in Asked' : k \in Nat /\ k + 1 \in Asked /\ k + 1 # 1 /\ way[k] = old[k + 1]
      /\ \A k \in Asked : k # 1 => k - 1 \in Asked' /\ way[k - 1] = old[k]
  BY <1>1, <1>3, TailWay
<1>5. Answered' = Answered
  BY <1>1 DEF Answered
<1>6. 1 \notin Asked
  BY <1>2 DEF Asked
<1>7. Open' = Open
  <2>1. ASSUME NEW i \in Open' PROVE i \in Open
    <3>1. CASE \E k \in Asked' : i = way[k].issuer
      BY <1>4, <3>1 DEF Open
    <3>2. CASE \E k \in Answered' : i = events'[k].issuer
      BY <1>1, <1>5, <3>2 DEF Open
    <3> QED
      BY <3>1, <3>2 DEF Open
  <2>2. ASSUME NEW i \in Open PROVE i \in Open'
    <3>1. CASE \E k \in Asked : i = old[k].issuer
      BY <1>4, <1>6, <3>1 DEF Open
    <3>2. CASE \E k \in Answered : i = events[k].issuer
      BY <1>1, <1>5, <3>2 DEF Open
    <3> QED
      BY <3>1, <3>2 DEF Open
  <2> QED
    BY <2>1, <2>2
<1>8. Apart'
  <2>1. ASSUME NEW j \in Asked', NEW k \in Asked', way[j].issuer = way[k].issuer PROVE j = k
    <3>1. j + 1 = k + 1
      BY <1>4, <2>1 DEF PipeInv, Apart
    <3> QED
      BY <1>4, <3>1
  <2>2. ASSUME NEW j \in Asked', NEW k \in Answered' PROVE way[j].issuer # events'[k].issuer
    <3>1. k \in Answered /\ j + 1 \in Asked /\ way[j] = old[j + 1] /\ events'[k] = events[k]
      BY <1>1, <1>4, <1>5
    <3>2. old[j + 1].issuer # events[k].issuer
      BY <3>1 DEF PipeInv, Apart
    <3> QED
      BY <3>1, <3>2
  <2>3. \A j, k \in Answered' : events'[j].issuer = events'[k].issuer => j = k
    BY <1>1, <1>5 DEF PipeInv, Apart
  <2> QED
    BY <2>1, <2>2, <2>3 DEF Apart
<1>9. \A i \in Open' : Traced(i)'
  BY <1>1, <1>3, <1>7, StaysTraced
<1>10. initialize_phase # 0 /\ ~configuring
  BY <1>1 DEF PipeInv, Idle
<1>11. ASSUME NEW k \in Asked' PROVE way[k].request = Expected[initialize_phase']
  <2>1. k + 1 \in Asked /\ way[k] = old[k + 1]
    BY <1>4
  <2>2. old[k + 1].request = Expected[initialize_phase]
    BY <2>1 DEF PipeInv
  <2> QED
    BY <1>1, <2>1, <2>2
<1>12. Len(old) \in Nat /\ Len(way) <= Len(old)
  BY <1>4, PipeTypes
<1>13. ASSUME initialize_phase \in 1 .. 3 PROVE OneRequest'
  <2>1. OneRequest
    BY <1>13 DEF PipeInv
  <2>2. Len(way) <= 2 /\ Len(way) # 2
    BY <1>4, <1>12, <2>1 DEF OneRequest
  <2>3. events # <<>> => \A k \in DOMAIN way : way[k].trbs = 1
    BY <1>4, <2>1 DEF OneRequest
  <2>4. initialize_phase = 3 => (events # <<>> => old = <<>>)
    BY <2>1 DEF OneRequest
  <2>5. initialize_phase = 3 => \A k \in DOMAIN way : way[k].trbs <= 2
    BY <1>4, <2>1 DEF OneRequest
  <2>6. Len(events') <= 1 /\ \A k \in 1 .. MapSize : \/ pipe'.setup_stage_map[k] = Free
                                                     \/ pipe'.setup_stage_map[k].issuer \in Open'
                                                     \/ Open' = {}
    BY <1>1, <1>3, <1>7, <2>1 DEF OneRequest
  <2> QED
    BY <1>1, <2>2, <2>3, <2>4, <2>5, <2>6 DEF OneRequest
<1>14. initialize_phase = 4 =>
         /\ Len(way) <= Cardinality(class_drivers')
         /\ \A k \in DOMAIN way : way[k].trbs <= 2
         /\ Open' # {} => event_waiters' > 0
  <2>1. Cardinality(class_drivers') \in Nat
    <3>1. Cardinality(class_drivers) \in 0 .. 15
      BY ConfigTypes, NumbersType
    <3>2. class_drivers' = class_drivers
      BY <1>1
    <3> QED
      BY <3>1, <3>2
  <2>2. initialize_phase = 4 => Len(way) <= Cardinality(class_drivers')
    <3>1. initialize_phase = 4 => Len(old) <= Cardinality(class_drivers')
      BY <1>1 DEF PipeInv
    <3> QED
      BY <1>4, <1>12, <2>1, <3>1
  <2> QED
    BY <1>1, <1>4, <1>7, <2>2 DEF PipeInv
<1>15. NoUnexpectedError'
  BY <1>1 DEF PipeInv, NoUnexpectedError
<1> QED
  BY <1>1, <1>8, <1>9, <1>10, <1>11, <1>13, <1>14, <1>15 DEF PipeInv

\* The event of the first transfer is there: behind a Data TRB its Status TRB
\* stays.
LEMMA IssuerGone ==
  ASSUME PipeOK, Apart, CompleteIssuer
  PROVE  /\ \A k \in Asked' : \E j \in Asked :
              j # 1 /\ pipe'.under_way[k] = pipe.under_way[j]
         /\ \A j \in Asked : j # 1 =>
              \E k \in Asked' : pipe'.under_way[k] = pipe.under_way[j]
         /\ \A j, k \in Asked' :
              pipe'.under_way[j].issuer = pipe'.under_way[k].issuer => j = k
         /\ Len(pipe'.under_way) <= Len(pipe.under_way)
         /\ \A k \in DOMAIN pipe'.under_way :
              \/ pipe'.under_way[k].trbs = 1
              \/ \E j \in DOMAIN pipe.under_way : pipe'.under_way[k].trbs = pipe.under_way[j].trbs
         /\ Len(pipe.under_way) = 1 =>
              /\ \A k \in DOMAIN pipe'.under_way : pipe'.under_way[k].trbs = 1
              /\ pipe.under_way[1].trbs = 2 => pipe'.under_way = <<>>
<1> DEFINE old == pipe.under_way
           way == pipe'.under_way
<1>1. /\ old # <<>> /\ old[1].trbs > 1 /\ old[1].trbs \in 1 .. 3 /\ 1 \in DOMAIN old
      /\ old \in Seq(Transfer) /\ Len(old) \in Nat /\ DOMAIN old = 1 .. Len(old)
  <2>1. old # <<>> /\ Head(old).trbs > 1
    BY DEF CompleteIssuer
  <2> QED
    BY <2>1, HeadIsFirst, PipeTypes
<1>2. way = IF old[1].trbs = 3 THEN [old EXCEPT ![1].trbs = 1] ELSE Tail(old)
  BY CompleteIssuerPipe
<1>3. \A j, k \in Asked : old[j].issuer = old[k].issuer => j = k
  BY DEF Apart
<1>4. CASE old[1].trbs = 3
  <2>1. /\ way \in Seq(Transfer) /\ Len(way) = Len(old)
        /\ way[1].trbs = 1 /\ \A k \in 2 .. Len(old) : way[k] = old[k]
    <3>1. way = [old EXCEPT ![1].trbs = 1]
      BY <1>2, <1>4
    <3> HIDE DEF way, old
    <3>2. /\ way \in Seq(Transfer) /\ Len(way) = Len(old)
          /\ way[1] = [issuer |-> old[1].issuer, request |-> old[1].request, trbs |-> 1]
          /\ \A k \in 2 .. Len(old) : way[k] = old[k]
      BY <1>1, <3>1, WayTypes
    <3> QED
      BY <3>2
  <2>2. DOMAIN way = DOMAIN old
    BY <1>1, <2>1
  <2> HIDE DEF way, old
  <2>3. \A k \in DOMAIN way : k # 1 => way[k] = old[k]
    BY <1>1, <2>1, <2>2
  <2>4. ~(1 > 1)
    OBVIOUS
  <2>5. \A k : k \in Asked' <=> k \in Asked /\ k # 1
    BY <2>1, <2>2, <2>3, <2>4 DEF Asked, way, old
  <2>6. \A k \in Asked' : k \in Asked /\ k # 1 /\ way[k] = old[k]
    BY <2>2, <2>3, <2>5 DEF Asked, way, old
  <2>7. \A k \in DOMAIN way : way[k].trbs = 1 \/ way[k].trbs = old[k].trbs
    BY <2>1, <2>3
  <2>8. Len(old) = 1 => \A k \in DOMAIN way : way[k].trbs = 1
    BY <1>1, <2>1, <2>2
  <2>9. Len(way) <= Len(old)
    BY <1>1, <2>1
  <2>10. ~(old[1].trbs = 2)
    BY <1>4
  <2>11. \A j, k \in Asked' : way[j].issuer = way[k].issuer => j = k
    BY <1>3, <2>6
  <2>12. \A k \in Asked' : \E j \in Asked : j # 1 /\ way[k] = old[j]
    BY <2>6
  <2>13. \A j \in Asked : j # 1 => \E k \in Asked' : way[k] = old[j]
    BY <2>5, <2>6
  <2>14. \A k \in DOMAIN way : way[k].trbs = 1 \/ \E j \in DOMAIN old : way[k].trbs = old[j].trbs
    BY <2>2, <2>7
  <2> QED
    BY <2>8, <2>9, <2>10, <2>11, <2>12, <2>13, <2>14 DEF way, old
<1>5. CASE old[1].trbs # 3
  <2>1. way = Tail(old)
    BY <1>2, <1>5
  <2>2. /\ Len(way) = Len(old) - 1
        /\ \A k \in DOMAIN way : k \in Nat /\ k + 1 \in DOMAIN old /\ way[k] = old[k + 1]
        /\ \A k \in Asked' : k \in Nat /\ k + 1 \in Asked /\ k + 1 # 1 /\ way[k] = old[k + 1]
        /\ \A k \in Asked : k # 1 => k - 1 \in Asked' /\ way[k - 1] = old[k]
    BY <1>1, <2>1, TailWay
  <2>3. way \in Seq(Transfer)
    BY <1>1, <2>1, WayTypes
  <2> HIDE DEF way, old
  <2>4. Len(old) = 1 => way = <<>> /\ \A k \in DOMAIN way : way[k].trbs = 1
    <3>1. Len(old) = 1 => Len(way) = 0
      BY <2>2
    <3> QED
      BY <2>3, <3>1, EmptySeq
  <2>5. ASSUME NEW j \in Asked', NEW k \in Asked', way[j].issuer = way[k].issuer PROVE j = k
    <3>1. j + 1 = k + 1
      BY <1>3, <2>2, <2>5
    <3> QED
      BY <2>2, <3>1
  <2>6. Len(way) <= Len(old)
    BY <1>1, <2>2
  <2>7. \A k \in Asked' : \E j \in Asked : j # 1 /\ way[k] = old[j]
    BY <2>2
  <2>8. \A j \in Asked : j # 1 => \E k \in Asked' : way[k] = old[j]
    BY <2>2
  <2>9. \A k \in DOMAIN way : \E j \in DOMAIN old : way[k].trbs = old[j].trbs
    BY <2>2
  <2> QED
    BY <2>4, <2>5, <2>6, <2>7, <2>8, <2>9 DEF way, old
<1> QED
  BY <1>4, <1>5

\* An event is added behind the others.
LEMMA EventAdded ==
  ASSUME PipeOK, pipe.under_way # <<>>, NEW ok \in BOOLEAN, Finish(ok)
  PROVE  /\ Len(events') = Len(events) + 1
         /\ events' # <<>>
         /\ \A k \in Answered : k \in Answered' /\ events'[k] = events[k]
         /\ \A k \in Answered' : k \in Answered \/ (k = Len(events) + 1 /\ ok)
         /\ ok => Len(events) + 1 \in Answered'
         /\ events'[Len(events) + 1].issuer = pipe.under_way[1].issuer
         /\ Len(events) + 1 \notin Answered
<1> DEFINE e == [issuer |-> pipe.under_way[1].issuer, ok |-> ok]
           n == Len(events)
<1>1. events' = Append(events, e) /\ e \in Event /\ events \in Seq(Event) /\ n \in Nat
  <2>1. Head(pipe.under_way) = pipe.under_way[1] /\ pipe.under_way[1].issuer \in Position
    BY HeadIsFirst
  <2>2. e \in Event
    BY <2>1 DEF Event
  <2> QED
    BY <2>1, <2>2, PipeTypes DEF Finish, PipeOK
<1>2. e.issuer = pipe.under_way[1].issuer /\ e.ok = ok
  OBVIOUS
<1> HIDE DEF e
<1>3. /\ Len(events') = n + 1 /\ DOMAIN events' = 1 .. n + 1 /\ DOMAIN events = 1 .. n
      /\ events'[n + 1] = e /\ \A k \in 1 .. n : events'[k] = events[k]
  BY <1>1, AppendProperties
<1>4. events' # <<>>
  BY <1>1, <1>3
<1> HIDE DEF n
<1>5. \A k \in 1 .. n : k \in 1 .. n + 1
  BY <1>1
<1>6. \A k \in 1 .. n + 1 : k \in 1 .. n \/ k = n + 1
  BY <1>1
<1>7. n + 1 \notin 1 .. n /\ n + 1 \in 1 .. n + 1
  BY <1>1
<1>8. \A k \in Answered : k \in Answered' /\ events'[k] = events[k]
  BY <1>3, <1>5 DEF Answered
<1>9. \A k \in Answered' : k \in Answered \/ (k = n + 1 /\ ok)
  <2> SUFFICES ASSUME NEW k \in Answered' PROVE k \in Answered \/ (k = n + 1 /\ ok)
    OBVIOUS
  <2>1. k \in 1 .. n + 1 /\ events'[k].ok
    BY <1>3 DEF Answered
  <2>2. CASE k \in 1 .. n
    <3>1. events[k].ok /\ k \in DOMAIN events
      BY <1>3, <2>1, <2>2
    <3> QED
      BY <3>1 DEF Answered
  <2>3. CASE k = n + 1
    BY <1>2, <1>3, <2>1, <2>3
  <2> QED
    BY <1>6, <2>1, <2>2, <2>3
<1>10. ok => n + 1 \in Answered'
  BY <1>2, <1>3, <1>7 DEF Answered
<1>11. n + 1 \notin Answered
  BY <1>3, <1>7 DEF Answered
<1> QED
  BY <1>2, <1>3, <1>4, <1>8, <1>9, <1>10, <1>11 DEF n

LEMMA CompleteIssuerInOrder ==
  ASSUME PipeOK, PipeInv, CompleteIssuer
  PROVE  Open' = Open /\ Apart'
<1> DEFINE old == pipe.under_way
           way == pipe'.under_way
           n == Len(events) + 1
<1>1. old # <<>> /\ Finish(TRUE) /\ 1 \in Asked
  BY HeadIsFirst DEF CompleteIssuer, Asked
<1>2. /\ \A k \in Asked' : \E j \in Asked : j # 1 /\ way[k] = old[j]
      /\ \A j \in Asked : j # 1 => \E k \in Asked' : way[k] = old[j]
      /\ \A j, k \in Asked' : way[j].issuer = way[k].issuer => j = k
  BY IssuerGone DEF PipeInv
<1>3. /\ \A k \in Answered : k \in Answered' /\ events'[k] = events[k]
      /\ \A k \in Answered' : k \in Answered \/ k = n
      /\ n \in Answered' /\ n \notin Answered /\ events'[n].issuer = old[1].issuer
  BY <1>1, EventAdded
<1> HIDE DEF n
<1>4. Apart
  BY DEF PipeInv
<1>5. Open' = Open
  <2>1. ASSUME NEW i \in Open' PROVE i \in Open
    <3>1. CASE \E k \in Asked' : i = way[k].issuer
      BY <1>2, <3>1 DEF Open
    <3>2. CASE \E k \in Answered' : i = events'[k].issuer
      BY <1>1, <1>3, <3>2 DEF Open
    <3> QED
      BY <3>1, <3>2 DEF Open
  <2>2. ASSUME NEW i \in Open PROVE i \in Open'
    <3>1. CASE \E k \in Asked : i = old[k].issuer
      <4>1. PICK k \in Asked : i = old[k].issuer
        BY <3>1
      <4>2. CASE k = 1
        BY <1>3, <4>1, <4>2 DEF Open
      <4>3. CASE k # 1
        BY <1>2, <4>1, <4>3 DEF Open
      <4> QED
        BY <4>2, <4>3
    <3>2. CASE \E k \in Answered : i = events[k].issuer
      BY <1>3, <3>2 DEF Open
    <3> QED
      BY <3>1, <3>2 DEF Open
  <2> QED
    BY <2>1, <2>2
<1>6. Apart'
  <2>1. ASSUME NEW j \in Answered', NEW k \in Answered', events'[j].issuer = events'[k].issuer
        PROVE  j = k
    <3>1. \A l \in Answered : events'[l].issuer # old[1].issuer
      BY <1>1, <1>3, <1>4 DEF Apart
    <3>2. CASE j = n \/ k = n
      BY <1>3, <2>1, <3>1, <3>2
    <3>3. CASE j # n /\ k # n
      BY <1>3, <1>4, <2>1, <3>3 DEF Apart
    <3> QED
      BY <3>2, <3>3
  <2>2. ASSUME NEW j \in Asked', NEW k \in Answered' PROVE way[j].issuer # events'[k].issuer
    <3>1. PICK l \in Asked : l # 1 /\ way[j] = old[l]
      BY <1>2
    <3>2. old[l].issuer # old[1].issuer
      BY <1>1, <1>4, <3>1 DEF Apart
    <3>3. CASE k = n
      BY <1>3, <3>1, <3>2, <3>3
    <3>4. CASE k # n
      <4>1. k \in Answered /\ events'[k] = events[k]
        BY <1>3, <3>4
      <4>2. old[l].issuer # events[k].issuer
        BY <1>4, <4>1 DEF Apart
      <4> QED
        BY <3>1, <4>1, <4>2
    <3> QED
      BY <3>3, <3>4
  <2> QED
    BY <1>2, <2>1, <2>2 DEF Apart
<1> QED
  BY <1>5, <1>6

LEMMA CompleteIssuerPipeInv ==
  ASSUME ConfigInv, PipeOK, PipeInv, CompleteIssuer
  PROVE  PipeInv'
<1> DEFINE old == pipe.under_way
           way == pipe'.under_way
<1>1. old # <<>> /\ old[1].trbs > 1 /\ 1 \in Asked /\ 1 \in DOMAIN old /\ Finish(TRUE)
      /\ UNCHANGED <<initialize_phase, class_drivers, event_waiters, configuring, err>>
  BY HeadIsFirst DEF CompleteIssuer, Others, found, Asked
<1>2. pipe'.ring = pipe.ring /\ pipe'.setup_stage_map = pipe.setup_stage_map
  BY CompleteIssuerPipe
<1>3. Open' = Open /\ Apart'
  BY CompleteIssuerInOrder
<1>4. \A i \in Open' : Traced(i)'
  BY <1>1, <1>2, <1>3, StaysTraced
<1>5. /\ \A k \in Asked' : \E j \in Asked : j # 1 /\ way[k] = old[j]
      /\ Len(way) <= Len(old)
      /\ \A k \in DOMAIN way : way[k].trbs = 1 \/ \E j \in DOMAIN old : way[k].trbs = old[j].trbs
      /\ Len(old) = 1 => /\ \A k \in DOMAIN way : way[k].trbs = 1
                         /\ old[1].trbs = 2 => way = <<>>
  BY IssuerGone DEF PipeInv
<1>6. initialize_phase # 0 /\ ~configuring
  BY <1>1 DEF PipeInv, Idle
<1>7. \A k \in Asked' : way[k].request = Expected[initialize_phase']
  BY <1>1, <1>5 DEF PipeInv
<1>8. NoUnexpectedError'
  BY <1>1 DEF PipeInv, NoUnexpectedError
<1>9. Len(old) \in Nat /\ Len(way) \in Nat /\ Len(old) # 0 /\ Len(events) \in Nat
      /\ old[1].trbs \in 1 .. 3
  <2>1. Len(way) \in Nat
    BY CompleteIssuerPipe, WayTypes
  <2> QED
    BY <1>1, <2>1, PipeTypes, HeadIsFirst, EmptySeq
<1>10. ASSUME initialize_phase \in 1 .. 3 PROVE OneRequest'
  <2>1. OneRequest
    BY <1>10 DEF PipeInv
  <2>2. old[1].trbs # 1
    BY <1>1, <1>9
  <2>3. events = <<>> /\ Len(old) <= 2 /\ Len(old) # 2
    BY <1>1, <2>1, <2>2 DEF OneRequest
  <2>4. Len(old) = 1
    <3>1. \A m \in Nat : m # 0 /\ m # 2 /\ m <= 2 => m = 1
      OBVIOUS
    <3> QED
      BY <1>9, <2>3, <3>1
  <2>5. Len(events') = 1
    <3>1. Len(events) = 0
      BY <2>3
    <3>2. Len(events') = Len(events) + 1
      BY <1>1, EventAdded
    <3> QED
      BY <3>1, <3>2
  <2>6. Len(way) <= 1 /\ Len(way) # 2 /\ Len(way) <= 2
    <3>1. Len(way) \in Nat /\ Len(way) <= 1
      BY <1>5, <1>9, <2>4
    <3>2. \A m \in Nat : m <= 1 => m # 2 /\ m <= 2
      OBVIOUS
    <3> QED
      BY <3>1, <3>2
  <2>7. \A k \in DOMAIN way : way[k].trbs = 1
    BY <1>5, <2>4
  <2>8. initialize_phase = 3 => way = <<>>
    <3>1. initialize_phase = 3 => old[1].trbs <= 2
      BY <1>1, <2>1 DEF OneRequest
    <3>2. initialize_phase = 3 => old[1].trbs = 2
      BY <1>1, <1>9, <3>1
    <3> QED
      BY <1>5, <2>4, <3>2
  <2>9. \A k \in DOMAIN way : way[k].trbs <= 2
    BY <2>7
  <2>10. \A k \in 1 .. MapSize : \/ pipe'.setup_stage_map[k] = Free
                                 \/ pipe'.setup_stage_map[k].issuer \in Open'
                                 \/ Open' = {}
    BY <1>2, <1>3, <2>1 DEF OneRequest
  <2>11. Len(events') <= 1
    BY <2>5
  <2> QED
    BY <1>1, <2>6, <2>7, <2>8, <2>9, <2>10, <2>11 DEF OneRequest
<1>11. initialize_phase = 4 =>
         /\ Len(way) <= Cardinality(class_drivers')
         /\ \A k \in DOMAIN way : way[k].trbs <= 2
         /\ Open' # {} => event_waiters' > 0
  <2>1. Cardinality(class_drivers') \in Nat
    BY <1>1, ConfigTypes, NumbersType
  <2>2. initialize_phase = 4 => Len(way) <= Cardinality(class_drivers')
    <3>1. initialize_phase = 4 => Len(old) <= Cardinality(class_drivers')
      BY <1>1 DEF PipeInv
    <3> QED
      BY <1>5, <1>9, <2>1, <3>1
  <2>3. initialize_phase = 4 => \A k \in DOMAIN way : way[k].trbs <= 2
    <3>1. initialize_phase = 4 => \A k \in DOMAIN old : old[k].trbs <= 2
      BY DEF PipeInv
    <3> QED
      BY <1>5, <3>1
  <2> QED
    BY <1>1, <1>3, <2>2, <2>3 DEF PipeInv
<1> QED
  BY <1>1, <1>3, <1>4, <1>6, <1>7, <1>8, <1>10, <1>11 DEF PipeInv

LEMMA FailControlPipe ==
  ASSUME ConfigInv, PipeOK, PipeInv, FailControl
  PROVE  PipeInv'
<1> DEFINE old == pipe.under_way
           way == pipe'.under_way
<1>1. old # <<>> /\ old[1].trbs > 1 /\ 1 \in DOMAIN old /\ Finish(FALSE)
      /\ UNCHANGED <<initialize_phase, class_drivers, event_waiters, configuring, err>>
  BY HeadIsFirst DEF FailControl, Others, found
<1>2. way = <<>> /\ pipe'.ring = pipe.ring /\ pipe'.setup_stage_map = pipe.setup_stage_map
  <2>1. <<>> \in Seq(Transfer)
    OBVIOUS
  <2>2. pipe' = [pipe EXCEPT !.under_way = <<>>]
    BY DEF FailControl
  <2> QED
    BY <2>1, <2>2, PipeTypes, WayChanged
<1>3. Asked' = {}
  BY <1>2 DEF Asked
<1>4. /\ \A k \in Answered' : k \in Answered /\ events'[k] = events[k]
      /\ Len(events') = Len(events) + 1
  BY <1>1, EventAdded
<1>5. Open' \subseteq Open
  BY <1>3, <1>4 DEF Open
<1>6. Apart'
  BY <1>3, <1>4 DEF PipeInv, Apart
<1>7. \A i \in Open' : Traced(i)'
  BY <1>1, <1>2, <1>5, StaysTraced
<1>8. initialize_phase # 0 /\ ~configuring
  BY <1>1 DEF PipeInv, Idle
<1>9. NoUnexpectedError'
  BY <1>1 DEF PipeInv, NoUnexpectedError
<1>10. Len(way) = 0 /\ DOMAIN way = {}
  BY <1>2
<1>11. ASSUME initialize_phase \in 1 .. 3 PROVE OneRequest'
  <2>1. old[1].trbs # 1
    BY <1>1, HeadIsFirst
  <2>2. events = <<>>
    BY <1>1, <1>11, <2>1 DEF PipeInv, OneRequest
  <2>3. Len(events') = 1
    <3>1. Len(events) = 0
      BY <2>2
    <3> QED
      BY <1>4, <3>1
  <2>4. Answered' = {}
    BY <1>4, <2>2 DEF Answered
  <2>5. Open' = {}
    BY <1>3, <2>4 DEF Open
  <2>6. Len(events') <= 1 /\ Len(way) <= 2 /\ Len(way) # 2
    BY <1>10, <2>3
  <2> QED
    BY <1>2, <1>10, <2>5, <2>6 DEF OneRequest
<1>12. initialize_phase = 4 =>
         /\ Len(way) <= Cardinality(class_drivers')
         /\ \A k \in DOMAIN way : way[k].trbs <= 2
         /\ Open' # {} => event_waiters' > 0
  <2>1. Cardinality(class_drivers') \in Nat
    BY <1>1, ConfigTypes, NumbersType
  <2> QED
    BY <1>1, <1>5, <1>10, <2>1 DEF PipeInv
<1> QED
  BY <1>1, <1>3, <1>6, <1>7, <1>8, <1>9, <1>11, <1>12 DEF PipeInv

LEMMA PipeInvInit ==
  ASSUME Init
  PROVE  PipeInv
<1>1. initialize_phase = 0 /\ events = <<>> /\ pipe.under_way = <<>> /\ err = "kSuccess"
      /\ pipe.setup_stage_map = [k \in 1 .. MapSize |-> Free]
  BY DEF Init
<1>2. configuring = FALSE
  BY DEF Init
<1>3. Idle /\ Asked = {} /\ Answered = {}
  BY <1>1 DEF Idle, Unused, Asked, Answered
<1>4. Open = {}
  BY <1>3 DEF Open
<1>5. initialize_phase \notin 1 .. 3 /\ initialize_phase # 4
  BY <1>1
<1> QED
  BY <1>1, <1>3, <1>4, <1>5 DEF PipeInv, Apart, NoUnexpectedError

LEMMA PipeInvStep ==
  ASSUME DriverSizes, ConfigInv, PipeOK, ReportInv, PipeInv, [Next]_vars
  PROVE  PipeInv'
<1>1. CASE OnReport
  <2>1. initialize_phase = 4
    BY <1>1 DEF OnReport, ReportInv, ConfigInv
  <2>2. err' = "kSuccess"
    BY <1>1, <2>1, ReportsHaveDriver DEF OnReport, InterruptIn
  <2>3. NoUnexpectedError'
    BY <2>2 DEF NoUnexpectedError
  <2>4. UNCHANGED <<pipe, events, initialize_phase, class_drivers, event_waiters, configuring>>
    BY <1>1 DEF OnReport, found
  <2> QED
    BY <2>3, <2>4, OtherPipe
<1>2. CASE FailReport \/ Report
  <2>1. err' \in {err, "kTransferFailed"}
    BY <1>2 DEF FailReport, Report, Others
  <2>2. NoUnexpectedError'
    BY <2>1 DEF PipeInv, NoUnexpectedError
  <2>3. UNCHANGED <<pipe, events, initialize_phase, class_drivers, event_waiters, configuring>>
    BY <1>2 DEF FailReport, Report, Others, found
  <2> QED
    BY <2>2, <2>3, OtherPipe
<1>3. CASE UNCHANGED vars
  <2>1. NoUnexpectedError'
    BY <1>3 DEF PipeInv, NoUnexpectedError, vars
  <2>2. UNCHANGED <<pipe, events, initialize_phase, class_drivers, event_waiters, configuring>>
    BY <1>3 DEF vars, found
  <2> QED
    BY <2>1, <2>2, OtherPipe
<1> QED
  BY <1>1, <1>2, <1>3, StartInitializePipe, InitializePhase1Pipe, InitializePhase2Pipe,
     InitializePhase3Pipe, OnEndpointsConfiguredPipe, OnProtocolSetPipe, RefuseControlPipe,
     CompleteIssuerPipeInv, CompleteStatusPipe, FailControlPipe DEF Next, Driver, Hardware

LEMMA PipeAlways ==
  ASSUME DriverSizes
  PROVE  Spec => []PipeInv
<1>1. Init => PipeInv
  BY PipeInvInit
<1>2. ConfigInv /\ PipeOK /\ ReportInv /\ PipeInv /\ [Next]_vars => PipeInv'
  BY PipeInvStep
<1> QED
  BY <1>1, <1>2, ConfigAlways, PipeOKAlways, ReportsAlways, PTL DEF Spec

\* EventsUnderstood, with the arrays of the driver: whatever the device and however
\* its transfers end, wrap and fail, an event is traced back to its request
\* (Device::OnTransferEventReceived, Device::OnControlCompleted).
THEOREM EventsAlwaysUnderstood ==
  ASSUME DriverSizes
  PROVE  Spec => []EventsUnderstood
<1>1. PipeOK /\ PipeInv => EventsUnderstood
  <2> SUFFICES ASSUME PipeOK, PipeInv PROVE EventsUnderstood
    OBVIOUS
  <2>1. ASSUME NEW k \in DOMAIN pipe.under_way, pipe.under_way[k].trbs > 1
        PROVE  /\ Has(pipe.setup_stage_map, pipe.under_way[k].issuer)
               /\ pipe.ring[Get(pipe.setup_stage_map, pipe.under_way[k].issuer)]
                    = pipe.under_way[k].request
    <3>1. k \in Asked
      BY <2>1 DEF Asked
    <3>2. pipe.under_way[k].request = Expected[initialize_phase]
          /\ Traced(pipe.under_way[k].issuer)
      BY <3>1 DEF PipeInv, Open
    <3> QED
      BY <3>2, TracedBack
  <2> QED
    BY <2>1 DEF EventsUnderstood, SetupStageFound, PipeInv
<1> QED
  BY <1>1, PipeAlways, PipeOKAlways, PTL

LEMMA TrbsCounted ==
  ASSUME PipeOK, NEW n \in 0 .. 15, NEW m \in 0 .. 3, Len(pipe.under_way) <= n,
         \A k \in DOMAIN pipe.under_way : pipe.under_way[k].trbs <= m
  PROVE  Cardinality(TrbsUnderWay) <= n * m
<1> DEFINE all == (1 .. n) \X (1 .. m)
<1>1. TrbsUnderWay \in SUBSET all
  <2> SUFFICES ASSUME NEW t \in TrbsUnderWay PROVE t \in all
    OBVIOUS
  <2>1. PICK k \in DOMAIN pipe.under_way, i \in 1 .. 3 : t = <<k, i>> /\ i <= pipe.under_way[k].trbs
    BY DEF TrbsUnderWay
  <2>2. k \in 1 .. Len(pipe.under_way) /\ Len(pipe.under_way) \in Nat /\ k \in Nat
    BY PipeTypes
  <2>3. pipe.under_way[k].trbs \in 1 .. 3
    BY <2>2, PipeTypes DEF Transfer
  <2>4. k \in 1 .. n
    BY <2>2
  <2>5. i \in 1 .. m
    BY <2>1, <2>3
  <2> QED
    BY <2>1, <2>4, <2>5
<1>2. \A a \in Nat : IsFiniteSet(1 .. a) /\ Cardinality(1 .. a) = a
  <2> SUFFICES ASSUME NEW a \in Nat PROVE IsFiniteSet(1 .. a) /\ Cardinality(1 .. a) = a
    OBVIOUS
  <2>1. 1 \in Int /\ a \in Int /\ a - 1 + 1 = a /\ (1 > a => a = 0)
    OBVIOUS
  <2>2. IsFiniteSet(1 .. a) /\ Cardinality(1 .. a) = IF 1 > a THEN 0 ELSE a - 1 + 1
    BY <2>1, FS_Interval
  <2> QED
    BY <2>1, <2>2
<1>3. n \in Nat /\ m \in Nat
  OBVIOUS
<1>4. IsFiniteSet(all) /\ Cardinality(all) = n * m
  <2>1. IsFiniteSet(1 .. n) /\ IsFiniteSet(1 .. m) /\ Cardinality(1 .. n) = n /\ Cardinality(1 .. m) = m
    BY <1>2, <1>3
  <2> QED
    BY <2>1, FS_Product
<1> HIDE DEF all
<1>5. Cardinality(TrbsUnderWay) <= Cardinality(all)
  BY <1>1, <1>4, FS_Subset
<1> QED
  BY <1>4, <1>5

\* RingRoom, with the arrays of the driver: a device has at most 15 endpoint
\* numbers, so no more than 30 TRBs are under way on a ring of 32
\* (Device::OnEndpointsConfigured, Ring::Push).
THEOREM RingAlwaysHasRoom ==
  ASSUME DriverSizes
  PROVE  Spec => []RingRoom
<1>1. ConfigInv /\ PipeOK /\ ReportInv /\ PipeInv => RingRoom
  <2> SUFFICES ASSUME ConfigInv, PipeOK, ReportInv, PipeInv PROVE RingRoom
    OBVIOUS
  <2>1. RingSize \in Nat /\ RingSize >= 32 /\ initialize_phase \in 0 .. 4
    BY DeviceAssumption DEF DriverSizes, ConfigInv
  <2>2. \A k \in DOMAIN pipe.under_way : pipe.under_way[k].trbs \in Nat /\ pipe.under_way[k].trbs <= 3
    <3>1. \A k \in DOMAIN pipe.under_way : pipe.under_way[k] \in Transfer
      BY PipeTypes
    <3> QED
      BY <3>1 DEF Transfer
  <2>3. Cardinality(TrbsUnderWay) \in Nat /\ Cardinality(TrbsUnderWay) <= 30
    <3>1. IsFiniteSet(TrbsUnderWay)
      <4>1. 1 \in Int /\ 3 \in Int /\ Len(pipe.under_way) \in Int
            /\ DOMAIN pipe.under_way = 1 .. Len(pipe.under_way)
        BY PipeTypes
      <4>2. IsFiniteSet(1 .. 3) /\ IsFiniteSet(DOMAIN pipe.under_way)
        BY <4>1, FS_Interval
      <4>3. IsFiniteSet((DOMAIN pipe.under_way) \X (1 .. 3))
        BY <4>2, FS_Product
      <4> QED
        BY <4>3, FS_Subset DEF TrbsUnderWay
    <3>2. Cardinality(TrbsUnderWay) \in Nat
      BY <3>1, FS_CardinalityType
    <3>3. CASE initialize_phase = 4
      <4>1. Cardinality(class_drivers) \in 0 .. 15
        BY ConfigTypes, NumbersType
      <4>2. Cardinality(TrbsUnderWay) <= Cardinality(class_drivers) * 2
        <5>1. 2 \in 0 .. 3
          OBVIOUS
        <5> QED
          BY <3>3, <4>1, <5>1, TrbsCounted DEF PipeInv
      <4> QED
        BY <3>2, <4>1, <4>2
    <3>4. CASE initialize_phase # 4
      <4>1. Len(pipe.under_way) <= 2
        <5>1. CASE initialize_phase = 0
          BY <5>1 DEF PipeInv, Idle
        <5>2. CASE initialize_phase \in 1 .. 3
          BY <5>2 DEF PipeInv, OneRequest
        <5> QED
          BY <2>1, <3>4, <5>1, <5>2
      <4>2. Cardinality(TrbsUnderWay) <= 2 * 3
        <5>1. 2 \in 0 .. 15 /\ 3 \in 0 .. 3
          OBVIOUS
        <5> QED
          BY <2>2, <4>1, <5>1, TrbsCounted
      <4> QED
        BY <3>2, <4>2
    <3> QED
      BY <3>2, <3>3, <3>4
  <2>4. Cardinality(TrbsUnderWay) <= RingSize - 2
    BY <2>1, <2>3
  <2> QED
    BY <2>4 DEF RingRoom, ReportInv
<1> QED
  BY <1>1, PipeAlways, ConfigAlways, PipeOKAlways, ReportsAlways, PTL
=============================================================================
