-------------------------- MODULE DescriptorReader --------------------------
(***************************************************************************)
(* What kernel/usb/device.cpp makes of a configuration descriptor: the     *)
(* ConfigurationDescriptorReader and the loops of InitializePhase2.        *)
(*                                                                         *)
(* A configuration is the sequence of descriptors that the device sends.   *)
(* The driver asks for as many bytes as its buffer holds, so it sees the   *)
(* descriptors that start in the buffer.  Next() steps from one to the     *)
(* next by the length in its first byte.                                   *)
(***************************************************************************)
EXTENDS Naturals, Sequences, FiniteSets

CONSTANT BufSize   \* bytes of Device::buf_

ASSUME BufSizeAssumption == BufSize \in Nat \ {0}

\* What MakeEPConfig keeps of an endpoint descriptor.
Endpoint == [num : 1 .. 15, in : BOOLEAN, interrupt : BOOLEAN]

\* The bytes of a descriptor that the driver looks at.  "other": the
\* configuration descriptor itself, HID, and what the driver does not know.
Descriptor ==
  [type : {"other"}, length : 2 .. 255]
    \cup [type : {"interface"}, length : {9}, num_endpoints : 0 .. 16,
          class : 0 .. 255, sub_class : 0 .. 255, protocol : 0 .. 255]
    \cup [type : {"endpoint"}, length : {7}, conf : Endpoint]

\* Where the descriptors start, and the end of the last.
Offset(config) ==
  LET At[k \in 1 .. Len(config) + 1] ==
        IF k = 1 THEN 0 ELSE At[k - 1] + config[k - 1].length
  IN At

\* Next(): null from the end of the buffer on.
Seen(config) ==
  LET start == Offset(config)
      k     == CHOOSE n \in 0 .. Len(config) :
                 /\ n > 0 => start[n] < BufSize
                 /\ n < Len(config) => start[n + 1] >= BufSize
  IN SubSeq(config, 1, k)

\* No interface and no endpoint is cut in two at the end of the buffer.
CutBetween(config) ==
  \A k \in 1 .. Len(Seen(config)) :
    config[k].type # "other" => Offset(config)[k + 1] <= BufSize

\* The HID boot interfaces have a driver.
NewClassDriver(desc) ==
  IF desc.class # 3 \/ desc.sub_class # 1 THEN "none"
  ELSE IF desc.protocol = 1 THEN "keyboard"
  ELSE IF desc.protocol = 2 THEN "mouse" ELSE "none"

\* The loops of InitializePhase2: the driver found, the endpoints it still
\* waits for, and those it has.
Nothing == [driver |-> "none", wanted |-> 0, endpoints |-> <<>>]

\* Mutated: the search does not end at the first driver.
ReadAgain(found, desc) ==
  IF desc.type = "interface"
    THEN [found EXCEPT !.driver = NewClassDriver(desc), !.wanted = desc.num_endpoints]
  ELSE IF desc.type = "endpoint" /\ found.wanted > 0
    THEN [found EXCEPT !.wanted = @ - 1, !.endpoints = Append(@, desc.conf)]
  ELSE found

Read(found, desc) ==
  IF found.driver = "none" /\ desc.type = "interface" /\ NewClassDriver(desc) # "none"
    THEN [driver |-> NewClassDriver(desc), wanted |-> desc.num_endpoints, endpoints |-> <<>>]
  ELSE IF found.wanted > 0 /\ desc.type = "endpoint"
    THEN [found EXCEPT !.wanted = @ - 1, !.endpoints = Append(@, desc.conf)]
  ELSE found

\* The reader starts on the configuration descriptor: the first Next() is
\* already behind it.
ReadConfiguration(config) ==
  LET seen == Seen(config)
      After[k \in 1 .. Len(seen)] ==
        IF k = 1 THEN Nothing ELSE Read(After[k - 1], seen[k])
  IN After[Len(seen)]

\* The inner loop goes on with the null pointer that Next() returned.
Astray(found) == found.wanted > 0

-----------------------------------------------------------------------------
(* The configuration as the USB specification has it: the endpoints of an  *)
(* interface are those before the next interface.                          *)

InterfacesOf(config) == {k \in DOMAIN config : config[k].type = "interface"}

EndpointsOf(config, k) ==
  {j \in DOMAIN config : /\ j > k
                         /\ config[j].type = "endpoint"
                         /\ \A i \in InterfacesOf(config) : i <= k \/ i > j}

\* All of it fits into the buffer; it begins with the configuration descriptor
\* and each interface has the endpoints it says.
Fits(config) == Offset(config)[Len(config) + 1] <= BufSize
WellFormed(config) ==
  /\ config # <<>> /\ config[1].type = "other"
  /\ \A k \in InterfacesOf(config) :
       config[k].num_endpoints = Cardinality(EndpointsOf(config, k))

\* The interface to drive: the first that has a driver.
Driven(config) ==
  {k \in InterfacesOf(config) :
     /\ NewClassDriver(config[k]) # "none"
     /\ \A i \in InterfacesOf(config) : i < k => NewClassDriver(config[i]) = "none"}

\* The i-th element of a set of positions.
Nth(S, i) == CHOOSE j \in S : Cardinality({e \in S : e <= j}) = i

Promised(config) ==
  IF Driven(config) = {} THEN Nothing
  ELSE LET k == CHOOSE i \in Driven(config) : TRUE
           eps == EndpointsOf(config, k)
       IN [driver    |-> NewClassDriver(config[k]),
           wanted    |-> 0,
           endpoints |-> [i \in 1 .. Cardinality(eps) |-> config[Nth(eps, i)].conf]]
=============================================================================
