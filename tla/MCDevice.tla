------------------------------ MODULE MCDevice ------------------------------
EXTENDS Device

In(n)   == [type |-> "endpoint", length |-> 7, conf |-> [num |-> n, in |-> TRUE, interrupt |-> TRUE]]
Out(n)  == [type |-> "endpoint", length |-> 7, conf |-> [num |-> n, in |-> FALSE, interrupt |-> TRUE]]
Bulk(n) == [type |-> "endpoint", length |-> 7, conf |-> [num |-> n, in |-> TRUE, interrupt |-> FALSE]]
Other(n) == <<[type |-> "other", length |-> n]>>
If(class, sub, protocol, eps) ==
  <<[type |-> "interface", length |-> 9, num_endpoints |-> Len(eps),
     class |-> class, sub_class |-> sub, protocol |-> protocol]>>
    \o (IF class = 3 THEN Other(9) ELSE <<>>) \o eps
Keyboard(eps) == Other(9) \o If(3, 1, 1, eps)
Mouse(eps)    == Other(9) \o If(3, 1, 2, eps)
Storage       == Other(9) \o If(8, 6, 80, <<Bulk(1), Bulk(2)>>)

\* A mouse; a keyboard with LEDs; one with a number for both directions; two
\* endpoints for reports each way; a composite device whose first interface
\* has no driver and whose third is not looked at; a HID device that is not
\* of the boot kind; a memory stick; a headset with keys behind 240 bytes of
\* audio descriptors, so that the endpoint is behind the end of the buffer,
\* and one that is longer still.
MCConfigurations ==
  {Mouse(<<In(1)>>), Mouse(<<In(1), In(2)>>),
   Keyboard(<<In(1), Out(2)>>), Keyboard(<<Out(1), In(1)>>),
   Keyboard(<<Out(2), In(1), Out(3), In(3)>>),
   Storage \o If(3, 1, 1, <<In(3), Bulk(2)>>) \o If(3, 1, 2, <<In(1)>>),
   Other(9) \o If(3, 0, 1, <<In(1)>>), Storage,
   Other(9) \o Other(120) \o Other(109) \o If(3, 1, 1, <<In(1)>>),
   Other(9) \o Other(120) \o Other(127) \o If(3, 1, 1, <<In(1)>>)}

\* Modifier 4 is the left Alt key, key 4 is A.
MCModifiers == {0, 4}
MCMoves     == {1, 255}
=============================================================================
