-------------------------------- MODULE MCBoot --------------------------------
EXTENDS Boot

Fn(class, intel, multi, secondary) ==
  [class |-> class, intel |-> intel, multi |-> multi, secondary |-> secondary]
Host == Fn("other", TRUE, FALSE, 0)
MultiHost == Fn("other", TRUE, TRUE, 0)
Bridge(bus) == Fn("bridge", TRUE, FALSE, bus)
Xhc(intel) == Fn("xhc", intel, FALSE, 0)
Other == Fn("other", FALSE, TRUE, 0)

Flat == <<0, 0, 0>> :> Host @@ <<0, 1, 0>> :> Xhc(TRUE) @@ <<0, 2, 0>> :> Fn("ehci", TRUE, FALSE, 0)
\* Two controllers, Intel's first; a multi-function device.
Two == <<0, 0, 0>> :> Host @@ <<0, 1, 0>> :> Other @@ <<0, 1, 1>> :> Xhc(TRUE)
       @@ <<0, 2, 0>> :> Xhc(FALSE)
\* The controller is behind two bridges, the first in a multi-function device.
Behind == <<0, 0, 0>> :> Host @@ <<0, 1, 0>> :> Fn("bridge", TRUE, TRUE, 1) @@ <<1, 0, 0>> :> Bridge(2)
          @@ <<2, 1, 0>> :> Xhc(FALSE) @@ <<0, 1, 1>> :> Other
\* Two host bridges; the second bus has the controller.
Hosts == <<0, 0, 0>> :> MultiHost @@ <<0, 0, 1>> :> Host @@ <<1, 2, 0>> :> Xhc(FALSE)
\* More functions than places, and the controller is the last.
Crowded == <<0, 0, 0>> :> MultiHost @@ <<0, 0, 1>> :> Host @@ <<0, 1, 0>> :> Other
           @@ <<0, 1, 1>> :> Other @@ <<0, 2, 0>> :> Bridge(2) @@ <<2, 0, 0>> :> Xhc(TRUE)
\* The same with a controller early enough.
Early == [a \in DOMAIN Crowded |-> IF a = <<0, 1, 1>> THEN Xhc(FALSE) ELSE Crowded[a]]
\* No controller; a bridge without a bus number leads back to bus 0.
Loop == <<0, 0, 0>> :> Host @@ <<0, 1, 0>> :> Bridge(0)
None == <<0, 0, 0>> :> Host

MCConfigSpaces == {Flat, Two, Behind, Hosts, Crowded, Early, Loop, None}

\* One of 32 bits, whose neighbour is another one.
Narrow == [base |-> 3, wide |-> FALSE, next |-> 1]

M(space, pool, pads, caps, legacy, os, bios, run) ==
  [config |-> space, pool |-> pool, scratchpads |-> pads, caps |-> caps, legacy |-> legacy,
   os |-> os, bios |-> bios, run |-> run, bar |-> Narrow]
Base == 2097152

NoXhc == M(None, Base, 0, <<>>, FALSE, FALSE, FALSE, FALSE)

MCMachines ==
  {NoXhc} \cup
  {M(space, Base, 1, <<"msi32">>, TRUE, FALSE, TRUE, TRUE) : space \in MCConfigSpaces}
  \cup {M(Flat, Base + offset, pads, <<"msix", "msi64">>, FALSE, FALSE, FALSE, FALSE) :
          offset \in {0, 64, 3904, 4032}, pads \in {0, 30, 31, 32}}
  \cup {M(Two, Base, 0, caps, TRUE, os, FALSE, run) :
          caps \in {<<>>, <<"msix">>, <<"msi64", "msi32">>}, os \in BOOLEAN, run \in BOOLEAN}
  \* The last GiB that is mapped, and the first that is not.
  \cup {[M(Flat, Base, 0, <<"msi64">>, FALSE, FALSE, FALSE, FALSE) EXCEPT
           !.bar = [base |-> base, wide |-> TRUE, next |-> 0]] : base \in {3, 4, 63, 64}}

S(load, offset, vaddr, filesz, memsz) ==
  [load |-> load, offset |-> offset, vaddr |-> vaddr, filesz |-> filesz, memsz |-> memsz]

\* Pages of 4 bytes; the header's entry field is byte 1.
Kernel == [entry |-> 9, segments |-> <<S(FALSE, 0, 0, 2, 2), S(TRUE, 0, 8, 3, 3),
                                       S(TRUE, 3, 13, 2, 2), S(TRUE, 5, 16, 1, 6)>>]
OnePage == [entry |-> 10, segments |-> <<S(TRUE, 0, 8, 4, 4)>>]
Unaligned == [entry |-> 10, segments |-> <<S(TRUE, 0, 9, 4, 4)>>]
Empty == [entry |-> 0, segments |-> <<S(FALSE, 0, 0, 2, 2)>>]

MCImages == {Kernel, OnePage, Unaligned, Empty}
MCSystems ==
  [machine : MCMachines, file : {Kernel}]
  \cup [machine : {NoXhc}, file : MCImages]
=============================================================================
