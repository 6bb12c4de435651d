----------------------------- MODULE MCAhciInit -----------------------------
(***************************************************************************)
(* An HBA with a few ports, each with or without a disk, behind a PCI bus  *)
(* of which two slots with two functions each are read into a table of two *)
(* entries.                                                                *)
(***************************************************************************)
EXTENDS AhciInit

\* A bus from its places.  Slot 2 and functions 2 are not read.
Bus(places) == [p \in {q[1] : q \in places} |-> (CHOOSE q \in places : q[1] = p)[2]]

MCBuses ==
  {Bus(b) : b \in
    {{},
     {<<<<0, 1>>, "pata">>},
     {<<<<1, 0>>, "sata">>},
     {<<<<0, 0>>, "other">>, <<<<1, 1>>, "sata">>},
     {<<<<0, 1>>, "pata">>, <<<<1, 0>>, "sata">>},
     {<<<<0, 1>>, "sata">>, <<<<1, 1>>, "pata">>},
     {<<<<0, 2>>, "pata">>, <<<<2, 0>>, "sata">>},
     {<<<<0, 0>>, "other">>, <<<<0, 1>>, "other">>, <<<<1, 0>>, "sata">>}}}

MCDiskPorts == 0 .. LastPort
=============================================================================
