------------------------------ MODULE MCNovaHeap ------------------------------
(* NovaHeap on an arena of fourteen alignment units.                          *)
EXTENDS NovaHeap

MCBase == 32
MCLimit == MCBase + 112
MCSizes == {0, 1, 8, 9, 24, 40, 89, 90, 96}
MCFreeAddresses == {0, 1} \cup {a \in MCBase .. MCLimit + 16 : a % 8 \in {0, 3}}
=============================================================================
