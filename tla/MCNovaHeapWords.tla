--------------------------- MODULE MCNovaHeapWords ---------------------------
(* NovaHeapWords on an arena of ten alignment units: three smallest blocks.   *)
EXTENDS NovaHeapWords

MCBase == 16
MCLimit == MCBase + 80
MCSizes == {8, 20, 32}
MCFreeAddresses == {a \in MCBase .. MCLimit : a % 8 = 0}
Stores(addresses, bytes, values) == [at : addresses, bytes : bytes, value : values]

(* A word that reads as a size, and one across two cells.                      *)
MCPayloadStores == Stores({0, 3}, {4}, {24})

(* Words over headers: a flag, sizes on and off the alignment; bytes and words *)
(* that leave a header half of what it was.                                   *)
Arena == MCBase .. MCLimit - Word
MCWildStores ==
  Stores({a \in Arena : a % 4 = 0}, {4}, {0, 1, 21, 64})
    \cup Stores({a \in Arena : a % 8 = 7}, {4}, {24})
    \cup Stores({a \in Arena : a % 8 = 1}, {1}, {1})
=============================================================================
