----------------------------- MODULE FlatMemory -----------------------------
(***************************************************************************)
(* Memory as the emulated program sees it: an array of bytes some of which *)
(* are not mapped.  A write of one, two or four bytes changes an aligned   *)
(* group of mapped bytes and nothing else; mapping a region stores its     *)
(* bytes and may bring unmapped neighbours in as zeroes; unmapping never   *)
(* changes a byte that stays.                                              *)
(***************************************************************************)
EXTENDS Integers, Sequences

CONSTANTS
    Address,            \* the addresses, 0 .. something
    Words,              \* what may be written: a word and its low parts
    Data,               \* byte arrays that may be mapped
    Unmapped            \* content of an address that is not mapped

VARIABLES
    content             \* content[a]: the byte at a, or Unmapped

Init == content = [a \in Address |-> Unmapped]

Mapped == {a \in Address : content[a] # Unmapped}

Changed == {a \in Address : content'[a] # content[a]}

\* The low bytes of value, in one order or the other, at a multiple of width.
Store(base, width, value) ==
    LET group == base .. base + width - 1
    IN  /\ group \subseteq Mapped
        /\ Changed \subseteq group
        /\ \/ \A b \in group : content'[b] = value[b - base]
           \/ \A b \in group : content'[b] = value[width - 1 - (b - base)]

\* Data goes to base and up; anything else that changes was not mapped and
\* reads zero now.
Map(base, data) ==
    /\ \A i \in 1 .. Len(data) : content'[base + i - 1] = data[i]
    /\ \A a \in Changed \ (base .. base + Len(data) - 1) :
          content[a] = Unmapped /\ content'[a] = 0

Unmap == \A a \in Changed : content'[a] = Unmapped

Next ==
    \/ \E width \in {1, 2, 4}, value \in Words :
          \E base \in {a \in Address : a % width = 0} : Store(base, width, value)
    \/ \E data \in Data : \E base \in {b \in Address : b + Len(data) - 1 \in Address} :
          Map(base, data)
    \/ Unmap

Spec == Init /\ [][Next]_content
=============================================================================
