------------------------------ MODULE ArpEntry ------------------------------
(* The entries of an ARP map (ArpMergedMap.scala): how two of them are     *)
(* ordered, and how one is written to the bus and read back.  What counts  *)
(* of an entry is its time, stale, in microseconds.                        *)
EXTENDS Integers, Sequences

CONSTANT IntHalf   \* 2^31: an Int is in -IntHalf .. IntHalf - 1

ASSUME IntAssumption == IntHalf \in Nat \ {0}

-----------------------------------------------------------------------------
(* Mutant: the sign is lost.                                               *)
asInt_Mutant(d) == d % (2 * IntHalf)

(* asInstanceOf[Int] of a Long: its low bits.                              *)
asInt(d) == ((d + IntHalf) % (2 * IntHalf)) - IntHalf

(* arpOrdering.compare.                                                    *)
compare(x, y) == asInt(x - y)

(* The contract of an Ordering, on the given times.                        *)
IsOrdering(Times) ==
    /\ \A x, y \in Times : compare(x, y) \in Int
    /\ \A x, y \in Times : compare(x, y) > 0 <=> compare(y, x) < 0
    /\ \A x, y, z \in Times :
          compare(x, y) >= 0 /\ compare(y, z) >= 0 => compare(x, z) >= 0

(* All of the times lie within a span that an Int can hold.                *)
Close(Times) == \A x, y \in Times : x - y < IntHalf

-----------------------------------------------------------------------------
(* A message is <<ip, time, owner>>.  Its text is given by the pieces      *)
(* between the dashes: a time below 0 brings a dash of its own, and the    *)
(* name of an owner is a sequence of pieces itself, some of them empty     *)
(* when dashes come first, last or next to each other.                     *)
Empty == [name |-> 0]

encode(time) == IF time >= 0 THEN <<[entry |-> time]>>
                ELSE <<[begin |-> "entry"], [rest |-> -time]>>

(* Mutant: the owner comes before the entry.                               *)
serialize_Mutant(m) == <<m[1]>> \o m[3] \o encode(m[2])

(* ip + "-" + mac.encode() + "-" + owner                                   *)
serialize(m) == <<m[1]>> \o encode(m[2]) \o m[3]

Malformed == <<>>

(* split("-") drops the empty pieces at the end; then the first three of   *)
(* the others are taken, if there are as many and the second can be        *)
(* decoded.                                                                *)
fromBytes(pieces) ==
    IF (\E i \in 3 .. Len(pieces) : pieces[i] # Empty) /\ DOMAIN pieces[2] = {"entry"}
    THEN <<pieces[1], pieces[2].entry, <<pieces[3]>>>> ELSE Malformed
=============================================================================
