------------------------------- MODULE GeoData -------------------------------
(***************************************************************************)
(* The two databases that locate the exit: Tor's geoip file                *)
(* (backend/torando_gui/geoip.py) and the MaxMind reader (mmdb.py).        *)
(*                                                                         *)
(*  - The search tree is bytes, read as the code reads them; an address is *)
(*    its bits, and db.gap stands for the 96 bits between the roots of     *)
(*    IPv6 and IPv4.                                                       *)
(*  - In the data section one element of a sequence stands for the bytes   *)
(*    of one control byte and its payload, and the numbers in control      *)
(*    bytes and pointers are read by Size and Pointer.                     *)
(***************************************************************************)
EXTENDS Naturals, Sequences, SequencesExt

(* GeoIP *)

\* A line of the file is junk or a range [low, high, cc].
Load(file) ==
  SortSeq(SelectSeq(file, LAMBDA line : ~line.junk), LAMBDA a, b : a.low < b.low)

\* Mutant: bisect_left.
BisectLeft(table, n) == Len(SelectSeq(table, LAMBDA r : r.low < n))

\* bisect_right of a sorted list.
Bisect(table, n) == Len(SelectSeq(table, LAMBDA r : r.low <= n))

None == "none"
Unknown == {"??", "a1", "a2"}

CountryOf(table, n) ==
  LET i == Bisect(table, n)
  IN IF i > 0 /\ table[i].low <= n /\ n <= table[i].high /\ table[i].cc \notin Unknown
     THEN table[i].cc ELSE None

-----------------------------------------------------------------------------
(* MMDB: the search tree *)

BigEndian(bytes) == FoldLeft(LAMBDA n, byte : 256 * n + byte, 0, bytes)

\* _read_node: the left or the right record of a node, of 24, 28 or 32 bits;
\* two of 28 share the byte in the middle.
ReadNode(db, node, index) ==
  LET base == node * ((db.size * 2) \div 8)
      Read(from, n) == BigEndian(SubSeq(db.buf, base + from + 1, base + from + n))
      mid == db.buf[base + 4]
  IN CASE db.size = 24                -> Read(3 * index, 3)
       [] db.size = 28 /\ index = 0 -> (mid \div 16) * 2^24 + Read(0, 3)
       [] db.size = 28 /\ index = 1 -> (mid % 16) * 2^24 + Read(4, 3)
       [] db.size = 32                -> Read(4 * index, 4)

\* From a node along some bits, for as long as there are nodes.
Walk(db, start, bits) ==
  FoldLeft(LAMBDA node, bit : IF node >= db.count THEN node ELSE ReadNode(db, node, bit),
           start, bits)

Ipv4Start(db) == Walk(db, 0, [i \in 1..db.gap |-> 0])

\* get: the number of the record, 0 if the address has none.
Get(db, bits, version) ==
  LET start == IF version = 4 /\ db.version = 6 THEN Ipv4Start(db) ELSE 0
      node == Walk(db, start, bits)
  IN IF (version = 6 /\ db.version = 4) \/ node <= db.count THEN 0 ELSE node - db.count

-----------------------------------------------------------------------------
(* MMDB: the data section *)

Size(ctrl, bytes) ==
  LET size == ctrl % 32
  IN CASE size < 29 -> size
       [] size = 29 -> 29 + BigEndian(SubSeq(bytes, 1, 1))
       [] size = 30 -> 285 + BigEndian(SubSeq(bytes, 1, 2))
       [] size = 31 -> 65821 + BigEndian(SubSeq(bytes, 1, 3))

Pointer(ctrl, bytes) ==
  LET size == (ctrl \div 8) % 4
      high == ctrl % 8
  IN CASE size = 0 -> high * 2^8 + BigEndian(SubSeq(bytes, 1, 1))
       [] size = 1 -> high * 2^16 + BigEndian(SubSeq(bytes, 1, 2)) + 2048
       [] size = 2 -> high * 2^24 + BigEndian(SubSeq(bytes, 1, 3)) + 526336
       [] size = 3 -> BigEndian(SubSeq(bytes, 1, 4))

Item(is, n) == [is |-> is, n |-> n]
Value(leaf, of) == [leaf |-> leaf, of |-> of]
Decoded(value, next) == [ok |-> TRUE, value |-> value, next |-> next]
NoValue == [ok |-> FALSE, value |-> Value(0, <<>>), next |-> 0]

\* _decode: the value at a place and the place behind it, which for a pointer
\* is the one behind the pointer.  Past the end, at an unknown type, or
\* deeper than the recursion limit there is none.
Decode(buf, start, deep) ==
  LET At[d \in 0..deep, i \in Nat] ==
        LET Further(values, k) ==
              LET item == At[d - 1, values.next]
              IN IF values.ok /\ item.ok
                 THEN Decoded(Value(0, Append(values.value.of, item.value)), item.next)
                 ELSE NoValue
            Items(n) == FoldLeft(Further, Decoded(Value(0, <<>>), i + 1), [k \in 1..n |-> k])
        IN IF d = 0 \/ i \notin DOMAIN buf THEN NoValue
           ELSE CASE buf[i].is = "leaf"  -> Decoded(Value(buf[i].n, <<>>), i + 1)
                  [] buf[i].is = "map"   -> Items(2 * buf[i].n)
                  [] buf[i].is = "array" -> Items(buf[i].n)
                  [] buf[i].is = "pointer" ->
                       LET target == At[d - 1, buf[i].n]
                       IN IF target.ok THEN Decoded(target.value, i + 1) ELSE NoValue
                  [] OTHER -> NoValue
  IN At[deep, start]

=============================================================================
