------------------------------ MODULE NodeProofs ------------------------------
(***************************************************************************)
(* Proofs about the provider's node, for any requests, keys and bounds:    *)
(* the pool that Pick rotates and Register extends in shared arrays never  *)
(* empties again and holds bound keys only, and what a client hears is the *)
(* upstream's stream, as Delivery promises.                                *)
(***************************************************************************)
EXTENDS Node, TLAPS

Arrays == Seq(Seq(Keys \cup {"unused"}))
SliceType == [arr : Nat, off : Nat, len : Nat]

(* A function on 1 .. n is a sequence.                                     *)
LEMMA FunctionIsSeq ==
  ASSUME NEW n \in Nat, NEW S, NEW f \in [1 .. n -> S]
  PROVE  f \in Seq(S) /\ Len(f) = n
OBVIOUS

(* A slice that is sound has room for what it shows, and no more than its  *)
(* array holds.                                                            *)
LEMMA RoomOfSlice ==
  ASSUME mem \in Arrays, NEW s, SliceOK(s)
  PROVE  /\ Room(s) \in Nat /\ s.len <= Room(s) /\ s.len \in Nat /\ s.off \in Nat
         /\ s.arr \in Nat /\ Grown(s) \in Nat
         /\ s.len >= Room(s) => s.len + 1 <= Grown(s)
         /\ s.arr # 0 => s.arr \in 1 .. Len(mem) /\ Room(s) = Len(mem[s.arr]) - s.off
<1>1. s.arr \in Nat /\ s.off \in Nat /\ s.len \in Nat
  BY DEF SliceOK
<1>2. CASE s.arr = 0
  <2>1. s.len = 0 /\ Room(s) = 0 /\ Grown(s) = 1
    BY <1>2 DEF SliceOK, Room, Grown
  <2> QED
    BY <1>1, <1>2, <2>1
<1>3. CASE s.arr # 0
  <2>1. /\ s.arr \in 1 .. Len(mem) /\ s.off + s.len <= Len(mem[s.arr])
        /\ Room(s) = Len(mem[s.arr]) - s.off
    BY <1>3 DEF SliceOK, Room
  <2>2. Len(mem[s.arr]) \in Nat
    BY <2>1 DEF Arrays
  <2>3. Room(s) \in Nat /\ s.len <= Room(s)
    BY <1>1, <2>1, <2>2, SMTT(20)
  <2>4. Grown(s) \in Nat /\ Grown(s) >= Room(s) + 1
    BY <2>3 DEF Grown
  <2> QED
    BY <1>1, <1>3, <2>1, <2>3, <2>4
<1> QED
  BY <1>2, <1>3

(* The tail of a slice that shows something is a slice.                    *)
LEMMA TailIsSlice ==
  ASSUME mem \in Arrays, NEW s, SliceOK(s), s.len > 0
  PROVE  SliceOK(TailOf(s)) /\ TailOf(s).len + 1 = s.len
<1>1. s \in SliceType /\ s.arr \in 1 .. Len(mem) /\ s.off + s.len <= Len(mem[s.arr]) /\ s.arr # 0
  BY DEF SliceOK, SliceType
<1>2. Len(mem[s.arr]) \in Nat
  BY <1>1 DEF Arrays
<1>3. /\ TailOf(s) \in SliceType /\ TailOf(s).arr = s.arr
      /\ TailOf(s).off = s.off + 1 /\ TailOf(s).len = s.len - 1
  BY <1>1 DEF TailOf, Slice, SliceType
<1>4. ASSUME NEW i \in 1 .. s.len - 1 PROVE Bound(At(TailOf(s), i))
  <2>0. s.len \in Nat /\ s.off \in Nat
    BY RoomOfSlice
  <2>1. i + 1 \in 1 .. s.len /\ TailOf(s).off + i = s.off + (i + 1)
    BY <1>3, <2>0
  <2>2. At(TailOf(s), i) = At(s, i + 1)
    BY <1>3, <2>1 DEF At
  <2> QED
    BY <2>1, <2>2 DEF SliceOK
<1>5. TailOf(s).off + TailOf(s).len <= Len(mem[s.arr])
  BY <1>1, <1>2, <1>3 DEF SliceType
<1> QED
  BY <1>1, <1>3, <1>4, <1>5 DEF SliceOK, SliceType

(* Bound keys stay bound.                                                  *)
BoundStays == \A x : Bound(x) => Bound(x)'

(* A slice stays sound when its array keeps its length and nothing but a   *)
(* bound key is written into it.                                           *)
LEMMA SliceStays ==
  ASSUME mem \in Arrays, NEW t, SliceOK(t), NEW k, Bound(k)', BoundStays,
         Len(mem') \in Nat, Len(mem) <= Len(mem'),
         t.arr # 0 =>
            /\ Len(mem'[t.arr]) = Len(mem[t.arr])
            /\ \A j \in 1 .. Len(mem[t.arr]) : mem'[t.arr][j] = mem[t.arr][j] \/ mem'[t.arr][j] = k
  PROVE  SliceOK(t)'
<1>1. t \in SliceType /\ t.len \in Nat /\ t.off \in Nat /\ t.arr \in Nat
  BY RoomOfSlice DEF SliceOK, SliceType
<1>2. CASE t.arr = 0
  BY <1>1, <1>2 DEF SliceOK, SliceType
<1>3. CASE t.arr # 0
  <2>1. /\ t.arr \in 1 .. Len(mem) /\ t.off + t.len <= Len(mem[t.arr])
        /\ Len(mem) \in Nat /\ Len(mem[t.arr]) \in Nat
    BY <1>3 DEF SliceOK, Arrays
  <2>2. t.arr \in 1 .. Len(mem') /\ t.off + t.len <= Len(mem'[t.arr])
    BY <1>1, <1>3, <2>1
  <2>3. ASSUME NEW i \in 1 .. t.len PROVE Bound(At(t, i))'
    <3>1. t.off + i \in 1 .. Len(mem[t.arr])
      BY <1>1, <2>1, SMTT(20)
    <3>2. mem'[t.arr][t.off + i] = mem[t.arr][t.off + i] \/ mem'[t.arr][t.off + i] = k
      BY <1>3, <3>1
    <3>3. Bound(mem[t.arr][t.off + i])
      BY DEF SliceOK, At
    <3> QED
      BY <3>2, <3>3 DEF BoundStays, Bound, At
  <2> QED
    BY <1>1, <1>3, <2>2, <2>3 DEF SliceOK, SliceType
<1> QED
  BY <1>2, <1>3

Fits(s) == s.len < Room(s)

(* An entry of these arrays has kept its value or become k.                *)
Written(arrs, k) ==
    \A a \in arrs \cap (1 .. Len(mem)) :
        /\ Len(mem'[a]) = Len(mem[a])
        /\ \A j \in 1 .. Len(mem[a]) : mem'[a][j] = mem[a][j] \/ mem'[a][j] = k

(* When the array has room, append writes one key behind the slice.        *)
LEMMA AppendInPlace ==
  ASSUME mem \in Arrays, NEW s, SliceOK(s), NEW k \in Keys, Bound(k)', BoundStays, NEW r,
         NEW arrs, arrs = {list[q].arr : q \in Requests \ {r}},
         Fits(s), AppendKey(s, k, r)
  PROVE  /\ mem' \in Arrays /\ Len(mem') = Len(mem) /\ Written(arrs, k)
         /\ keys'.len = s.len + 1 /\ SliceOK(keys)'
<1> DEFINE pos == s.off + s.len + 1
           all == [mem EXCEPT ![s.arr][pos] = k]
           shown == arrs \cup {s.arr}
<1>1. /\ s.arr # 0 /\ s.len \in Nat /\ s.off \in Nat /\ s \in SliceType
      /\ s.arr \in 1 .. Len(mem) /\ Room(s) = Len(mem[s.arr]) - s.off
  <2>1. s.len \in Nat
    BY RoomOfSlice
  <2>2. s.arr # 0
    BY <2>1 DEF Room, Fits
  <2> QED
    BY <2>2, RoomOfSlice DEF SliceOK, SliceType
<1>2. /\ mem[s.arr] \in Seq(Keys \cup {"unused"}) /\ Len(mem[s.arr]) \in Nat
      /\ pos \in 1 .. Len(mem[s.arr]) /\ Len(mem) \in Nat
      /\ \A a \in 1 .. Len(mem) : mem[a] \in Seq(Keys \cup {"unused"})
      /\ mem = [a \in 1 .. Len(mem) |-> mem[a]]
  <2>1. /\ Len(mem) \in Nat /\ mem = [a \in 1 .. Len(mem) |-> mem[a]]
        /\ \A a \in 1 .. Len(mem) : mem[a] \in Seq(Keys \cup {"unused"})
    BY DEF Arrays
  <2>2. mem[s.arr] \in Seq(Keys \cup {"unused"}) /\ Len(mem[s.arr]) \in Nat
    BY <1>1, <2>1
  <2>3. pos \in 1 .. Len(mem[s.arr])
    BY <1>1, <2>2 DEF Fits
  <2> QED
    BY <2>1, <2>2, <2>3
<1>3. /\ keys' = [s EXCEPT !.len = @ + 1]
      /\ mem' = [i \in DOMAIN all |-> IF i \in shown THEN all[i] ELSE <<>>]
  BY DEF AppendKey, Fits
<1>4. /\ DOMAIN all = 1 .. Len(mem)
      /\ all[s.arr] = [mem[s.arr] EXCEPT ![pos] = k]
      /\ \A a \in 1 .. Len(mem) : a # s.arr => all[a] = mem[a]
  BY <1>1, <1>2
<1> DEFINE new == [mem[s.arr] EXCEPT ![pos] = k]
<1>5. /\ new \in Seq(Keys \cup {"unused"}) /\ Len(new) = Len(mem[s.arr]) /\ new[pos] = k
      /\ \A j \in 1 .. Len(mem[s.arr]) : j # pos => new[j] = mem[s.arr][j]
  BY <1>2
<1>6. /\ mem'[s.arr] = new
      /\ \A a \in 1 .. Len(mem) : a # s.arr => mem'[a] = mem[a] \/ mem'[a] = <<>>
      /\ \A a \in arrs \cap (1 .. Len(mem)) : a # s.arr => mem'[a] = mem[a]
  BY <1>1, <1>3, <1>4
<1> HIDE DEF new
<1>7. mem' \in Arrays /\ Len(mem') = Len(mem)
  <2>1. DOMAIN mem' = 1 .. Len(mem) /\ mem' = [a \in 1 .. Len(mem) |-> mem'[a]]
    BY <1>3, <1>4
  <2>2. \A a \in 1 .. Len(mem) : mem'[a] \in Seq(Keys \cup {"unused"})
    <3>1. <<>> \in Seq(Keys \cup {"unused"})
      OBVIOUS
    <3> QED
      BY <1>2, <1>5, <1>6, <3>1
  <2>3. mem' \in [1 .. Len(mem) -> Seq(Keys \cup {"unused"})]
    BY <2>1, <2>2
  <2> QED
    BY <1>2, <2>3, FunctionIsSeq DEF Arrays
<1>8. ASSUME NEW a \in arrs \cap (1 .. Len(mem))
      PROVE  /\ Len(mem'[a]) = Len(mem[a])
             /\ \A j \in 1 .. Len(mem[a]) : mem'[a][j] = mem[a][j] \/ mem'[a][j] = k
  <2>1. CASE a = s.arr
    BY <1>5, <1>6, <2>1
  <2>2. CASE a # s.arr
    BY <1>6, <2>2
  <2> QED
    BY <2>1, <2>2
<1>9. keys' = Slice(s.arr, s.off, s.len + 1)
  BY <1>1, <1>3 DEF Slice, SliceType
<1>10. SliceOK(keys)'
  <2>1. keys' \in SliceType /\ keys'.arr = s.arr /\ keys'.off = s.off /\ keys'.len = s.len + 1
    BY <1>1, <1>9 DEF Slice, SliceType
  <2>2. keys'.arr \in 1 .. Len(mem') /\ keys'.off + keys'.len <= Len(mem'[keys'.arr])
    BY <1>1, <1>2, <1>5, <1>6, <1>7, <2>1, SMTT(20)
  <2>3. ASSUME NEW i \in 1 .. s.len + 1 PROVE Bound(mem[s.arr][s.off + i])'
    <3>1. CASE i = s.len + 1
      <4>1. s.off + i = pos
        BY <1>1, <3>1
      <4> QED
        BY <1>5, <1>6, <4>1 DEF Bound
    <3>2. CASE i # s.len + 1
      <4>1. i \in 1 .. s.len /\ s.off + i \in 1 .. Len(mem[s.arr]) /\ s.off + i # pos
        <5>1. i \in Nat /\ 1 <= i /\ i <= s.len
          BY <1>1, <3>2
        <5>2. s.off + i \in Nat /\ 1 <= s.off + i /\ s.off + i < pos
          BY <1>1, <5>1
        <5> QED
          BY <1>1, <1>2, <5>1, <5>2
      <4>2. mem'[s.arr][s.off + i] = mem[s.arr][s.off + i]
        BY <1>5, <1>6, <4>1
      <4>3. Bound(mem[s.arr][s.off + i])
        BY <4>1 DEF SliceOK, At
      <4> QED
        BY <4>2, <4>3 DEF BoundStays, Bound
    <3> QED
      BY <3>1, <3>2
  <2> QED
    BY <1>1, <2>1, <2>2, <2>3 DEF SliceOK, SliceType, At, Bound
<1>11. keys'.len = s.len + 1
  BY <1>9 DEF Slice
<1> QED
  BY <1>7, <1>8, <1>10, <1>11 DEF Written

(* When it has none, append copies the slice into an array that no other   *)
(* slice shows.                                                            *)
LEMMA AppendMoves ==
  ASSUME mem \in Arrays, NEW s, SliceOK(s), NEW k \in Keys, Bound(k)', BoundStays, NEW r,
         NEW arrs, arrs = {list[q].arr : q \in Requests \ {r}}, arrs \subseteq 0 .. Len(mem),
         ~Fits(s), AppendKey(s, k, r)
  PROVE  /\ mem' \in Arrays /\ Len(mem) <= Len(mem')
         /\ \A a \in arrs \cap (1 .. Len(mem)) : mem'[a] = mem[a]
         /\ keys'.len = s.len + 1 /\ SliceOK(keys)'
<1> DEFINE n == Len(mem)
           Value == Keys \cup {"unused"}
           free == CHOOSE i \in 1 .. n + 1 : i \notin arrs \cup {s.arr}
           array == [i \in 1 .. Grown(s) |->
                       IF i <= s.len THEN At(s, i) ELSE IF i = s.len + 1 THEN k ELSE "unused"]
           all == IF free > n THEN Append(mem, array) ELSE [mem EXCEPT ![free] = array]
           shown == arrs \cup {free}
           m == IF free > n THEN n + 1 ELSE n
<1>1. /\ s.len \in Nat /\ s.arr \in Nat /\ Grown(s) \in Nat /\ s.len + 1 <= Grown(s)
      /\ s.arr # 0 => s.arr \in 1 .. n
  <2>1. s.len >= Room(s)
    BY RoomOfSlice DEF Fits
  <2> QED
    BY <2>1, RoomOfSlice
<1>2. /\ n \in Nat /\ mem = [a \in 1 .. n |-> mem[a]] /\ \A a \in 1 .. n : mem[a] \in Seq(Value)
  BY DEF Arrays
<1>3. free \in 1 .. n + 1 /\ free \notin arrs
  <2>1. n + 1 \in 1 .. n + 1 /\ n + 1 \notin 0 .. n /\ s.arr \in 0 .. n
    <3>1. n \in Nat
      BY <1>2
    <3> HIDE DEF n
    <3> QED
      BY <1>1, <3>1
  <2> QED
    BY <2>1
<1>4. /\ keys' = Slice(free, 0, s.len + 1)
      /\ mem' = [i \in DOMAIN all |-> IF i \in shown THEN all[i] ELSE <<>>]
  BY DEF AppendKey, Fits
<1> HIDE DEF free
<1>5. array \in Seq(Value) /\ Len(array) = Grown(s)
  <2>1. \A i \in 1 .. s.len : At(s, i) \in Keys
    BY DEF SliceOK, Bound
  <2>2. ASSUME NEW i \in 1 .. Grown(s) PROVE array[i] \in Value
    BY <1>1, <2>1
  <2>3. array \in [1 .. Grown(s) -> Value]
    BY <2>2
  <2> HIDE DEF array, Value
  <2> QED
    BY <1>1, <2>3, FunctionIsSeq
<1>6. \A i \in 1 .. s.len + 1 : array[i] = k \/ Bound(array[i])
  <2> SUFFICES ASSUME NEW i \in 1 .. s.len + 1 PROVE array[i] = k \/ Bound(array[i])
    OBVIOUS
  <2>1. i \in 1 .. Grown(s)
    BY <1>1
  <2>2. CASE i = s.len + 1
    BY <1>1, <2>1, <2>2
  <2>3. CASE i # s.len + 1
    <3>1. i \in 1 .. s.len /\ i <= s.len
      BY <1>1, <2>3
    <3>2. array[i] = At(s, i)
      BY <2>1, <3>1
    <3> QED
      BY <3>1, <3>2 DEF SliceOK
  <2> QED
    BY <2>2, <2>3
<1> HIDE DEF array
<1>7. /\ m \in Nat /\ n <= m /\ free \in 1 .. m /\ DOMAIN all = 1 .. m /\ all[free] = array
      /\ \A a \in 1 .. n : a # free => all[a] = mem[a]
      /\ \A a \in 1 .. m : a # free => a \in 1 .. n
  <2>1. CASE free > n
    <3>1. free = n + 1 /\ m = n + 1 /\ all = Append(mem, array)
      BY <1>2, <1>3, <2>1
    <3>2. mem \in Seq(Seq(Value)) /\ array \in Seq(Value)
      BY <1>5 DEF Arrays
    <3>3. /\ DOMAIN Append(mem, array) = 1 .. n + 1 /\ Append(mem, array)[n + 1] = array
          /\ \A a \in 1 .. n : Append(mem, array)[a] = mem[a]
      BY <1>2, <3>2
    <3>4. n \in Nat
      BY <1>2
    <3> HIDE DEF all, m, n
    <3> QED
      BY <3>1, <3>3, <3>4
  <2>2. CASE ~(free > n)
    <3>1. m = n /\ free \in 1 .. n /\ all = [mem EXCEPT ![free] = array] /\ n \in Nat
      BY <1>2, <1>3, <2>2
    <3>2. mem = [a \in 1 .. n |-> mem[a]]
      BY <1>2
    <3> HIDE DEF all, m, n
    <3> QED
      BY <3>1, <3>2
  <2> QED
    BY <2>1, <2>2
<1>8. /\ DOMAIN mem' = 1 .. m /\ mem'[free] = array
      /\ \A a \in 1 .. m : a # free => mem'[a] = mem[a] \/ mem'[a] = <<>>
      /\ \A a \in arrs \cap (1 .. n) : mem'[a] = mem[a]
      /\ mem' = [a \in 1 .. m |-> mem'[a]]
  <2>1. /\ mem' = [i \in 1 .. m |-> IF i \in shown THEN all[i] ELSE <<>>]
        /\ free \in shown /\ arrs \subseteq shown
    BY <1>4, <1>7
  <2> HIDE DEF all, m, n, shown
  <2>2. DOMAIN mem' = 1 .. m /\ mem' = [a \in 1 .. m |-> mem'[a]]
    BY <2>1
  <2>3. \A a \in 1 .. m : mem'[a] = IF a \in shown THEN all[a] ELSE <<>>
    BY <2>1
  <2>4. \A a \in 1 .. n : a \in 1 .. m
    BY <1>2, <1>7
  <2>5. \A a \in arrs : a # free
    BY <1>3
  <2> QED
    BY <1>7, <2>1, <2>2, <2>3, <2>4, <2>5
<1> HIDE DEF all, shown, m
<1>9. mem' \in Arrays /\ Len(mem') = m
  <2>1. <<>> \in Seq(Value)
    OBVIOUS
  <2>2. \A a \in 1 .. m : mem'[a] \in Seq(Value)
    BY <1>2, <1>5, <1>7, <1>8, <2>1
  <2>3. mem' \in [1 .. m -> Seq(Value)]
    BY <1>8, <2>2
  <2> QED
    BY <1>7, <2>3, FunctionIsSeq DEF Arrays
<1>10. SliceOK(keys)'
  <2>1. keys' \in SliceType /\ keys'.arr = free /\ keys'.off = 0 /\ keys'.len = s.len + 1
    BY <1>1, <1>2, <1>3, <1>4 DEF Slice, SliceType
  <2>2. keys'.arr # 0 /\ keys'.arr \in 1 .. Len(mem') /\ keys'.off + keys'.len <= Len(mem'[keys'.arr])
    BY <1>1, <1>3, <1>5, <1>7, <1>8, <1>9, <2>1
  <2>3. ASSUME NEW i \in 1 .. s.len + 1 PROVE array[i] \in Keys /\ bind'[array[i]] # "idle"
    BY <1>6 DEF BoundStays, Bound
  <2>4. ASSUME NEW i \in 1 .. keys'.len PROVE Bound(At(keys, i))'
    <3>1. i \in 1 .. s.len + 1 /\ 0 + i = i
      BY <2>1
    <3>2. At(keys, i)' = array[i]
      BY <1>8, <2>1, <3>1 DEF At
    <3> QED
      BY <2>3, <3>1, <3>2 DEF Bound
  <2> QED
    BY <2>1, <2>2, <2>4 DEF SliceOK, SliceType
<1>11. keys'.len = s.len + 1
  BY <1>4 DEF Slice
<1> QED
  BY <1>7, <1>8, <1>9, <1>10, <1>11

(* In either case the pool is longer by one bound key, and every slice     *)
(* another request holds is still sound.                                   *)
LEMMA AppendKeyKeepsSlices ==
  ASSUME mem \in Arrays, NEW s, SliceOK(s), NEW k \in Keys, Bound(k)', BoundStays, NEW r,
         \A q \in Requests \ {r} : SliceOK(list[q]), AppendKey(s, k, r)
  PROVE  /\ mem' \in Arrays /\ SliceOK(keys)' /\ keys'.len = s.len + 1
         /\ \A q \in Requests \ {r} : list'[q] = list[q] => SliceOK(list[q])'
<1> DEFINE arrs == {list[q].arr : q \in Requests \ {r}}
<1>1. ASSUME NEW q \in Requests \ {r} PROVE list[q].arr \in 0 .. Len(mem)
  <2>1. SliceOK(list[q])
    OBVIOUS
  <2>2. list[q].arr \in Nat /\ (list[q].arr # 0 => list[q].arr \in 1 .. Len(mem))
    BY <2>1, RoomOfSlice
  <2>3. Len(mem) \in Nat
    BY DEF Arrays
  <2> QED
    BY <2>2, <2>3
<1>2. arrs \subseteq 0 .. Len(mem)
  BY <1>1
<1>3. /\ mem' \in Arrays /\ SliceOK(keys)' /\ keys'.len = s.len + 1 /\ Len(mem) <= Len(mem')
      /\ Written(arrs, k)
  <2> HIDE DEF arrs
  <2>0. arrs = {list[q].arr : q \in Requests \ {r}} /\ Len(mem) \in Nat
    BY DEF arrs, Arrays
  <2>1. CASE Fits(s)
    <3>1. /\ mem' \in Arrays /\ Len(mem') = Len(mem) /\ Written(arrs, k)
          /\ keys'.len = s.len + 1 /\ SliceOK(keys)'
      BY <2>0, <2>1, AppendInPlace
    <3> QED
      BY <2>0, <3>1
  <2>2. CASE ~Fits(s)
    <3>1. /\ mem' \in Arrays /\ Len(mem) <= Len(mem')
          /\ \A a \in arrs \cap (1 .. Len(mem)) : mem'[a] = mem[a]
          /\ keys'.len = s.len + 1 /\ SliceOK(keys)'
      BY <1>2, <2>0, <2>2, AppendMoves
    <3> QED
      BY <3>1 DEF Written
  <2> QED
    BY <2>1, <2>2
<1>4. ASSUME NEW q \in Requests \ {r}, list'[q] = list[q] PROVE SliceOK(list[q])'
  <2> DEFINE t == list[q]
  <2>1. SliceOK(t) /\ t.arr \in arrs /\ Len(mem') \in Nat
    BY <1>3 DEF Arrays
  <2>2. t.arr # 0 => t.arr \in 1 .. Len(mem)
    BY <2>1, RoomOfSlice
  <2> HIDE DEF t
  <2>3. t.arr # 0 =>
            /\ Len(mem'[t.arr]) = Len(mem[t.arr])
            /\ \A j \in 1 .. Len(mem[t.arr]) : mem'[t.arr][j] = mem[t.arr][j] \/ mem'[t.arr][j] = k
    BY <1>3, <2>1, <2>2 DEF Written
  <2>4. \A u : SliceOK(u) /\ u = t => SliceOK(u)'
    <3> SUFFICES ASSUME NEW u, SliceOK(u), u = t PROVE SliceOK(u)'
      OBVIOUS
    <3> QED
      BY <1>3, <2>1, <2>3, SliceStays
  <2> QED
    BY <1>4, <2>1, <2>4 DEF t, SliceOK, At, Bound
<1> QED
  BY <1>3, <1>4

-----------------------------------------------------------------------------
(* The request is between the two critical sections of Pick.               *)
Holding == {"found", "lock", "rotate"}

(* A step that leaves the arrays and slices alone keeps the pool sound, if *)
(* it takes back no binding and brings no request between the sections.    *)
LEMMA PoolUntouched ==
  ASSUME PoolInv, UNCHANGED <<mem, keys, list>>, BoundStays,
         bind' \in [Keys \cup {Connecting} -> {"idle", "lock", "append", "end"}],
         first' \in [Requests -> Keys \cup {"none"}], todo' \subseteq {k \in Keys : Bound(k)'},
         \A k \in Keys : bind'[k] = "end" => bind[k] = "end",
         \A r \in Requests : /\ first'[r] = first[r] \/ first'[r] = "none"
                             /\ pc'[r] \in Holding => pc[r] \in Holding /\ first'[r] = first[r]
  PROVE  PoolInv'
<1>1. SliceOK(keys)'
  BY DEF PoolInv, SliceOK, At, Bound, BoundStays
<1>2. ASSUME NEW r \in Requests PROVE SliceOK(list[r])'
  BY SMTT(20) DEF PoolInv, SliceOK, At, Bound, BoundStays
<1>3. ASSUME NEW r \in Requests, pc'[r] \in {"found", "lock", "rotate"}
      PROVE  list'[r].len > 0 /\ first'[r] # "none"
  BY <1>3 DEF PoolInv, Holding
<1>4. PoolServes'
  <2>1. (\E k \in Keys : bind'[k] = "end") => keys'.len > 0
    BY DEF PoolInv, PoolServes
  <2>2. \A i \in 1 .. keys'.len : Bound(At(keys, i))'
    BY <1>1 DEF SliceOK
  <2>3. ASSUME NEW r \in Requests, first'[r] # "none" PROVE Bound(first[r])'
    <3>1. first'[r] = first[r] /\ Bound(first[r])
      BY <2>3 DEF PoolInv, PoolServes
    <3> QED
      BY <3>1 DEF BoundStays, Bound
  <2> QED
    BY <2>1, <2>2, <2>3 DEF PoolServes
<1> QED
  BY <1>1, <1>2, <1>3, <1>4 DEF PoolInv

(* Where a handler may be.                                                 *)
Places == {"idle", "sent", "pick", "empty", "found", "lock", "rotate", "relock", "execute", "noKey",
           "relay", "chunk", "reply", "fail", "end"}

(* Pick reads the pool as it is: what it holds on to is sound.             *)
LEMMA RLockKeepsPool ==
  ASSUME PoolInv, NEW r \in Requests, pc \in [Requests -> Places], RLock(r) PROVE PoolInv'
<1>1. /\ UNCHANGED <<mem, keys, bind, todo>> /\ list' = [list EXCEPT ![r] = keys]
      /\ \/ keys.len = 0 /\ pc' = [pc EXCEPT ![r] = "empty"] /\ first' = first
         \/ keys.len # 0 /\ pc' = [pc EXCEPT ![r] = "found"] /\ first' = [first EXCEPT ![r] = At(keys, 1)]
  BY DEF RLock, Goto, link
<1>2. SliceOK(keys) /\ keys \in SliceType /\ keys.len \in Nat
  BY RoomOfSlice DEF PoolInv, SliceOK, SliceType, Arrays
<1>3. keys.len # 0 => Bound(At(keys, 1))
  BY <1>2 DEF SliceOK
<1>4. first' \in [Requests -> Keys \cup {"none"}] /\ list' \in [Requests -> SliceType]
  BY <1>1, <1>2, <1>3, ZenonT(40) DEF PoolInv, SliceType, Bound
<1>5. \A s : SliceOK(s) => SliceOK(s)'
  BY <1>1 DEF SliceOK, At, Bound
<1>6. SliceOK(keys)' /\ \A q \in Requests : SliceOK(list[q])'
  <2>1. ASSUME NEW q \in Requests PROVE SliceOK(list[q])'
    <3>1. list'[q] = keys \/ list'[q] = list[q]
      BY <1>1 DEF PoolInv
    <3> QED
      BY <1>1, <1>2, <3>1, ZenonT(40) DEF PoolInv, SliceOK, At, Bound
  <2> QED
    BY <1>1, <1>2, <2>1 DEF SliceOK, At, Bound
<1>7. ASSUME NEW q \in Requests, pc'[q] \in {"found", "lock", "rotate"}
      PROVE  list'[q].len > 0 /\ first'[q] # "none"
  <2>1. CASE q = r
    <3>1. keys.len # 0 /\ list'[r] = keys /\ first'[r] = At(keys, 1)
      BY <1>1, <1>7, <2>1 DEF PoolInv
    <3> QED
      BY <1>2, <1>3, <2>1, <3>1, NodeAssumption DEF Bound
  <2>2. CASE q # r
    BY <1>1, <1>7, <2>2 DEF PoolInv
  <2> QED
    BY <2>1, <2>2
<1>8. PoolServes'
  <2>1. ASSUME NEW q \in Requests, first'[q] # "none" PROVE Bound(first[q])'
    <3>1. first'[q] = first[q] \/ (keys.len # 0 /\ first'[q] = At(keys, 1))
      BY <1>1 DEF PoolInv
    <3> QED
      BY <1>1, <1>3, <2>1, <3>1 DEF PoolInv, PoolServes, Bound
  <2>2. \A i \in 1 .. keys'.len : Bound(At(keys, i))'
    BY <1>6 DEF SliceOK
  <2>3. (\E k \in Keys : bind'[k] = "end") => keys'.len > 0
    BY <1>1 DEF PoolInv, PoolServes
  <2> QED
    BY <2>1, <2>2, <2>3 DEF PoolServes
<1> QED
  BY <1>1, <1>4, <1>6, <1>7, <1>8 DEF PoolInv, SliceType, Bound

(* Pick puts the first key behind the others, whatever the pool has become *)
(* since it was read.                                                      *)
LEMMA RotateKeepsPool ==
  ASSUME PoolInv, NEW r \in Requests, pc \in [Requests -> Places], Rotate(r) PROVE PoolInv'
<1>1. /\ UNCHANGED <<bind, todo, first>> /\ list' = [list EXCEPT ![r] = NilSlice]
      /\ pc' = [pc EXCEPT ![r] = "relock"] /\ pc[r] = "rotate"
      /\ AppendKey(TailOf(list[r]), first[r], r)
  BY DEF Rotate, Goto, link
<1>2. list[r].len > 0 /\ SliceOK(list[r]) /\ Bound(first[r]) /\ mem \in Arrays
  BY <1>1 DEF PoolInv, PoolServes, Arrays
<1>3. PICK k \in Keys : k = first[r] /\ Bound(k)
  BY <1>2 DEF Bound
<1>4. PICK s : s = TailOf(list[r]) /\ SliceOK(s)
  BY <1>2, TailIsSlice
<1>5. BoundStays /\ Bound(k)'
  BY <1>1, <1>3 DEF BoundStays, Bound
<1>6. AppendKey(s, k, r)
  BY <1>1, <1>3, <1>4
<1>7. \A q \in Requests \ {r} : SliceOK(list[q])
  BY DEF PoolInv
<1>8. /\ mem' \in Arrays /\ SliceOK(keys)' /\ keys'.len = s.len + 1
      /\ \A q \in Requests \ {r} : list'[q] = list[q] => SliceOK(list[q])'
  BY <1>2, <1>4, <1>5, <1>6, <1>7, AppendKeyKeepsSlices
<1>9. /\ list' \in [Requests -> SliceType] /\ list'[r] = NilSlice
      /\ \A q \in Requests \ {r} : list'[q] = list[q]
  BY <1>1 DEF PoolInv, NilSlice, Slice, SliceType
<1>10. \A q \in Requests : SliceOK(list[q])'
  <2>1. SliceOK(list[r])'
    BY <1>9 DEF SliceOK, NilSlice, Slice
  <2> QED
    BY <1>8, <1>9, <2>1
<1>11. \A q \in Requests : pc'[q] \in {"found", "lock", "rotate"} =>
           list'[q].len > 0 /\ first'[q] # "none"
  BY <1>1, <1>9 DEF PoolInv
<1>12. PoolServes'
  <2>1. keys'.len > 0
    BY <1>4, <1>8, RoomOfSlice, <1>2
  <2>2. \A i \in 1 .. keys'.len : Bound(At(keys, i))'
    BY <1>8 DEF SliceOK
  <2> QED
    BY <1>1, <2>1, <2>2 DEF PoolInv, PoolServes, Bound
<1> QED
  BY <1>1, <1>8, <1>9, <1>10, <1>11, <1>12 DEF PoolInv, Arrays, SliceType, Bound

(* Register puts a bound key behind the pool.                              *)
LEMMA RegisterKeepsPool ==
  ASSUME PoolInv, NEW b \in Keys \cup {Connecting}, NEW k \in Keys, RegisterKey(b, k),
         BoundStays, Bound(k)', todo' \subseteq {x \in Keys : Bound(x)'},
         bind' \in [Keys \cup {Connecting} -> {"idle", "lock", "append", "end"}]
  PROVE  PoolInv'
<1>1. UNCHANGED <<list, first, pc>> /\ AppendKey(keys, k, b)
  BY DEF RegisterKey, handler
<1>2. mem \in Arrays /\ SliceOK(keys) /\ \A q \in Requests : SliceOK(list[q])
  BY DEF PoolInv, Arrays
<1>3. Requests \ {b} = Requests
  BY NodeAssumption
<1>4. PICK s : s = keys /\ SliceOK(s)
  BY <1>2
<1>5. AppendKey(s, k, b) /\ \A q \in Requests \ {b} : SliceOK(list[q])
  BY <1>1, <1>2, <1>4
<1>6. /\ mem' \in Arrays /\ SliceOK(keys)' /\ keys'.len = s.len + 1
      /\ \A q \in Requests \ {b} : list'[q] = list[q] => SliceOK(list[q])'
  BY <1>2, <1>4, <1>5, AppendKeyKeepsSlices
<1>7. \A q \in Requests : SliceOK(list[q])'
  BY <1>1, <1>3, <1>6
<1>8. PoolServes'
  <2>1. keys'.len > 0
    BY <1>2, <1>4, <1>6, RoomOfSlice
  <2>2. \A i \in 1 .. keys'.len : Bound(At(keys, i))'
    BY <1>6 DEF SliceOK
  <2>3. \A q \in Requests : first'[q] # "none" => Bound(first[q])'
    BY <1>1 DEF PoolInv, PoolServes, BoundStays, Bound
  <2> QED
    BY <2>1, <2>2, <2>3 DEF PoolServes
<1> QED
  BY <1>1, <1>6, <1>7, <1>8 DEF PoolInv, Arrays, Bound

(* What most steps are to the pool: no slice, array or binding changes,    *)
(* and no request enters between the sections of Pick.                     *)
Quiet ==
    /\ UNCHANGED <<mem, keys, list, bind, todo>>
    /\ first' \in [Requests -> Keys \cup {"none"}]
    /\ \A r \in Requests : /\ first'[r] = first[r] \/ first'[r] = "none"
                           /\ pc'[r] \in Holding => pc[r] \in Holding /\ first'[r] = first[r]

(* Such a step keeps the pool sound.                                       *)
LEMMA QuietKeepsPool == ASSUME PoolInv, Quiet PROVE PoolInv'
<1>1. /\ BoundStays /\ todo' \subseteq {k \in Keys : Bound(k)'}
      /\ bind' \in [Keys \cup {Connecting} -> {"idle", "lock", "append", "end"}]
      /\ \A k \in Keys : bind'[k] = "end" => bind[k] = "end"
  BY DEF Quiet, PoolInv, BoundStays, Bound
<1>2. UNCHANGED <<mem, keys, list>>
  BY DEF Quiet
<1> QED
  BY <1>1, <1>2, PoolUntouched DEF Quiet

(* So are the steps of a request outside the two sections, of its stream   *)
(* and of its client.                                                      *)
LEMMA RequestsAreQuiet ==
  ASSUME PoolInv, pc \in [Requests -> Places], NEW r \in Requests,
         \/ Arrive(r) \/ PlatformSends(r) \/ ClientLeaves(r) \/ Upstream(r) \/ Produce(r)
         \/ RUnlock(r) \/ Lock(r) \/ Picked(r) \/ ExecuteStream(r)
         \/ TakeChunk(r) \/ SeeClosed(r) \/ TakeErr(r) \/ NoKey(r) \/ TakeNilErr(r) \/ Answer(r)
  PROVE  Quiet
<1> DEFINE Calm == /\ UNCHANGED <<mem, keys, list, bind, todo, first>>
                   /\ \A q \in Requests : pc'[q] \in Holding => pc[q] \in Holding
           Still == UNCHANGED <<mem, keys, list, bind, todo, first, pc>>
<1>1. CASE Calm
  BY <1>1 DEF Quiet, PoolInv
<1>2. CASE Still
  BY <1>2 DEF Quiet, PoolInv
<1>3. CASE Arrive(r) \/ PlatformSends(r) \/ ClientLeaves(r) \/ ExecuteStream(r) \/ Execute(r)
  <2>1. Calm
    BY <1>3 DEF Arrive, PlatformSends, ClientLeaves, ExecuteStream, Execute, End, Goto, Holding,
                router, link
  <2> QED
    BY <1>1, <2>1
<1>4. CASE TakeChunk(r) \/ SeeClosed(r) \/ TakeErr(r) \/ NoKey(r) \/ TakeNilErr(r)
  <2>1. Calm
    BY <1>4 DEF TakeChunk, SeeClosed, TakeErr, NoKey, TakeNilErr, End, Goto, Holding, router, link
  <2> QED
    BY <1>1, <2>1
<1>5. CASE Answer(r)
  <2>1. Calm
    BY <1>5 DEF Answer, End, Goto, Holding, router, link
  <2> QED
    BY <1>1, <2>1
<1>6. CASE UpstreamSays(r) \/ UpstreamFails(r) \/ UpstreamEnds(r) \/ Produce(r)
  <2>1. Still
    BY <1>6 DEF UpstreamSays, UpstreamFails, UpstreamEnds, Produce, SendChunk, SendCancelled,
                ReadCancelled, CloseErrs, CloseChunks, router, handler, link
  <2> QED
    BY <1>2, <2>1
<1>7. CASE RUnlock(r) \/ Lock(r)
  <2>1. /\ UNCHANGED <<mem, keys, list, bind, todo, first>>
        /\ \/ pc[r] \in Holding /\ pc' = [pc EXCEPT ![r] = "lock"]
           \/ pc[r] \in Holding /\ pc' = [pc EXCEPT ![r] = "rotate"]
           \/ pc' = [pc EXCEPT ![r] = "noKey"]
    BY <1>7 DEF RUnlock, Lock, Goto, Holding, link
  <2> QED
    BY <2>1 DEF Quiet, PoolInv, Holding
<1>8. CASE Picked(r)
  BY <1>8 DEF Picked, Goto, Quiet, PoolInv, Holding, link
<1> QED
  BY <1>3, <1>4, <1>5, <1>6, <1>7, <1>8 DEF Upstream

(* A binding that is made, or waits for the lock, takes nothing away; nor  *)
(* does the tunnel that connects.                                          *)
LEMMA BindingKeepsPool ==
  ASSUME PoolInv,
         \/ \E b \in Keys \cup {Connecting} : RegisterLock(b)
         \/ \E k \in Keys : BindModel(k)
         \/ Connect
  PROVE  PoolInv'
<1>1. /\ UNCHANGED <<mem, keys, list, first, pc>>
      /\ bind' \in [Keys \cup {Connecting} -> {"idle", "lock", "append", "end"}]
      /\ \A k \in Keys : bind[k] # "idle" => bind'[k] # "idle"
      /\ \A k \in Keys : bind'[k] = "end" => bind[k] = "end"
      /\ todo' \subseteq {k \in Keys : Bound(k)}
  <2>1. CASE \E b \in Keys \cup {Connecting} : RegisterLock(b)
    BY <2>1 DEF PoolInv, RegisterLock, handler
  <2>2. CASE \E k \in Keys : BindModel(k)
    BY <2>2 DEF PoolInv, BindModel, router, handler
  <2>3. CASE Connect
    BY <2>3, NodeAssumption DEF PoolInv, Connect, NextBinding, Bound, router, handler
  <2> QED
    BY <2>1, <2>2, <2>3
<1>2. BoundStays /\ todo' \subseteq {k \in Keys : Bound(k)'}
  BY <1>1 DEF BoundStays, Bound
<1> QED
  BY <1>1, <1>2, PoolUntouched DEF PoolInv

(* Every step keeps the pool sound.                                        *)
LEMMA StepKeepsPool ==
  ASSUME PoolInv, pc \in [Requests -> Places], Next PROVE PoolInv'
<1>1. ASSUME NEW k \in Keys, BindRegisters(k) PROVE PoolInv'
  <2>1. /\ RegisterKey(k, k) /\ bind' = [bind EXCEPT ![k] = "end"] /\ todo' = todo
    BY <1>1 DEF BindRegisters
  <2>2. /\ BoundStays /\ Bound(k)' /\ todo' \subseteq {x \in Keys : Bound(x)'}
        /\ bind' \in [Keys \cup {Connecting} -> {"idle", "lock", "append", "end"}]
    BY <2>1 DEF PoolInv, BoundStays, Bound
  <2> QED
    BY <2>1, <2>2, RegisterKeepsPool
<1>2. ASSUME NEW k \in todo, RegisterKey(Connecting, k), todo' = todo \ {k}, NextBinding
      PROVE  PoolInv'
  <2>1. k \in Keys /\ Bound(k)
    BY <1>2 DEF PoolInv
  <2>2. /\ BoundStays /\ Bound(k)' /\ todo' \subseteq {x \in Keys : Bound(x)'}
        /\ bind' \in [Keys \cup {Connecting} -> {"idle", "lock", "append", "end"}]
    BY <1>2, <2>1, NodeAssumption DEF PoolInv, BoundStays, Bound, NextBinding
  <2> QED
    BY <1>2, <2>1, <2>2, RegisterKeepsPool
<1>3. CASE Register
  BY <1>1, <1>2, <1>3, BindingKeepsPool DEF Register, ConnectRegisters
<1>4. CASE ReadJSON \/ ConnectionLost \/ Heartbeat
  <2>1. Quiet
    BY <1>4 DEF ReadJSON, ConnectionLost, Heartbeat, Goto, Quiet, PoolInv, Holding, router,
                handler, link
  <2> QED
    BY <2>1, QuietKeepsPool
<1>5. ASSUME NEW r \in Requests, Arrive(r) \/ PlatformSends(r) \/ ClientLeaves(r) \/ Upstream(r)
                                 \/ Handle(r) \/ Produce(r)
      PROVE  PoolInv'
  <2>1. CASE RLock(r)
    BY <2>1, RLockKeepsPool
  <2>2. CASE Rotate(r)
    BY <2>2, RotateKeepsPool
  <2>3. CASE ~RLock(r) /\ ~Rotate(r)
    BY <1>5, <2>3, RequestsAreQuiet, QuietKeepsPool DEF Handle, Proceed, Pick
  <2> QED
    BY <2>1, <2>2, <2>3
<1> QED
  BY <1>3, <1>4, <1>5, BindingKeepsPool DEF Next, Running

-----------------------------------------------------------------------------
(* Nothing of the stream of q changes.                                     *)
SameStream(q) ==
    /\ pc'[q] = pc[q] /\ said'[q] = said[q] /\ heard'[q] = heard[q] /\ over'[q] = over[q]
    /\ held'[q] = held[q] /\ producer'[q] = producer[q] /\ chunks'[q] = chunks[q]
    /\ chunksClosed'[q] = chunksClosed[q]

(* A stream that does not change is sound whatever becomes of the tunnel:  *)
(* when it comes up no request of the platform has been handled.           *)
LEMMA OtherStreams ==
  ASSUME StreamInv, NEW q \in Requests, SameStream(q),
         tunnel' = "up" => tunnel = "up" \/ \A r \in Remote : pc[r] = "idle"
  PROVE  StreamOK(q)'
<1>1. StreamOK(q) /\ StreamTypes
  BY DEF StreamInv
<1>2. CASE Arrives(q)' => Arrives(q)
  BY <1>1, <1>2, ZenonT(40) DEF StreamOK, SameStream, Sending
<1>3. CASE ~(Arrives(q)' => Arrives(q))
  <2>1. pc[q] = "idle"
    BY <1>3 DEF Arrives, Requests
  <2>2. producer[q] = "off" /\ held[q] = <<>>
    BY <1>1, <2>1 DEF StreamOK
  <2>3. said[q] = <<>> /\ heard[q] = <<>> /\ chunks[q] = <<>>
    BY <1>1, <2>2 DEF StreamOK
  <2>4. Len(heard[q]) + Len(held[q]) + Len(chunks[q]) + Sending(q) = Len(said[q])
    BY <2>2, <2>3 DEF Sending
  <2> QED
    BY <1>1, <2>1, <2>2, <2>3, <2>4 DEF StreamOK, SameStream, Sending
<1> QED
  BY <1>2, <1>3

(* A step of one request keeps the invariant if it keeps its stream sound. *)
LEMMA OneStream ==
  ASSUME StreamInv, NEW r \in Requests, StreamTypes', LinkOK', tunnel' = tunnel, StreamOK(r)',
         \A q \in Requests \ {r} : SameStream(q)
  PROVE  StreamInv'
<1>1. ASSUME NEW q \in Requests PROVE StreamOK(q)'
  BY OtherStreams
<1> QED
  BY <1>1 DEF StreamInv

(* The inbox does not mind what requests do that have left it or are local. *)
LEMMA LinkStays ==
  ASSUME StreamInv, UNCHANGED <<tunnel, todo, inbox>>, NEW r \in Requests,
         pc[r] \notin {"idle", "sent"} \/ r \in Local,
         \A q \in Requests \ {r} : pc'[q] = pc[q]
  PROVE  LinkOK'
<1>1. LinkOK
  BY DEF StreamInv
<1>2. tunnel \notin {"up", "lost"} => r \notin Remote
  BY <1>1, NodeAssumption DEF LinkOK
<1>3. \A i \in 1 .. Len(inbox) : inbox[i] \in Remote /\ inbox[i] # r
  BY <1>1, NodeAssumption DEF LinkOK
<1> QED
  BY <1>1, <1>2, <1>3 DEF LinkOK, Requests

(* Before the answer of a request begins, its handler may go anywhere but  *)
(* to where chunks are awaited.                                            *)
LEMMA EarlyStream ==
  ASSUME StreamInv, NEW r \in Requests, producer[r] = "off", pc[r] # "end",
         NEW where \in {"sent", "pick", "empty", "found", "lock", "rotate", "relock", "execute",
                        "noKey", "reply", "fail"},
         pc' = [pc EXCEPT ![r] = where], tunnel' = tunnel,
         UNCHANGED <<said, heard, over, held, channels>>, LinkOK'
  PROVE  StreamInv'
<1>1. StreamOK(r) /\ StreamTypes
  BY DEF StreamInv
<1>2. pc[r] \notin {"relay", "chunk"} /\ over[r] = 0 /\ held[r] = <<>>
  BY <1>1 DEF StreamOK
<1>3. said[r] = <<>> /\ heard[r] = <<>> /\ chunks[r] = <<>> /\ Sending(r) = 0
  BY <1>1 DEF StreamOK, Sending
<1>4. Len(heard[r]) + Len(held[r]) + Len(chunks[r]) + Sending(r) = Len(said[r])
  BY <1>2, <1>3
<1>5. StreamTypes' /\ pc'[r] = where /\ \A q \in Requests \ {r} : SameStream(q)
  BY <1>1 DEF StreamTypes, SameStream, channels
<1>6. StreamOK(r)'
  BY <1>1, <1>2, <1>3, <1>4, <1>5 DEF StreamOK, channels, Sending
<1> QED
  BY <1>5, <1>6, OneStream

(* Requests that come in, and those that pick a key, have no stream yet.   *)
LEMMA PickingKeepsStreams ==
  ASSUME StreamInv, NEW r \in Requests, Arrive(r) \/ Pick(r) \/ NoKey(r) \/ Execute(r)
  PROVE  StreamInv'
<1>1. StreamOK(r) /\ StreamTypes
  BY DEF StreamInv
<1>2. /\ \/ pc[r] \in {"pick", "empty", "found", "lock", "rotate", "relock", "noKey", "execute"}
         \/ pc[r] = "idle" /\ r \in Local
      /\ UNCHANGED <<said, heard, over, held, channels, tunnel, todo, inbox>>
      /\ \/ pc' = [pc EXCEPT ![r] = "pick"] \/ pc' = [pc EXCEPT ![r] = "empty"]
         \/ pc' = [pc EXCEPT ![r] = "found"] \/ pc' = [pc EXCEPT ![r] = "lock"]
         \/ pc' = [pc EXCEPT ![r] = "noKey"] \/ pc' = [pc EXCEPT ![r] = "rotate"]
         \/ pc' = [pc EXCEPT ![r] = "relock"] \/ pc' = [pc EXCEPT ![r] = "execute"]
         \/ pc' = [pc EXCEPT ![r] = "reply"] \/ pc' = [pc EXCEPT ![r] = "fail"]
  <2>1. CASE Arrive(r) \/ NoKey(r) \/ Execute(r)
    BY <2>1 DEF Arrive, NoKey, Execute, Goto, link
  <2>2. CASE RLock(r) \/ RUnlock(r)
    BY <2>2 DEF RLock, RUnlock, Goto, link
  <2>3. CASE Lock(r) \/ Rotate(r) \/ Picked(r)
    BY <2>3 DEF Lock, Rotate, Picked, Goto, link
  <2> QED
    BY <2>1, <2>2, <2>3 DEF Pick
<1>3. producer[r] = "off" /\ pc[r] # "end"
  BY <1>1, <1>2 DEF StreamOK
<1>4. \A q \in Requests \ {r} : pc'[q] = pc[q]
  BY <1>1, <1>2 DEF StreamTypes
<1>5. LinkOK'
  BY <1>2, <1>4, LinkStays
<1> QED
  BY <1>2, <1>3, <1>5, EarlyStream

(* A request of the platform waits once, until it is read.                 *)
LEMMA InboxKeepsStreams ==
  ASSUME StreamInv, (\E r \in Requests : PlatformSends(r)) \/ ReadJSON PROVE StreamInv'
<1>1. StreamTypes /\ LinkOK
  BY DEF StreamInv
<1>2. ASSUME NEW r \in Requests, PlatformSends(r) PROVE StreamInv'
  <2>1. /\ r \in Remote /\ pc[r] = "idle" /\ tunnel = "up" /\ inbox' = Append(inbox, r)
        /\ pc' = [pc EXCEPT ![r] = "sent"] /\ UNCHANGED <<said, heard, over, held, channels>>
        /\ tunnel' = tunnel /\ todo' = todo
    BY <1>2 DEF PlatformSends, Goto
  <2>2. \A i \in 1 .. Len(inbox) : inbox[i] \in Remote /\ inbox[i] # r /\ pc[inbox[i]] = "sent"
    BY <1>1, <2>1 DEF LinkOK
  <2>3. /\ inbox' \in Seq(Remote) /\ Len(inbox') = Len(inbox) + 1 /\ inbox'[Len(inbox) + 1] = r
        /\ \A i \in 1 .. Len(inbox) : inbox'[i] = inbox[i]
        /\ Len(inbox) \in Nat
    BY <1>1, <2>1 DEF LinkOK
  <2>4. \A i \in 1 .. Len(inbox') : i \in 1 .. Len(inbox) \/ i = Len(inbox) + 1
    BY <2>3
  <2>5. \A i \in 1 .. Len(inbox') : pc'[inbox'[i]] = "sent"
    BY <1>1, <2>1, <2>2, <2>3, <2>4 DEF StreamTypes, Requests
  <2>6. \A i, j \in 1 .. Len(inbox') : inbox'[i] = inbox'[j] => i = j
    BY <1>1, <2>2, <2>3, <2>4 DEF LinkOK
  <2>7. LinkOK'
    BY <1>1, <2>1, <2>3, <2>5, <2>6 DEF LinkOK
  <2>8. producer[r] = "off"
    BY <2>1 DEF StreamInv, StreamOK
  <2> QED
    BY <2>1, <2>7, <2>8, EarlyStream
<1>3. CASE ReadJSON
  <2> DEFINE r == Head(inbox)
  <2>1. /\ tunnel = "up" /\ inbox # <<>> /\ inbox' = Tail(inbox) /\ pc' = [pc EXCEPT ![r] = "pick"]
        /\ UNCHANGED <<said, heard, over, held, channels>> /\ tunnel' = tunnel /\ todo' = todo
    BY <1>3 DEF ReadJSON, Goto
  <2>2. /\ Len(inbox) \in Nat \ {0} /\ r = inbox[1] /\ Len(inbox') = Len(inbox) - 1
        /\ inbox' \in Seq(Remote)
        /\ \A i \in 1 .. Len(inbox) - 1 : inbox'[i] = inbox[i + 1] /\ i + 1 \in 1 .. Len(inbox)
    BY <1>1, <2>1 DEF LinkOK
  <2>3. r \in Requests /\ pc[r] = "sent"
    BY <1>1, <2>2 DEF LinkOK, Requests
  <2> HIDE DEF r
  <2>4. \A i \in 1 .. Len(inbox') : inbox'[i] # r /\ pc[inbox'[i]] = "sent" /\ inbox'[i] \in Requests
    <3> SUFFICES ASSUME NEW i \in 1 .. Len(inbox')
                 PROVE  inbox'[i] # r /\ pc[inbox'[i]] = "sent" /\ inbox'[i] \in Requests
      OBVIOUS
    <3>1. inbox'[i] = inbox[i + 1] /\ i + 1 \in 1 .. Len(inbox) /\ i + 1 # 1 /\ 1 \in 1 .. Len(inbox)
      BY <2>2
    <3> QED
      BY <1>1, <2>2, <3>1 DEF LinkOK, Requests
  <2>5. \A i \in 1 .. Len(inbox') : pc'[inbox'[i]] = "sent"
    BY <1>1, <2>1, <2>4 DEF StreamTypes
  <2>6. ASSUME NEW i \in 1 .. Len(inbox'), NEW j \in 1 .. Len(inbox'), inbox'[i] = inbox'[j]
        PROVE  i = j
    <3>1. inbox[i + 1] = inbox[j + 1] /\ i + 1 \in 1 .. Len(inbox) /\ j + 1 \in 1 .. Len(inbox)
      BY <2>2, <2>6
    <3>2. i + 1 = j + 1
      BY <1>1, <3>1 DEF LinkOK
    <3> QED
      BY <2>2, <3>2
  <2>7. LinkOK'
    BY <1>1, <2>1, <2>2, <2>5, <2>6 DEF LinkOK
  <2>8. producer[r] = "off"
    BY <2>3 DEF StreamInv, StreamOK
  <2> QED
    BY <2>1, <2>3, <2>7, <2>8, EarlyStream
<1> QED
  BY <1>2, <1>3

(* The tunnel comes up before a request of the platform is handled, and    *)
(* not again after it is lost.                                             *)
LEMMA TunnelKeepsStreams ==
  ASSUME StreamInv, Register \/ (\E k \in Keys : BindModel(k)) \/ Connect \/ ConnectionLost \/ Heartbeat
  PROVE  StreamInv'
<1>1. UNCHANGED <<handler, channels, inbox>>
  BY DEF Register, RegisterLock, BindRegisters, ConnectRegisters, RegisterKey, BindModel, Connect,
         ConnectionLost, Heartbeat
<1>2. LinkOK /\ StreamTypes
  BY DEF StreamInv
<1>3. /\ todo' # {} => tunnel' = "registering"
      /\ tunnel' \notin {"up", "lost"} => tunnel \notin {"up", "lost"}
      /\ tunnel' = "up" => tunnel = "up" \/ tunnel \notin {"up", "lost"}
  <2>1. CASE (\E b \in Keys \cup {Connecting} : RegisterLock(b)) \/ (\E k \in Keys : BindModel(k)) \/ Heartbeat
    BY <1>2, <2>1 DEF LinkOK, RegisterLock, BindModel, Heartbeat
  <2>2. CASE \E k \in Keys : BindRegisters(k)
    BY <1>2, <2>2 DEF LinkOK, BindRegisters
  <2>3. CASE ConnectRegisters
    BY <1>2, <2>3 DEF LinkOK, ConnectRegisters, NextBinding
  <2>4. CASE Connect
    BY <1>2, <2>4 DEF LinkOK, Connect, NextBinding
  <2>5. CASE ConnectionLost
    BY <1>2, <2>5 DEF LinkOK, ConnectionLost
  <2> QED
    BY <2>1, <2>2, <2>3, <2>4, <2>5 DEF Register
<1>4. LinkOK' /\ StreamTypes'
  BY <1>1, <1>2, <1>3 DEF LinkOK, StreamTypes, handler, channels
<1>5. ASSUME NEW q \in Requests PROVE StreamOK(q)'
  <2>1. SameStream(q)
    BY <1>1 DEF SameStream, handler, channels
  <2>2. tunnel' = "up" => tunnel = "up" \/ \A r \in Remote : pc[r] = "idle"
    BY <1>2, <1>3 DEF LinkOK
  <2> QED
    BY <2>1, <2>2, OtherStreams
<1> QED
  BY <1>4, <1>5 DEF StreamInv

(* The goroutine of ExecuteStream starts with nothing said.                *)
LEMMA ExecuteStreamKeepsStreams ==
  ASSUME StreamInv, NEW r \in Requests, ExecuteStream(r) PROVE StreamInv'
<1>1. StreamOK(r) /\ StreamTypes
  BY DEF StreamInv
<1>2. /\ pc[r] = "execute" /\ pc' = [pc EXCEPT ![r] = "relay"]
      /\ producer' = [producer EXCEPT ![r] = "open"]
      /\ UNCHANGED <<said, heard, over, held, chunks, chunksClosed, tunnel, todo, inbox>>
  BY DEF ExecuteStream, Goto, link
<1>3. producer[r] = "off" /\ over[r] = 0 /\ held[r] = <<>> /\ ~chunksClosed[r]
  BY <1>1, <1>2 DEF StreamOK, StreamTypes
<1>4. said[r] = <<>> /\ heard[r] = <<>> /\ chunks[r] = <<>>
  BY <1>1, <1>3 DEF StreamOK
<1>5. /\ StreamTypes' /\ pc'[r] = "relay" /\ producer'[r] = "open" /\ Sending(r)' = 0
      /\ \A q \in Requests \ {r} : SameStream(q)
  BY <1>1, <1>2 DEF StreamTypes, SameStream, Sending
<1>6. LinkOK'
  <2>1. \A q \in Requests \ {r} : pc'[q] = pc[q]
    BY <1>5 DEF SameStream
  <2> QED
    BY <1>2, <2>1, LinkStays
<1>7. Len(heard[r]) + Len(held[r]) + Len(chunks[r]) + 0 = Len(said[r])
  BY <1>3, <1>4
<1>8. StreamOK(r)'
  BY <1>1, <1>2, <1>3, <1>4, <1>5, <1>7 DEF StreamOK
<1> QED
  BY <1>2, <1>5, <1>6, <1>8, OneStream

(* What is said is numbered and is about to be sent.                       *)
LEMMA UpstreamSaysKeepsStreams ==
  ASSUME StreamInv, NEW r \in Requests, UpstreamSays(r) PROVE StreamInv'
<1>1. StreamOK(r) /\ StreamTypes
  BY DEF StreamInv
<1> DEFINE n == Len(said[r])
<1>2. /\ producer[r] = "open" /\ n < MaxChunks
      /\ said' = [said EXCEPT ![r] = Append(@, Len(@) + 1)]
      /\ producer' = [producer EXCEPT ![r] = "sending"]
      /\ UNCHANGED <<pc, heard, over, held, chunks, chunksClosed, tunnel, todo, inbox>>
  BY DEF UpstreamSays, link
<1>3. /\ said[r] \in Seq(Nat) /\ n \in Nat /\ heard[r] \in Seq(Nat) /\ held[r] \in Seq(Nat)
      /\ chunks[r] \in Seq(Nat)
  BY <1>1 DEF StreamTypes, Streams
<1>4. /\ said'[r] = Append(said[r], n + 1) /\ said'[r] \in Seq(Nat) /\ Len(said'[r]) = n + 1
      /\ said'[r][n + 1] = n + 1 /\ \A i \in 1 .. n : said'[r][i] = said[r][i]
  BY <1>1, <1>2, <1>3 DEF StreamTypes, Streams
<1>5. /\ StreamTypes' /\ producer'[r] = "sending" /\ Sending(r)' = 1 /\ Sending(r) = 0
      /\ \A q \in Requests \ {r} : SameStream(q)
  BY <1>1, <1>2, <1>4 DEF StreamTypes, Streams, SameStream, Sending
<1>6. LinkOK'
  BY <1>2 DEF StreamInv, LinkOK
<1>7. \A i \in 1 .. Len(said'[r]) : said'[r][i] = i
  <2>1. \A i \in 1 .. n + 1 : i \in 1 .. n \/ i = n + 1
    BY <1>3
  <2> QED
    BY <1>1, <1>4, <2>1 DEF StreamOK
<1>8. Len(said'[r]) <= MaxChunks
  BY <1>2, <1>3, <1>4, NodeAssumption
<1>9. Arrives(r) /\ pc[r] # "end" =>
         Len(heard[r]) + Len(held[r]) + Len(chunks[r]) + 1 = Len(said'[r])
  <2> DEFINE a == Len(heard[r])
             b == Len(held[r])
             c == Len(chunks[r])
             new == Len(said'[r])
  <2>1. a \in Nat /\ b \in Nat /\ c \in Nat /\ n \in Nat /\ new = n + 1
    BY <1>3, <1>4
  <2>2. Arrives(r) /\ pc[r] # "end" => a + b + c + 0 = n
    BY <1>1, <1>5 DEF StreamOK
  <2> HIDE DEF a, b, c, n, new
  <2>3. Arrives(r) /\ pc[r] # "end" => a + b + c + 1 = new
    BY <2>1, <2>2
  <2> QED
    BY <2>3 DEF a, b, c, new
<1>10. StreamOK(r)'
  BY <1>1, <1>2, <1>5, <1>7, <1>8, <1>9 DEF StreamOK, Arrives
<1> QED
  BY <1>2, <1>5, <1>6, <1>10, OneStream

(* Where the goroutine ends, and in which order it closes its channels,    *)
(* changes no chunk; one that is lost is lost after the handler has ended. *)
LEMMA ProducerEndsKeepsStreams ==
  ASSUME StreamInv, NEW r \in Requests,
         UpstreamFails(r) \/ UpstreamEnds(r) \/ SendCancelled(r) \/ CloseErrs(r) \/ CloseChunks(r)
  PROVE  StreamInv'
<1>1. StreamOK(r) /\ StreamTypes
  BY DEF StreamInv
<1>2. UNCHANGED <<pc, said, heard, over, held, chunks, tunnel, todo, inbox>>
  BY DEF UpstreamFails, UpstreamEnds, SendCancelled, CloseErrs, CloseChunks, handler, link
<1>3. /\ producer[r] \notin {"off", "gone"}
      /\ producer[r] = "sending" => pc[r] = "end"
      /\ \/ producer' = [producer EXCEPT ![r] = "closeErrs"] /\ chunksClosed' = chunksClosed
         \/ producer' = [producer EXCEPT ![r] = "closeChunks"] /\ chunksClosed' = chunksClosed
         \/ /\ producer' = [producer EXCEPT ![r] = "gone"]
            /\ chunksClosed' = [chunksClosed EXCEPT ![r] = TRUE]
  <2>1. CASE UpstreamFails(r) \/ UpstreamEnds(r) \/ CloseErrs(r) \/ CloseChunks(r)
    BY <2>1 DEF UpstreamFails, UpstreamEnds, CloseErrs, CloseChunks
  <2>2. CASE SendCancelled(r)
    BY <2>2 DEF SendCancelled, Cancelled
  <2> QED
    BY <2>1, <2>2
<1>4. StreamTypes' /\ \A q \in Requests \ {r} : SameStream(q)
  BY <1>1, <1>2, <1>3 DEF StreamTypes, SameStream
<1>5. /\ producer'[r] \in {"closeErrs", "closeChunks", "gone"} /\ Sending(r)' = 0
      /\ chunksClosed'[r] => producer'[r] = "gone" \/ chunksClosed[r]
      /\ pc[r] # "end" => Sending(r) = 0
  BY <1>1, <1>3 DEF StreamTypes, Sending
<1>6. ~chunksClosed[r] /\ pc[r] # "reply"
  BY <1>1, <1>3 DEF StreamOK
<1>7. LinkOK'
  BY <1>2 DEF StreamInv, LinkOK
<1>8. StreamOK(r)'
  BY <1>1, <1>2, <1>3, <1>5, <1>6 DEF StreamOK, Arrives
<1> QED
  BY <1>2, <1>4, <1>7, <1>8, OneStream

(* The chunk that is sent is the one behind all that are under way.        *)
LEMMA SendChunkKeepsStreams ==
  ASSUME StreamInv, NEW r \in Requests, SendChunk(r) PROVE StreamInv'
<1>1. StreamOK(r) /\ StreamTypes
  BY DEF StreamInv
<1> DEFINE n == Len(chunks[r])
           a == Len(heard[r])
           b == Len(held[r])
           before == a + b
<1>2. /\ producer[r] = "sending" /\ chunks' = [chunks EXCEPT ![r] = Append(@, Len(said[r]))]
      /\ producer' = [producer EXCEPT ![r] = "open"]
      /\ UNCHANGED <<pc, said, heard, over, held, chunksClosed, tunnel, todo, inbox>>
  BY DEF SendChunk, handler, link
<1>3. /\ said[r] \in Seq(Nat) /\ n \in Nat /\ heard[r] \in Seq(Nat) /\ held[r] \in Seq(Nat)
      /\ chunks[r] \in Seq(Nat) /\ Len(said[r]) \in Nat
      /\ Len(heard[r]) \in Nat /\ Len(held[r]) \in Nat
  BY <1>1 DEF StreamTypes, Streams
<1>4. before \in Nat
  <2>1. a \in Nat /\ b \in Nat
    BY <1>3
  <2> HIDE DEF a, b
  <2> QED
    BY <2>1
<1>5. /\ chunks'[r] = Append(chunks[r], Len(said[r])) /\ chunks'[r] \in Seq(Nat)
      /\ Len(chunks'[r]) = n + 1 /\ chunks'[r][n + 1] = Len(said[r])
      /\ \A i \in 1 .. n : chunks'[r][i] = chunks[r][i]
  BY <1>1, <1>2, <1>3 DEF StreamTypes, Streams
<1>6. /\ StreamTypes' /\ producer'[r] = "open" /\ Sending(r)' = 0 /\ Sending(r) = 1
      /\ \A q \in Requests \ {r} : SameStream(q)
  BY <1>1, <1>2, <1>5 DEF StreamTypes, Streams, SameStream, Sending
<1>7. LinkOK'
  BY <1>2 DEF StreamInv, LinkOK
<1>8. pc[r] # "reply" /\ ~chunksClosed[r]
  BY <1>1, <1>2 DEF StreamOK
<1>9. Arrives(r) /\ pc[r] # "end" =>
          /\ before + n + 1 = Len(said[r])
          /\ \A i \in 1 .. n : chunks[r][i] = before + i
  BY <1>1, <1>6 DEF StreamOK
<1>10. Arrives(r) /\ pc[r] # "end" =>
          /\ before + Len(chunks'[r]) + 0 = Len(said[r])
          /\ \A i \in 1 .. Len(chunks'[r]) : chunks'[r][i] = before + i
  <2> HIDE DEF before, n
  <2>1. \A i \in 1 .. n + 1 : i \in 1 .. n \/ i = n + 1
    BY <1>3
  <2>2. before + (n + 1) = before + n + 1 /\ before + (n + 1) + 0 = before + n + 1
    BY <1>3, <1>4
  <2> QED
    BY <1>5, <1>9, <2>1, <2>2
<1>11. StreamOK(r)'
  BY <1>1, <1>2, <1>6, <1>8, <1>10 DEF StreamOK, Arrives
<1> QED
  BY <1>2, <1>6, <1>7, <1>11, OneStream

(* The handler takes the oldest chunk.                                     *)
LEMMA TakeChunkKeepsStreams ==
  ASSUME StreamInv, NEW r \in Requests, TakeChunk(r) PROVE StreamInv'
<1>1. StreamOK(r) /\ StreamTypes
  BY DEF StreamInv
<1> DEFINE n == Len(chunks[r])
           h == Len(heard[r])
<1>2. /\ pc[r] = "relay" /\ chunks[r] # <<>> /\ pc' = [pc EXCEPT ![r] = "chunk"]
      /\ held' = [held EXCEPT ![r] = <<Head(chunks[r])>>]
      /\ chunks' = [chunks EXCEPT ![r] = Tail(@)]
      /\ UNCHANGED <<said, heard, over, producer, chunksClosed, tunnel, todo, inbox>>
  BY DEF TakeChunk, Goto, link
<1>3. held[r] = <<>> /\ Len(held[r]) = 0 /\ producer[r] # "off" /\ over[r] = 0
  BY <1>1, <1>2 DEF StreamOK
<1>4. /\ chunks[r] \in Seq(Nat) /\ n \in Nat \ {0} /\ h \in Nat /\ Len(said[r]) \in Nat
      /\ heard[r] \in Seq(Nat)
  BY <1>1, <1>2 DEF StreamTypes, Streams
<1>5. /\ chunks'[r] = Tail(chunks[r]) /\ chunks'[r] \in Seq(Nat) /\ Len(chunks'[r]) = n - 1
      /\ \A i \in 1 .. n - 1 : chunks'[r][i] = chunks[r][i + 1] /\ i + 1 \in 1 .. n
      /\ held'[r] = <<chunks[r][1]>> /\ chunks[r][1] \in Nat /\ 1 \in 1 .. n
  BY <1>1, <1>2, <1>4 DEF StreamTypes, Streams
<1>6. held'[r] \in Seq(Nat) /\ Len(held'[r]) = 1 /\ held'[r][1] = chunks[r][1]
  BY <1>5
<1>7. /\ StreamTypes' /\ pc'[r] = "chunk" /\ Sending(r)' = Sending(r)
      /\ \A q \in Requests \ {r} : SameStream(q)
  BY <1>1, <1>2, <1>5, <1>6 DEF StreamTypes, Streams, SameStream, Sending
<1>8. LinkOK'
  <2>1. \A q \in Requests \ {r} : pc'[q] = pc[q]
    BY <1>7 DEF SameStream
  <2> QED
    BY <1>2, <2>1, LinkStays
<1>9. Sending(r) \in Nat
  BY DEF Sending
<1>10. Arrives(r) =>
          /\ h + 0 + n + Sending(r) = Len(said[r])
          /\ \A i \in 1 .. n : chunks[r][i] = h + 0 + i
  BY <1>1, <1>2, <1>3 DEF StreamOK
<1>11. Arrives(r) =>
          /\ h + Len(held'[r]) + Len(chunks'[r]) + Sending(r) = Len(said[r])
          /\ held'[r][1] = h + 1
          /\ \A i \in 1 .. Len(chunks'[r]) : chunks'[r][i] = h + Len(held'[r]) + i
  <2> HIDE DEF n, h
  <2> SUFFICES ASSUME Arrives(r)
               PROVE  /\ h + Len(held'[r]) + Len(chunks'[r]) + Sending(r) = Len(said[r])
                      /\ held'[r][1] = h + 1
                      /\ \A i \in 1 .. Len(chunks'[r]) : chunks'[r][i] = h + Len(held'[r]) + i
    OBVIOUS
  <2>1. h + 1 + (n - 1) + Sending(r) = Len(said[r])
    BY <1>4, <1>9, <1>10
  <2>2. chunks[r][1] = h + 1
    BY <1>4, <1>5, <1>10
  <2>3. ASSUME NEW i \in 1 .. n - 1 PROVE chunks'[r][i] = h + 1 + i
    <3>1. chunks'[r][i] = chunks[r][i + 1] /\ chunks[r][i + 1] = h + 0 + (i + 1)
      BY <1>5, <1>10
    <3> QED
      BY <1>4, <3>1
  <2> QED
    BY <1>5, <1>6, <2>1, <2>2, <2>3
<1>12. StreamOK(r)'
  BY <1>1, <1>2, <1>3, <1>6, <1>7, <1>11 DEF StreamOK, Arrives
<1> QED
  BY <1>2, <1>7, <1>8, <1>12, OneStream

(* A handler that sees the chunks closed has taken them all; one that      *)
(* meets an error or is left stops as it is.                               *)
LEMMA RelayEndsKeepsStreams ==
  ASSUME StreamInv, NEW r \in Requests,
         SeeClosed(r) \/ TakeErr(r) \/ TakeNilErr(r) \/ ClientLeaves(r)
  PROVE  StreamInv'
<1>1. StreamOK(r) /\ StreamTypes
  BY DEF StreamInv
<1>2. /\ pc[r] = "relay" /\ UNCHANGED <<said, heard, over, held, producer, chunks, chunksClosed>>
      /\ UNCHANGED <<tunnel, todo, inbox>>
      /\ \/ pc' = [pc EXCEPT ![r] = "reply"] /\ chunks[r] = <<>> /\ chunksClosed[r]
         \/ pc' = [pc EXCEPT ![r] = "fail"]
         \/ pc' = [pc EXCEPT ![r] = "end"]
  BY DEF SeeClosed, TakeErr, TakeNilErr, ClientLeaves, End, Goto, channels, link
<1>3. /\ StreamTypes' /\ pc'[r] \in {"reply", "fail", "end"} /\ Sending(r)' = Sending(r)
      /\ pc'[r] = "reply" => chunks[r] = <<>> /\ chunksClosed[r]
      /\ \A q \in Requests \ {r} : SameStream(q)
  BY <1>1, <1>2 DEF StreamTypes, SameStream, Sending
<1>4. LinkOK'
  <2>1. \A q \in Requests \ {r} : pc'[q] = pc[q]
    BY <1>3 DEF SameStream
  <2> QED
    BY <1>2, <2>1, LinkStays
<1>5. held[r] = <<>> /\ over[r] = 0 /\ producer[r] # "off"
  BY <1>1, <1>2 DEF StreamOK
<1>6. StreamOK(r)'
  BY <1>1, <1>2, <1>3, <1>5 DEF StreamOK, Arrives
<1> QED
  BY <1>2, <1>3, <1>4, <1>6, OneStream

(* What two sequences make together.                                       *)
LEMMA Joined ==
  ASSUME NEW s \in Seq(Nat), NEW t \in Seq(Nat)
  PROVE  /\ s \o t \in Seq(Nat) /\ Len(s \o t) = Len(s) + Len(t)
         /\ \A i \in 1 .. Len(s) + Len(t) :
               (s \o t)[i] = IF i <= Len(s) THEN s[i] ELSE t[i - Len(s)]
OBVIOUS

(* The client hears the chunk that comes next, and the end of the answer   *)
(* only once; an answer that the lost connection swallows is not counted.  *)
LEMMA AnswerKeepsStreams ==
  ASSUME StreamInv, NEW r \in Requests, Answer(r) PROVE StreamInv'
<1>1. StreamOK(r) /\ StreamTypes
  BY DEF StreamInv
<1> DEFINE a == Len(heard[r])
           b == Len(held[r])
           c == Len(chunks[r])
<1>2. /\ pc[r] \in Writes
      /\ heard' = [heard EXCEPT ![r] = IF Arrives(r) THEN @ \o held[r] ELSE @]
      /\ over' = [over EXCEPT ![r] = IF Arrives(r) /\ pc[r] = "reply" THEN @ + 1 ELSE @]
      /\ held' = [held EXCEPT ![r] = <<>>]
      /\ pc' = [pc EXCEPT ![r] = IF pc[r] = "chunk" THEN "relay" ELSE "end"]
      /\ UNCHANGED <<said, producer, chunks, chunksClosed, tunnel, todo, inbox>>
  BY DEF Answer, Goto, End, Arrives, channels, link
<1>3. /\ heard[r] \in Seq(Nat) /\ held[r] \in Seq(Nat) /\ chunks[r] \in Seq(Nat)
      /\ Len(said[r]) \in Nat /\ Len(heard[r]) \in Nat /\ Len(held[r]) \in Nat
      /\ Len(chunks[r]) \in Nat /\ Sending(r) \in Nat /\ over[r] = 0
  <2>1. over[r] = 0
    BY <1>1, <1>2 DEF StreamOK, Writes
  <2>2. /\ heard[r] \in Seq(Nat) /\ held[r] \in Seq(Nat) /\ chunks[r] \in Seq(Nat)
        /\ said[r] \in Seq(Nat)
    BY <1>1 DEF StreamTypes, Streams
  <2> QED
    BY <2>1, <2>2 DEF Sending
<1>4. heard'[r] = IF Arrives(r) THEN heard[r] \o held[r] ELSE heard[r]
  BY <1>1, <1>2 DEF StreamTypes, Streams
<1>5. /\ heard[r] \o held[r] \in Seq(Nat) /\ Len(heard[r] \o held[r]) = a + b
      /\ \A i \in 1 .. a + b : (heard[r] \o held[r])[i] = IF i <= a THEN heard[r][i] ELSE held[r][i - a]
  BY <1>3, Joined
<1>6. held[r] = <<>> \/ (b = 1 /\ pc[r] = "chunk")
  BY <1>1 DEF StreamOK
<1>7. /\ StreamTypes' /\ Sending(r)' = Sending(r) /\ \A q \in Requests \ {r} : SameStream(q)
      /\ held'[r] = <<>> /\ pc'[r] = IF pc[r] = "chunk" THEN "relay" ELSE "end"
      /\ over'[r] = IF Arrives(r) /\ pc[r] = "reply" THEN 1 ELSE 0
  BY <1>1, <1>2, <1>3, <1>4, <1>5 DEF StreamTypes, Streams, SameStream, Sending
<1>8. LinkOK'
  <2>1. \A q \in Requests \ {r} : pc'[q] = pc[q]
    BY <1>7 DEF SameStream
  <2> QED
    BY <1>2, <2>1, LinkStays DEF Writes
<1>9. /\ \A i \in 1 .. a : heard[r][i] = i
      /\ Arrives(r) => /\ a + b + c + Sending(r) = Len(said[r])
                       /\ held[r] # <<>> => held[r][1] = a + 1
                       /\ \A i \in 1 .. c : chunks[r][i] = a + b + i
  BY <1>1, <1>2 DEF StreamOK, Writes
<1>10. Arrives(r) => \A i \in 1 .. a + b : heard'[r][i] = i
  <2>1. CASE held[r] = <<>>
    <3>1. b = 0
      BY <2>1
    <3>2. a \in Nat
      BY <1>3
    <3> SUFFICES ASSUME Arrives(r), NEW i \in 1 .. a + b PROVE heard'[r][i] = i
      OBVIOUS
    <3>3. heard'[r][i] = IF i <= a THEN heard[r][i] ELSE held[r][i - a]
      BY <1>4, <1>5
    <3> HIDE DEF a, b
    <3>4. i \in 1 .. a /\ i <= a
      BY <3>1, <3>2
    <3> QED
      BY <1>9, <3>3, <3>4
  <2>2. CASE held[r] # <<>>
    <3>1. b = 1
      BY <1>6, <2>2
    <3> SUFFICES ASSUME Arrives(r), NEW i \in 1 .. a + b PROVE heard'[r][i] = i
      OBVIOUS
    <3>2. a \in Nat /\ held[r][1] = a + 1
      BY <1>3, <1>9, <2>2
    <3>3. heard'[r][i] = IF i <= a THEN heard[r][i] ELSE held[r][i - a]
      BY <1>4, <1>5
    <3> HIDE DEF a, b
    <3>4. i \in 1 .. a \/ (~(i <= a) /\ i = a + 1 /\ i - a = 1)
      BY <3>1, <3>2
    <3> QED
      BY <1>9, <3>2, <3>3, <3>4
  <2> QED
    BY <2>1, <2>2
<1>11. /\ \A i \in 1 .. Len(heard'[r]) : heard'[r][i] = i
       /\ Arrives(r) => Len(heard'[r]) = a + b
  BY <1>4, <1>5, <1>9, <1>10
<1>12. Arrives(r) =>
          /\ Len(heard'[r]) + 0 + c + Sending(r) = Len(said[r])
          /\ \A i \in 1 .. c : chunks[r][i] = Len(heard'[r]) + 0 + i
  <2> DEFINE new == Len(heard'[r])
  <2>1. Arrives(r) => new = a + b
    BY <1>11
  <2>2. a \in Nat /\ b \in Nat /\ c \in Nat
    BY <1>3
  <2> HIDE DEF a, b, c, new
  <2>3. Arrives(r) => new + 0 + c + Sending(r) = Len(said[r])
    BY <1>3, <1>9, <2>1, <2>2
  <2>4. Arrives(r) => \A i \in 1 .. c : chunks[r][i] = new + 0 + i
    BY <1>9, <2>1, <2>2
  <2> QED
    BY <2>3, <2>4 DEF new
<1>13. Len(held'[r]) = 0
  BY <1>7
<1>14. producer[r] = "off" => heard'[r] = <<>>
  <2>1. producer[r] = "off" => heard[r] = <<>> /\ held[r] = <<>>
    BY <1>1, <1>2 DEF StreamOK
  <2> QED
    BY <1>4, <2>1
<1>15. StreamOK(r)'
  <2>1. /\ Len(said[r]) <= MaxChunks
        /\ \A i \in 1 .. Len(said[r]) : said[r][i] = i
        /\ producer[r] = "off" => said[r] = <<>> /\ chunks[r] = <<>>
        /\ chunksClosed[r] => producer[r] = "gone"
        /\ pc[r] = "chunk" => producer[r] # "off"
    BY <1>1 DEF StreamOK
  <2>2. pc'[r] \in {"relay", "end"} /\ (over'[r] = 1 => pc'[r] = "end") /\ over'[r] \in {0, 1}
    BY <1>7
  <2>3. /\ said'[r] = said[r] /\ producer'[r] = producer[r] /\ chunks'[r] = chunks[r]
        /\ chunksClosed'[r] = chunksClosed[r] /\ Arrives(r)' = Arrives(r)
    BY <1>2 DEF Arrives
  <2>4. Arrives(r) /\ pc'[r] # "end" =>
           /\ Len(heard'[r]) + Len(held'[r]) + Len(chunks'[r]) + Sending(r)' = Len(said'[r])
           /\ \A i \in 1 .. Len(chunks'[r]) : chunks'[r][i] = Len(heard'[r]) + Len(held'[r]) + i
    BY <1>7, <1>12, <1>13, <2>3
  <2>5. /\ Len(said'[r]) <= MaxChunks
        /\ \A i \in 1 .. Len(said'[r]) : said'[r][i] = i
        /\ \A i \in 1 .. Len(heard'[r]) : heard'[r][i] = i
    BY <1>11, <2>1, <2>3
  <2>6. /\ producer'[r] = "off" => said'[r] = <<>> /\ heard'[r] = <<>> /\ chunks'[r] = <<>>
        /\ chunksClosed'[r] => producer'[r] = "gone"
        /\ pc'[r] = "relay" => producer'[r] # "off"
    BY <1>7, <1>14, <2>1, <2>3
  <2> QED
    BY <1>7, <2>2, <2>3, <2>4, <2>5, <2>6 DEF StreamOK
<1> QED
  BY <1>2, <1>7, <1>8, <1>15, OneStream

(* Every step keeps the streams whole.                                     *)
LEMMA StepKeepsStreams ==
  ASSUME StreamInv, Next PROVE StreamInv'
<1>1. ASSUME NEW r \in Requests, Arrive(r) \/ PlatformSends(r) \/ ClientLeaves(r) PROVE StreamInv'
  BY <1>1, PickingKeepsStreams, InboxKeepsStreams, RelayEndsKeepsStreams
<1>2. ASSUME NEW r \in Requests, Upstream(r) PROVE StreamInv'
  BY <1>2, UpstreamSaysKeepsStreams, ProducerEndsKeepsStreams, PickingKeepsStreams DEF Upstream
<1>3. ASSUME NEW r \in Requests, Handle(r) PROVE StreamInv'
  BY <1>3, PickingKeepsStreams, ExecuteStreamKeepsStreams, TakeChunkKeepsStreams,
     RelayEndsKeepsStreams, AnswerKeepsStreams DEF Handle, Proceed
<1>4. ASSUME NEW r \in Requests, Produce(r) PROVE StreamInv'
  BY <1>4, SendChunkKeepsStreams, ProducerEndsKeepsStreams DEF Produce, ReadCancelled
<1>5. ASSUME (\E k \in Keys : BindModel(k)) \/ Connect \/ Register \/ ReadJSON \/ ConnectionLost \/ Heartbeat
      PROVE  StreamInv'
  BY <1>5, TunnelKeepsStreams, InboxKeepsStreams
<1> QED
  BY <1>1, <1>2, <1>3, <1>4, <1>5 DEF Next, Running

(* The node starts with an empty pool or with one key that is bound.       *)
LEMMA InitEstablishesInv == Init => NodeInv
<1> SUFFICES ASSUME Init PROVE NodeInv
  OBVIOUS
<1> DEFINE one == CHOOSE k \in Keys : TRUE
<1>1. one \in Keys
  BY NodeAssumption
<1>2. one # Connecting
  BY <1>1, NodeAssumption
<1>3. /\ list = [r \in Requests |-> NilSlice] /\ first = [r \in Requests |-> "none"]
      /\ todo = {} /\ pc = [r \in Requests |-> "idle"]
  BY DEF Init
<1> HIDE DEF one
<1>4. SliceOK(NilSlice)
  BY DEF SliceOK, NilSlice, Slice
<1>5. /\ list \in [Requests -> [arr : Nat, off : Nat, len : Nat]]
      /\ first \in [Requests -> Keys \cup {"none"}]
      /\ todo \subseteq {k \in Keys : Bound(k)}
      /\ \A r \in Requests :
            /\ SliceOK(list[r])
            /\ pc[r] \in {"found", "lock", "rotate"} => list[r].len > 0 /\ first[r] # "none"
  <2>1. NilSlice \in [arr : Nat, off : Nat, len : Nat]
    BY DEF NilSlice, Slice
  <2> QED
    BY <1>3, <1>4, <2>1
<1>6. ASSUME mem = [i \in 1 .. 1 |-> <<>>], keys = NilSlice,
             bind = [b \in Keys \cup {Connecting} |-> "idle"]
      PROVE  PoolInv
  <2>1. mem \in Seq(Seq(Keys \cup {"unused"}))
    BY <1>6, FunctionIsSeq
  <2>2. PoolServes
    BY <1>3, <1>6, <1>4 DEF PoolServes, NilSlice, Slice
  <2>3. bind \in [Keys \cup {Connecting} -> {"idle", "lock", "append", "end"}]
    BY <1>6
  <2>4. SliceOK(keys)
    BY <1>4, <1>6
  <2> QED
    BY <1>5, <2>1, <2>2, <2>3, <2>4 DEF PoolInv
<1>7. ASSUME mem = [i \in 1 .. 1 |-> <<one>>], keys = Slice(1, 0, 1),
             bind = [b \in Keys \cup {Connecting} |-> IF b = one THEN "end" ELSE "idle"]
      PROVE  PoolInv
  <2>1. mem \in Seq(Seq(Keys \cup {"unused"})) /\ Len(mem) = 1 /\ mem[1] = <<one>>
    BY <1>1, <1>7, FunctionIsSeq
  <2>2. Bound(one)
    BY <1>1, <1>7 DEF Bound
  <2>3. Len(mem[1]) = 1 /\ mem[1][1] = one
    BY <2>1
  <2>4. keys \in [arr : Nat, off : Nat, len : Nat] /\ keys.arr = 1 /\ keys.off = 0 /\ keys.len = 1
    BY <1>7 DEF Slice
  <2>5. \A i \in 1 .. keys.len : Bound(At(keys, i))
    BY <2>2, <2>3, <2>4 DEF At
  <2>6. SliceOK(keys)
    BY <2>1, <2>3, <2>4, <2>5 DEF SliceOK
  <2>7. PoolServes
    BY <1>3, <2>4, <2>5 DEF PoolServes
  <2>8. bind \in [Keys \cup {Connecting} -> {"idle", "lock", "append", "end"}]
    BY <1>7
  <2> QED
    BY <1>5, <2>1, <2>6, <2>7, <2>8 DEF PoolInv
<1>8. PoolInv
  <2>1. PICK known \in {{}, {one}} :
          /\ mem = [i \in 1 .. 1 |-> IF known = {} THEN <<>> ELSE <<CHOOSE k \in known : TRUE>>]
          /\ keys = IF known = {} THEN NilSlice ELSE Slice(1, 0, 1)
          /\ bind = [b \in Keys \cup {Connecting} |-> IF b \in known THEN "end" ELSE "idle"]
    BY DEF Init, one
  <2>2. (CHOOSE k \in {one} : TRUE) = one
    OBVIOUS
  <2>3. CASE known = {}
    <3>1. mem = [i \in 1 .. 1 |-> <<>>] /\ keys = NilSlice
      BY <2>1, <2>3
    <3>2. bind = [b \in Keys \cup {Connecting} |-> "idle"]
      BY <2>1, <2>3
    <3> QED
      BY <1>6, <3>1, <3>2
  <2>4. CASE known = {one}
    <3>1. mem = [i \in 1 .. 1 |-> <<one>>] /\ keys = Slice(1, 0, 1)
      BY <2>1, <2>2, <2>4
    <3>2. bind = [b \in Keys \cup {Connecting} |-> IF b = one THEN "end" ELSE "idle"]
      BY <2>1, <2>4
    <3> QED
      BY <1>7, <3>1, <3>2
  <2> QED
    BY <2>3, <2>4
<1>9. StreamTypes
  BY DEF Init, StreamTypes, Streams
<1>10. LinkOK
  BY <1>3, NodeAssumption DEF Init, LinkOK, Requests
<1>11. ASSUME NEW r \in Requests PROVE StreamOK(r)
  <2>1. /\ said[r] = <<>> /\ heard[r] = <<>> /\ over[r] = 0 /\ held[r] = <<>> /\ chunks[r] = <<>>
        /\ producer[r] = "off" /\ ~chunksClosed[r] /\ pc[r] = "idle"
    BY DEF Init
  <2>2. /\ Len(said[r]) = 0 /\ Len(heard[r]) = 0 /\ Len(held[r]) = 0 /\ Len(chunks[r]) = 0
        /\ Sending(r) = 0
    BY <2>1 DEF Sending
  <2> QED
    BY <2>1, <2>2, NodeAssumption DEF StreamOK
<1> QED
  BY <1>8, <1>9, <1>10, <1>11 DEF NodeInv, StreamInv

(* The invariant of the node: whatever the slices of the pool share, all   *)
(* of them show bound keys; and what the upstream of a request has said is *)
(* what its client has heard and what is still under way, in order.        *)
THEOREM NodeInvariant == Spec => []NodeInv
<1>1. Init => NodeInv
  BY InitEstablishesInv
<1>2. NodeInv /\ [Next]_vars => NodeInv'
  <2> SUFFICES ASSUME NodeInv, [Next]_vars PROVE NodeInv'
    OBVIOUS
  <2>1. CASE Next
    <3>1. pc \in [Requests -> Places]
      BY DEF NodeInv, StreamInv, StreamTypes, Places
    <3> QED
      BY <2>1, <3>1, StepKeepsPool, StepKeepsStreams DEF NodeInv
  <2>2. CASE UNCHANGED vars
    <3>1. PoolInv'
      BY <2>2 DEF NodeInv, vars, router, handler, link, PoolInv, PoolServes, SliceOK, At, Bound
    <3>2. StreamTypes' /\ LinkOK'
      BY <2>2 DEF NodeInv, StreamInv, vars, handler, channels, link, StreamTypes, LinkOK
    <3>3. \A r \in Requests : StreamOK(r)'
      BY <2>2, ZenonT(40) DEF NodeInv, StreamInv, vars, handler, channels, link, StreamOK, Arrives, Sending
    <3> QED
      BY <3>1, <3>2, <3>3 DEF NodeInv, StreamInv
  <2> QED
    BY <2>1, <2>2
<1> QED
  BY <1>1, <1>2, PTL DEF Spec

(* Once a Register has returned the pool is never empty again, and what it *)
(* holds and what a request picks are keys that were bound, although the   *)
(* three critical sections of Pick leave room for others in between.       *)
THEOREM ThePoolServes == Spec => []PoolServes
<1>1. NodeInv => PoolServes
  BY DEF NodeInv, PoolInv
<1> QED
  BY <1>1, NodeInvariant, PTL

(* Two sequences with the same elements are one.                           *)
LEMMA SeqEqual ==
  ASSUME NEW s \in Seq(Nat), NEW t \in Seq(Nat), Len(s) = Len(t),
         \A i \in 1 .. Len(s) : s[i] = t[i]
  PROVE  s = t
OBVIOUS

(* What the steps other than UpstreamSays and Answer leave to the clients. *)
Silent(r) == said'[r] = said[r] /\ heard'[r] = heard[r] /\ over'[r] = over[r]

(* The upstream says the next piece.                                       *)
LEMMA SayingIsSaying ==
  ASSUME StreamInv, NEW r \in Requests, UpstreamSays(r)
  PROVE  Client(r)!Next /\ \A q \in Requests \ {r} : Silent(q)
<1>1. said \in [Requests -> Seq(Nat)]
  BY DEF StreamInv, StreamTypes, Streams
<1>2. /\ Len(said[r]) < MaxChunks /\ said' = [said EXCEPT ![r] = Append(@, Len(@) + 1)]
      /\ heard' = heard /\ over' = over
  BY DEF UpstreamSays
<1> DEFINE n == Len(said[r]) + 1
<1>3. n \in 1 .. MaxChunks
  <2>1. Len(said[r]) \in Nat
    BY <1>1
  <2> QED
    BY <1>2, <2>1, NodeAssumption
<1>4. said'[r] = Append(said[r], n)
  BY <1>1, <1>2
<1>5. Client(r)!Say(n)
  BY <1>2, <1>4 DEF Client!Say
<1>6. \A q \in Requests \ {r} : Silent(q)
  BY <1>1, <1>2 DEF Silent
<1> QED
  BY <1>3, <1>5, <1>6 DEF Client!Next

(* An answer that arrives is the next piece, or the end of all of them.    *)
LEMMA AnsweringIsHearing ==
  ASSUME StreamInv, NEW r \in Requests, Answer(r)
  PROVE  (Client(r)!Next \/ Silent(r)) /\ \A q \in Requests \ {r} : Silent(q)
<1>1. StreamOK(r) /\ StreamTypes
  BY DEF StreamInv
<1>2. /\ pc[r] \in Writes /\ said' = said
      /\ heard' = [heard EXCEPT ![r] = IF Arrives(r) THEN @ \o held[r] ELSE @]
      /\ over' = [over EXCEPT ![r] = IF Arrives(r) /\ pc[r] = "reply" THEN @ + 1 ELSE @]
  BY DEF Answer, Arrives
<1>3. /\ heard[r] \in Seq(Nat) /\ held[r] \in Seq(Nat) /\ said[r] \in Seq(Nat) /\ over[r] = 0
      /\ Len(said[r]) \in Nat /\ Len(heard[r]) \in Nat /\ Len(held[r]) \in Nat
      /\ Len(chunks[r]) \in Nat /\ Sending(r) \in Nat
  <2>1. over[r] = 0
    BY <1>1, <1>2 DEF StreamOK, Writes
  <2>2. /\ heard[r] \in Seq(Nat) /\ held[r] \in Seq(Nat) /\ chunks[r] \in Seq(Nat)
        /\ said[r] \in Seq(Nat)
    BY <1>1 DEF StreamTypes, Streams
  <2> QED
    BY <2>1, <2>2 DEF Sending
<1>4. /\ heard'[r] = IF Arrives(r) THEN heard[r] \o held[r] ELSE heard[r]
      /\ over'[r] = IF Arrives(r) /\ pc[r] = "reply" THEN 1 ELSE 0
      /\ \A q \in Requests \ {r} : Silent(q)
  BY <1>1, <1>2, <1>3 DEF StreamTypes, Streams, Silent
<1>5. /\ \A i \in 1 .. Len(said[r]) : said[r][i] = i
      /\ \A i \in 1 .. Len(heard[r]) : heard[r][i] = i
      /\ Arrives(r) => /\ Len(heard[r]) + Len(held[r]) + Len(chunks[r]) + Sending(r) = Len(said[r])
                       /\ held[r] # <<>> => held[r][1] = Len(heard[r]) + 1
  BY <1>1, <1>2 DEF StreamOK, Writes
<1>6. CASE Arrives(r) /\ held[r] # <<>>
  <2> DEFINE n == Len(heard[r])
  <2>1. pc[r] = "chunk" /\ Len(held[r]) = 1 /\ held[r][1] = n + 1
    BY <1>1, <1>5, <1>6 DEF StreamOK
  <2>2. n < Len(said[r]) /\ n + 1 \in 1 .. Len(said[r])
    <3> DEFINE b == Len(held[r])
               c == Len(chunks[r])
               m == Len(said[r])
    <3>1. n \in Nat /\ b = 1 /\ c \in Nat /\ m \in Nat /\ n + b + c + Sending(r) = m
      BY <1>3, <1>5, <1>6, <2>1
    <3> HIDE DEF n, b, c, m
    <3>2. n < m /\ n + 1 \in 1 .. m
      BY <1>3, <3>1
    <3> QED
      BY <3>2 DEF m
  <2>3. held[r] = <<n + 1>>
    BY <1>3, <2>1
  <2>4. heard[r] \o <<n + 1>> = Append(heard[r], n + 1)
    BY <1>3
  <2>5. heard'[r] = Append(heard[r], said[r][n + 1])
    BY <1>4, <1>5, <1>6, <2>2, <2>3, <2>4
  <2>6. Client(r)!Hear
    BY <1>2, <1>3, <1>4, <2>1, <2>2, <2>5 DEF Client!Hear
  <2> QED
    BY <1>4, <2>6 DEF Client!Next
<1>7. CASE ~Arrives(r) \/ (held[r] = <<>> /\ pc[r] # "reply")
  <2>1. held[r] = <<>> => heard[r] \o held[r] = heard[r]
    BY <1>3
  <2>2. heard'[r] = heard[r] /\ over'[r] = 0
    BY <1>4, <1>7, <2>1
  <2> QED
    BY <1>2, <1>3, <1>4, <2>2 DEF Silent
<1>8. CASE Arrives(r) /\ held[r] = <<>> /\ pc[r] = "reply"
  <2>1. Len(held[r]) = 0 /\ Len(chunks[r]) = 0 /\ Sending(r) = 0
    BY <1>1, <1>8 DEF StreamOK, Sending
  <2>2. Len(heard[r]) = Len(said[r])
    BY <1>3, <1>5, <1>8, <2>1
  <2>3. heard[r] = said[r]
    <3>1. \A i \in 1 .. Len(heard[r]) : heard[r][i] = said[r][i]
      BY <1>5, <2>2
    <3> QED
      BY <1>3, <2>2, <3>1, SeqEqual
  <2>4. heard'[r] = heard[r] /\ over'[r] = 1
    BY <1>3, <1>4, <1>8
  <2>5. Client(r)!Close
    BY <1>2, <1>3, <2>3, <2>4 DEF Client!Close
  <2> QED
    BY <1>4, <2>5 DEF Client!Next
<1> QED
  BY <1>6, <1>7, <1>8

(* The other steps say nothing and let nobody hear anything.               *)
LEMMA OthersAreSilent ==
  ASSUME Next, \A r \in Requests : ~UpstreamSays(r) /\ ~Answer(r)
  PROVE  UNCHANGED <<said, heard, over>>
<1>1. ASSUME NEW r \in Requests, Arrive(r) \/ PlatformSends(r) \/ ClientLeaves(r) \/ Upstream(r)
      PROVE  UNCHANGED <<said, heard, over>>
  BY <1>1 DEF Arrive, PlatformSends, ClientLeaves, Upstream, UpstreamFails, UpstreamEnds, Execute, handler
<1>2. ASSUME NEW r \in Requests, Pick(r) PROVE UNCHANGED <<said, heard, over>>
  BY <1>2 DEF Pick, RLock, RUnlock, Lock, Rotate, Picked
<1>3. ASSUME NEW r \in Requests, Handle(r), ~Pick(r) PROVE UNCHANGED <<said, heard, over>>
  BY <1>3 DEF Handle, Proceed, ExecuteStream, TakeChunk, SeeClosed, TakeErr, NoKey, TakeNilErr
<1>4. ASSUME NEW r \in Requests, Produce(r) PROVE UNCHANGED <<said, heard, over>>
  BY <1>4 DEF Produce, SendChunk, SendCancelled, ReadCancelled, UpstreamEnds, CloseErrs, CloseChunks, handler
<1>5. CASE (\E k \in Keys : BindModel(k)) \/ Connect \/ Register \/ ReadJSON \/ ConnectionLost \/ Heartbeat
  BY <1>5 DEF BindModel, Connect, Register, RegisterLock, BindRegisters, ConnectRegisters, RegisterKey,
              ReadJSON, ConnectionLost, Heartbeat, handler
<1> QED
  BY <1>1, <1>2, <1>3, <1>4, <1>5 DEF Next, Running

(* Each client is served as Delivery promises.                             *)
THEOREM NodeDelivers == Spec => ImplementsDelivery
<1> DEFINE Step == \A r \in Requests : Client(r)!Next \/ UNCHANGED <<said[r], heard[r], over[r]>>
<1>1. Init => \A r \in Requests : Client(r)!Init
  BY DEF Init, Client!Init
<1>2. NodeInv /\ [Next]_vars => [Step]_<<said, heard, over>>
  <2> SUFFICES ASSUME NodeInv, [Next]_vars PROVE [Step]_<<said, heard, over>>
    OBVIOUS
  <2>1. StreamInv
    BY DEF NodeInv
  <2>2. CASE UNCHANGED vars
    BY <2>2 DEF vars, handler
  <2>3. ASSUME NEW r \in Requests, UpstreamSays(r) \/ Answer(r) PROVE Step
    <3>1. Client(r)!Next \/ Silent(r)
      BY <2>1, <2>3, SayingIsSaying, AnsweringIsHearing
    <3>2. \A q \in Requests \ {r} : Silent(q)
      BY <2>1, <2>3, SayingIsSaying, AnsweringIsHearing
    <3> QED
      BY <3>1, <3>2 DEF Silent
  <2>4. CASE Next /\ \A r \in Requests : ~UpstreamSays(r) /\ ~Answer(r)
    BY <2>4, OthersAreSilent
  <2> QED
    BY <2>2, <2>3, <2>4
<1> QED
  BY <1>1, <1>2, NodeInvariant, PTL DEF Spec, ImplementsDelivery
=============================================================================
