--------------------------- MODULE Command_proofs ---------------------------
(***************************************************************************)
(* Theorems about the wire format of version 4's commands, for every size  *)
(* of the fields and every message.                                        *)
(*                                                                         *)
(* Numbers are the hard part: PutUint and Uint are recursive functions, so *)
(* what they compute is shown by induction, here from the fact that every  *)
(* nonempty set of natural numbers has a least element.                    *)
(***************************************************************************)
EXTENDS Command, SequenceTheorems, WellFoundedInduction, TLAPS

(***************************************************************************)
(* Induction, stated with sets.                                            *)
(***************************************************************************)

\* The order of the natural numbers as a relation.
Below == {p \in Nat \X Nat : p[1] < p[2]}

\* A nonempty set of natural numbers has a least element.
LEMMA LeastElement ==
  ASSUME NEW T \in SUBSET Nat, T # {}
  PROVE  \E n \in T : \A m \in T : n <= m
<1>1. IsWellFoundedOn(Below, Nat)
  BY NatLessThanWellFounded DEF OpToRel, Below
<1>2. PICK n \in T : \A m \in T : ~ (<<m, n>> \in Below)
  BY <1>1, WFMin
<1>3. \A m \in T : ~ (m < n)
  BY <1>2 DEF Below
<1> QED BY <1>2, <1>3

\* A set that has 0, and with every number up to N also the next one, has all
\* numbers up to N.
LEMMA Induction ==
  ASSUME NEW N \in Nat, NEW G, 0 \in G,
         \A n \in 0..(N - 1) : n \in G => n + 1 \in G
  PROVE  \A n \in 0..N : n \in G
<1> DEFINE T == {n \in 0..N : n \notin G}
<1> SUFFICES ASSUME T # {} PROVE FALSE OBVIOUS
<1>1. PICK n \in T : \A m \in T : n <= m
  <2> T \in SUBSET Nat OBVIOUS
  <2> QED BY LeastElement
<1>2. n - 1 \in 0..(N - 1) BY <1>1
<1>3. n - 1 \in G BY <1>1, <1>2
<1> QED BY <1>1, <1>2, <1>3

(***************************************************************************)
(* encoding/binary.                                                        *)
(***************************************************************************)

\* Division by the base of the numbers.
LEMMA Division ==
  /\ \A v \in Nat : /\ v \div Base \in Nat /\ v % Base \in Byte
                    /\ v = (v \div Base) * Base + (v % Base)
  /\ \A a \in Nat, d \in Byte : a * Base + d \in Nat
<1>1. \A v \in Nat : /\ v \div Base \in Nat /\ v % Base \in Byte
                     /\ v = (v \div Base) * Base + (v % Base)
  BY FieldAssumption DEF Byte
<1> QED BY <1>1, FieldAssumption DEF Byte

\* The last digit of a number, and what it is without it.
LEMMA LastDigit ==
  ASSUME NEW v \in Nat, NEW a \in Nat, NEW d \in Byte, v = a * Base + d
  PROVE  v \div Base = a /\ v % Base = d
<1> DEFINE q == v \div Base
<1> DEFINE r == v % Base
<1>1. Base \in Nat /\ Base > 7 /\ d \in Nat /\ d < Base BY FieldAssumption DEF Byte
<1>2. q \in Nat /\ r \in Nat /\ r < Base /\ a * Base + d = q * Base + r
  BY <1>1, Division DEF Byte
<1> HIDE DEF q, r
<1>3. ~ (a > q)
  <2> SUFFICES ASSUME a >= q + 1 PROVE FALSE BY <1>2
  <2>1. a * Base >= (q + 1) * Base BY <1>1, <1>2
  <2>2. (q + 1) * Base = q * Base + Base BY <1>1, <1>2
  <2> QED BY <2>1, <2>2, <1>1, <1>2
<1>4. ~ (q > a)
  <2> SUFFICES ASSUME q >= a + 1 PROVE FALSE BY <1>2
  <2>1. q * Base >= (a + 1) * Base BY <1>1, <1>2
  <2>2. (a + 1) * Base = a * Base + Base BY <1>1, <1>2
  <2> QED BY <2>1, <2>2, <1>1, <1>2
<1>5. q = a BY <1>2, <1>3, <1>4
<1>6. r = d BY <1>1, <1>2, <1>5
<1> QED BY <1>5, <1>6 DEF q, r

\* f is the function value of Uint, on the first k bytes of b.
IsValue(f, b, k) == f = [i \in 0..k |-> IF i = 0 THEN 0 ELSE f[i - 1] * Base + b[i]]

\* s is the function shift of PutUint.
IsShift(s, v, len) == s = [k \in 0..len |-> IF k = 0 THEN v ELSE s[k - 1] \div Base]

\* The recursion of Uint defines a function.
LEMMA ValueExists ==
  ASSUME NEW b, NEW N \in Nat PROVE \E f : IsValue(f, b, N)
<1> DEFINE G == {k \in 0..N : \E f : IsValue(f, b, k)}
<1>1. 0 \in G
  <2> IsValue([i \in 0..0 |-> 0], b, 0) BY DEF IsValue
  <2> QED OBVIOUS
<1>2. ASSUME NEW k \in 0..(N - 1), k \in G PROVE k + 1 \in G
  <2>1. PICK f : IsValue(f, b, k) BY <1>2
  <2> DEFINE g == [i \in 0..(k + 1) |-> IF i = k + 1 THEN f[k] * Base + b[k + 1] ELSE f[i]]
  <2>2. \A i \in 0..k : f[i] = IF i = 0 THEN 0 ELSE f[i - 1] * Base + b[i]
    BY <2>1 DEF IsValue
  <2>3. \A i \in 0..(k + 1) : g[i] = IF i = 0 THEN 0 ELSE g[i - 1] * Base + b[i]
    BY <2>2
  <2>4. IsValue(g, b, k + 1) BY <2>3 DEF IsValue
  <2> QED BY <2>4
<1>3. \A k \in 0..N : k \in G BY <1>1, <1>2, Induction
<1> QED BY <1>3

\* The recursion of PutUint defines a function.
LEMMA ShiftExists ==
  ASSUME NEW v, NEW N \in Nat PROVE \E s : IsShift(s, v, N)
<1> DEFINE G == {k \in 0..N : \E s : IsShift(s, v, k)}
<1>1. 0 \in G
  <2> IsShift([i \in 0..0 |-> v], v, 0) BY DEF IsShift
  <2> QED OBVIOUS
<1>2. ASSUME NEW k \in 0..(N - 1), k \in G PROVE k + 1 \in G
  <2>1. PICK s : IsShift(s, v, k) BY <1>2
  <2> DEFINE g == [i \in 0..(k + 1) |-> IF i = k + 1 THEN s[k] \div Base ELSE s[i]]
  <2>2. \A i \in 0..k : s[i] = IF i = 0 THEN v ELSE s[i - 1] \div Base
    BY <2>1 DEF IsShift
  <2>3. \A i \in 0..(k + 1) : g[i] = IF i = 0 THEN v ELSE g[i - 1] \div Base
    BY <2>2
  <2>4. IsShift(g, v, k + 1) BY <2>3 DEF IsShift
  <2> QED BY <2>4
<1>3. \A k \in 0..N : k \in G BY <1>1, <1>2, Induction
<1> QED BY <1>3

\* What Uint computes: the last of the values of the prefixes.
LEMMA UintFacts ==
  ASSUME NEW n \in Nat, NEW b \in Bytes(n)
  PROVE  \E f : /\ f[0] = 0
                /\ \A i \in 1..n : f[i] = f[i - 1] * Base + b[i]
                /\ \A i \in 0..n : f[i] \in Nat
                /\ Uint(b) = f[n]
<1>1. Len(b) = n /\ \A i \in 1..n : b[i] \in Byte
  <2>1. b \in Seq(Byte) BY DEF Bytes
  <2> QED BY <2>1 DEF Bytes
<1> DEFINE f == CHOOSE f : IsValue(f, b, n)
<1>2. IsValue(f, b, n) BY ValueExists
<1>3. Uint(b) = f[n] BY <1>1 DEF Uint, IsValue
<1> HIDE DEF f
<1>4. f[0] = 0 /\ \A i \in 1..n : f[i] = f[i - 1] * Base + b[i]
  <2>1. \A i \in 0..n : f[i] = IF i = 0 THEN 0 ELSE f[i - 1] * Base + b[i]
    BY <1>2 DEF IsValue
  <2> QED BY <2>1
<1> DEFINE G == {i \in 0..n : f[i] \in Nat}
<1>5. 0 \in G BY <1>4
<1>6. ASSUME NEW i \in 0..(n - 1), i \in G PROVE i + 1 \in G
  <2>1. f[i + 1] = f[i] * Base + b[i + 1] /\ b[i + 1] \in Byte BY <1>4, <1>1
  <2>2. f[i] \in Nat BY <1>6
  <2>3. f[i] * Base + b[i + 1] \in Nat BY <2>1, <2>2, Division, Zenon
  <2> QED BY <2>1, <2>3
<1>7. \A i \in 0..n : i \in G BY <1>5, <1>6, Induction
<1> QED BY <1>3, <1>4, <1>7

\* What PutUint computes: the last digits of the number, shifted.
LEMMA PutUintFacts ==
  ASSUME NEW v \in Nat, NEW n \in Nat
  PROVE  \E s : /\ s[0] = v
                /\ \A k \in 1..n : s[k] = s[k - 1] \div Base
                /\ \A k \in 0..n : s[k] \in Nat
                /\ PutUint(v, n) = [i \in 1..n |-> s[n - i] % Base]
<1> DEFINE s == CHOOSE s : IsShift(s, v, n)
<1>1. IsShift(s, v, n) BY ShiftExists
<1>2. PutUint(v, n) = [i \in 1..n |-> s[n - i] % Base] BY DEF PutUint, IsShift
<1> HIDE DEF s
<1>3. s[0] = v /\ \A k \in 1..n : s[k] = s[k - 1] \div Base
  <2>1. \A k \in 0..n : s[k] = IF k = 0 THEN v ELSE s[k - 1] \div Base
    BY <1>1 DEF IsShift
  <2> QED BY <2>1
<1> DEFINE G == {k \in 0..n : s[k] \in Nat}
<1>4. 0 \in G BY <1>3
<1>5. ASSUME NEW k \in 0..(n - 1), k \in G PROVE k + 1 \in G
  <2>1. s[k + 1] = s[k] \div Base BY <1>3
  <2>2. s[k] \in Nat BY <1>5
  <2>3. s[k] \div Base \in Nat BY <2>2, Division, Zenon
  <2> QED BY <2>1, <2>3
<1>6. \A k \in 0..n : k \in G BY <1>4, <1>5, Induction
<1> QED BY <1>2, <1>3, <1>6

\* PutUint fills the field.
LEMMA PutUintType ==
  ASSUME NEW v \in Nat, NEW n \in Nat
  PROVE  PutUint(v, n) \in Bytes(n)
<1>1. PICK s : /\ s[0] = v
               /\ \A k \in 1..n : s[k] = s[k - 1] \div Base
               /\ \A k \in 0..n : s[k] \in Nat
               /\ PutUint(v, n) = [i \in 1..n |-> s[n - i] % Base]
  BY PutUintFacts
<1>2. ASSUME NEW i \in 1..n PROVE s[n - i] % Base \in Byte
  <2>1. s[n - i] \in Nat BY <1>1
  <2> QED BY <2>1, Division
<1> QED BY <1>1, <1>2 DEF Bytes

\* The largest number of n bytes, and those of its prefixes.
LEMMA MaxUintFacts ==
  ASSUME NEW n \in Nat
  PROVE  \E m : /\ m[0] = 0
                /\ \A i \in 1..n : m[i] = m[i - 1] * Base + (Base - 1)
                /\ \A i \in 0..n : m[i] \in Nat
                /\ MaxUint(n) = m[n]
<1> DEFINE b == [i \in 1..n |-> Base - 1]
<1>1. b \in Bytes(n) BY FieldAssumption DEF Bytes, Byte
<1>2. \A i \in 1..n : b[i] = Base - 1 OBVIOUS
<1>3. MaxUint(n) = Uint(b) BY DEF MaxUint
<1> HIDE DEF b
<1> QED BY <1>1, <1>2, <1>3, UintFacts

\* The tags fit into their field.
LEMMA TagsFit ==
  ASSUME NEW n \in Nat \ {0} PROVE MaxUint(n) \in Nat /\ 7 <= MaxUint(n)
<1>1. PICK m : /\ \A i \in 1..n : m[i] = m[i - 1] * Base + (Base - 1)
               /\ \A i \in 0..n : m[i] \in Nat
               /\ MaxUint(n) = m[n]
  BY MaxUintFacts
<1>2. m[n] = m[n - 1] * Base + (Base - 1) /\ m[n - 1] \in Nat BY <1>1
<1>3. m[n - 1] * Base \in Nat BY <1>2, FieldAssumption
<1> QED BY <1>1, <1>2, <1>3, FieldAssumption

\* Uint reads what PutUint wrote, if the number fits into the field.
LEMMA UintOfPutUint ==
  ASSUME NEW n \in Nat, NEW v \in 0..MaxUint(n)
  PROVE  Uint(PutUint(v, n)) = v
<1>1. PICK m : /\ m[0] = 0
               /\ \A i \in 1..n : m[i] = m[i - 1] * Base + (Base - 1)
               /\ \A i \in 0..n : m[i] \in Nat
               /\ MaxUint(n) = m[n]
  BY MaxUintFacts
<1>2. v \in Nat /\ v <= m[n] BY <1>1
<1>3. PICK s : /\ s[0] = v
               /\ \A k \in 1..n : s[k] = s[k - 1] \div Base
               /\ \A k \in 0..n : s[k] \in Nat
               /\ PutUint(v, n) = [i \in 1..n |-> s[n - i] % Base]
  BY <1>2, PutUintFacts
<1>4. PICK f : /\ f[0] = 0
               /\ \A i \in 1..n : f[i] = f[i - 1] * Base + PutUint(v, n)[i]
               /\ \A i \in 0..n : f[i] \in Nat
               /\ Uint(PutUint(v, n)) = f[n]
  BY <1>2, PutUintType, UintFacts
\* k bytes shifted out leave a number of n - k bytes, in the end none.
<1>5. s[n] = 0
  <2> DEFINE G == {k \in 0..n : s[k] <= m[n - k]}
  <2>1. 0 \in G BY <1>2, <1>3
  <2>2. ASSUME NEW k \in 0..(n - 1), k \in G PROVE k + 1 \in G
    <3>1. /\ m[n - k] = m[n - k - 1] * Base + (Base - 1)
          /\ m[n - k - 1] \in Nat
      BY <1>1
    <3>2. s[k + 1] = s[k] \div Base /\ s[k] \in Nat /\ s[k + 1] \in Nat BY <1>3
    <3>3. s[k] = s[k + 1] * Base + (s[k] % Base) /\ s[k] % Base \in Nat
      <4>1. s[k] = (s[k] \div Base) * Base + (s[k] % Base) /\ s[k] % Base \in Byte
        BY <3>2, Division
      <4> QED BY <4>1, <3>2, FieldAssumption DEF Byte
    <3>4. s[k + 1] <= m[n - k - 1]
      <4> SUFFICES ASSUME s[k + 1] >= m[n - k - 1] + 1 PROVE FALSE BY <3>1, <3>2
      <4>1. s[k + 1] * Base >= (m[n - k - 1] + 1) * Base
        BY <3>1, <3>2, FieldAssumption
      <4>2. (m[n - k - 1] + 1) * Base = m[n - k - 1] * Base + Base
        BY <3>1, FieldAssumption
      <4>3. s[k] <= m[n - k] BY <2>2
      <4> QED BY <4>1, <4>2, <4>3, <3>1, <3>2, <3>3, FieldAssumption
    <3> QED BY <3>4
  <2>3. \A k \in 0..n : k \in G BY <2>1, <2>2, Induction
  <2>4. s[n] <= m[n - n] /\ n - n = 0 BY <2>3
  <2> QED BY <2>4, <1>1, <1>3
\* The value of a prefix is what is left when the bytes after it are shifted out.
<1>6. \A i \in 0..n : f[i] = s[n - i]
  <2> DEFINE G == {i \in 0..n : f[i] = s[n - i]}
  <2>1. 0 \in G BY <1>4, <1>5
  <2>2. ASSUME NEW i \in 0..(n - 1), i \in G PROVE i + 1 \in G
    <3>1. f[i + 1] = f[i] * Base + (s[n - (i + 1)] % Base) BY <1>3, <1>4
    <3>2. s[n - i] = s[n - (i + 1)] \div Base /\ s[n - (i + 1)] \in Nat
      <4>1. n - i \in 1..n /\ n - i - 1 = n - (i + 1) /\ n - (i + 1) \in 0..n BY <2>2
      <4> QED BY <1>3, <4>1
    <3>3. f[i] = s[n - i] BY <2>2
    <3>4. f[i + 1] = s[n - (i + 1)] BY <3>1, <3>2, <3>3, Division
    <3> QED BY <3>4
  <2>3. \A i \in 0..n : i \in G BY <2>1, <2>2, Induction
  <2> QED BY <2>3
<1>7. f[n] = s[0] BY <1>6
<1> QED BY <1>3, <1>4, <1>7

\* PutUint writes what Uint read, and what Uint reads fits into the field.
LEMMA PutUintOfUint ==
  ASSUME NEW n \in Nat, NEW b \in Bytes(n)
  PROVE  Uint(b) \in 0..MaxUint(n) /\ PutUint(Uint(b), n) = b
<1>0. \A i \in 1..n : b[i] \in Byte BY DEF Bytes
<1>1. PICK m : /\ m[0] = 0
               /\ \A i \in 1..n : m[i] = m[i - 1] * Base + (Base - 1)
               /\ \A i \in 0..n : m[i] \in Nat
               /\ MaxUint(n) = m[n]
  BY MaxUintFacts
<1>2. PICK f : /\ f[0] = 0
               /\ \A i \in 1..n : f[i] = f[i - 1] * Base + b[i]
               /\ \A i \in 0..n : f[i] \in Nat
               /\ Uint(b) = f[n]
  BY UintFacts
<1>3. Uint(b) \in Nat BY <1>2
<1>4. PICK s : /\ s[0] = f[n]
               /\ \A k \in 1..n : s[k] = s[k - 1] \div Base
               /\ \A k \in 0..n : s[k] \in Nat
               /\ PutUint(Uint(b), n) = [i \in 1..n |-> s[n - i] % Base]
  <2> DEFINE v == Uint(b)
  <2>1. v \in Nat /\ v = f[n] BY <1>2, <1>3
  <2> HIDE DEF v
  <2>2. \E s : /\ s[0] = v
               /\ \A k \in 1..n : s[k] = s[k - 1] \div Base
               /\ \A k \in 0..n : s[k] \in Nat
               /\ PutUint(v, n) = [i \in 1..n |-> s[n - i] % Base]
    BY <2>1, PutUintFacts
  <2> QED BY <2>1, <2>2 DEF v
<1>5. f[n] <= m[n]
  <2> DEFINE G == {i \in 0..n : f[i] <= m[i]}
  <2>1. 0 \in G BY <1>1, <1>2
  <2>2. ASSUME NEW i \in 0..(n - 1), i \in G PROVE i + 1 \in G
    <3>1. /\ f[i + 1] = f[i] * Base + b[i + 1] /\ m[i + 1] = m[i] * Base + (Base - 1)
          /\ f[i] \in Nat /\ m[i] \in Nat /\ f[i] <= m[i]
      BY <1>1, <1>2, <2>2
    <3>2. b[i + 1] \in Nat /\ b[i + 1] <= Base - 1 BY <1>0, FieldAssumption DEF Byte
    <3>3. f[i] * Base <= m[i] * Base /\ f[i] * Base \in Nat /\ m[i] * Base \in Nat
      BY <3>1, FieldAssumption
    <3>4. f[i + 1] <= m[i + 1] BY <3>1, <3>2, <3>3, FieldAssumption
    <3> QED BY <3>4
  <2>3. \A i \in 0..n : i \in G BY <2>1, <2>2, Induction
  <2> QED BY <2>3
<1>6. \A k \in 0..n : s[k] = f[n - k]
  <2> DEFINE G == {k \in 0..n : s[k] = f[n - k]}
  <2>1. 0 \in G BY <1>4
  <2>2. ASSUME NEW k \in 0..(n - 1), k \in G PROVE k + 1 \in G
    <3>1. s[k + 1] = f[n - k] \div Base BY <1>4, <2>2
    <3>2. /\ f[n - k] = f[n - k - 1] * Base + b[n - k]
          /\ f[n - k] \in Nat /\ f[n - k - 1] \in Nat
      BY <1>2
    <3>3. b[n - k] \in Byte BY <1>0
    <3>4. f[n - k] \div Base = f[n - k - 1] BY <3>2, <3>3, LastDigit
    <3>5. s[k + 1] = f[n - (k + 1)] BY <3>1, <3>4
    <3> QED BY <3>5
  <2>3. \A k \in 0..n : k \in G BY <2>1, <2>2, Induction
  <2> QED BY <2>3
<1>7. ASSUME NEW i \in 1..n PROVE s[n - i] % Base = b[i]
  <2>1. /\ s[n - i] = f[i] /\ f[i] = f[i - 1] * Base + b[i]
        /\ f[i] \in Nat /\ f[i - 1] \in Nat
    <3>1. n - i \in 0..n /\ n - (n - i) = i /\ i - 1 \in 0..n OBVIOUS
    <3> QED BY <1>6, <1>2, <3>1
  <2>2. f[i] % Base = b[i] BY <2>1, <1>0, LastDigit
  <2> QED BY <2>1, <2>2
<1>8. PutUint(Uint(b), n) = b BY <1>4, <1>7 DEF Bytes
<1> QED BY <1>1, <1>2, <1>3, <1>5, <1>8

(***************************************************************************)
(* Messages.                                                               *)
(***************************************************************************)

\* A field followed by the rest of a message is taken apart where it was put
\* together.
LEMMA Split ==
  ASSUME NEW s \in Seq(Byte), NEW t \in Seq(Byte)
  PROVE  /\ s \o t \in Seq(Byte)
         /\ Len(s \o t) = Len(s) + Len(t)
         /\ SubSeq(s \o t, 1, Len(s)) = s
         /\ SubSeq(s \o t, Len(s) + 1, Len(s \o t)) = t
<1>1. s \o t \in Seq(Byte) /\ Len(s \o t) = Len(s) + Len(t) BY ConcatProperties
<1>2. Len(s) \in Nat /\ Len(t) \in Nat OBVIOUS
<1>3. SubSeq(s \o t, 1, Len(s)) = SubSeq(s, 1, Len(s))
  BY <1>2, SubSeqOfConcat1
<1>4. SubSeq(s, 1, Len(s)) = s BY SubSeqFull
<1>5. SubSeq(s \o t, Len(s) + 1, Len(s \o t)) = SubSeq(t, 1, Len(t))
  BY <1>1, <1>2, SubSeqOfConcat2
<1>6. SubSeq(t, 1, Len(t)) = t BY SubSeqFull
<1> QED BY <1>1, <1>3, <1>4, <1>5, <1>6

\* A message is its first n bytes and its rest.
LEMMA Join ==
  ASSUME NEW m \in Seq(Byte), NEW n \in Nat, n <= Len(m)
  PROVE  /\ SubSeq(m, 1, n) \in Bytes(n)
         /\ SubSeq(m, n + 1, Len(m)) \in Seq(Byte)
         /\ Len(SubSeq(m, n + 1, Len(m))) = Len(m) - n
         /\ SubSeq(m, 1, n) \o SubSeq(m, n + 1, Len(m)) = m
<1>1. Len(m) \in Nat /\ \A i \in 1..Len(m) : m[i] \in Byte OBVIOUS
<1>2. SubSeq(m, 1, n) \in Bytes(n)
  <2>1. SubSeq(m, 1, n) = [i \in 1..n |-> m[i]] BY <1>1
  <2>2. \A i \in 1..n : m[i] \in Byte BY <1>1
  <2> QED BY <2>1, <2>2 DEF Bytes
<1>3. SubSeq(m, n + 1, Len(m)) \in Seq(Byte)
  BY <1>1
<1>4. Len(SubSeq(m, n + 1, Len(m))) = Len(m) - n
  BY <1>1
<1>5. SubSeq(m, 1, n) \o SubSeq(m, n + 1, Len(m)) = SubSeq(m, 1, Len(m))
  <2>1. 1 \in 1..(Len(m) + 1) /\ n \in (1 - 1)..Len(m) /\ Len(m) \in n..Len(m)
    BY <1>1
  <2> QED BY <2>1, ConcatAdjacentSubSeq
<1>6. SubSeq(m, 1, Len(m)) = m BY SubSeqFull
<1> QED BY <1>2, <1>3, <1>4, <1>5, <1>6

\* The fields of a message are sequences of bytes of the right length.
LEMMA FieldType ==
  ASSUME NEW n \in Nat, NEW b \in Bytes(n)
  PROVE  b \in Seq(Byte) /\ Len(b) = n
BY DEF Bytes

\* The commands that the constructors build.
BuiltBody(tag, b) == [tag |-> tag, body |-> b]
BuiltAck(tag, a) == [tag |-> tag, ack |-> a]
IsCommand(c) ==
    \/ \E b \in Seq(Byte) : checkSID(b) /\ c = BuiltBody(TagConnectSuccess, b)
    \/ \E b \in Seq(Byte) : checkData(b) /\ c = BuiltBody(TagData, b)
    \/ \E a \in Uint64 : c = BuiltAck(TagReconnectSuccess, a) \/ c = BuiltAck(TagAck, a)

\* A body of a command has a length that fits into its field.
LEMMA BodyFits ==
  ASSUME NEW b \in Seq(Byte), checkSID(b) \/ checkData(b)
  PROVE  Len(b) \in 0..MaxUint(DataLen)
<1>1. MaxUint(DataLen) \in Nat BY FieldAssumption, TagsFit
<1>2. MaxSIDLen \in 1..MaxUint(DataLen) /\ MaxArrayLen \in 1..MaxUint(DataLen)
  BY FieldAssumption
<1>3. Len(b) \in Nat OBVIOUS
<1> QED BY <1>1, <1>2, <1>3 DEF checkSID, checkData

\* unmarshal32 finds the body that was written behind its length.
LEMMA BodyRead ==
  ASSUME NEW b \in Seq(Byte), Len(b) \in 0..MaxUint(DataLen)
  PROVE  /\ PutUint(Len(b), DataLen) \o b \in Seq(Byte)
         /\ unmarshal32(PutUint(Len(b), DataLen) \o b) = {b}
<1> DEFINE p == PutUint(Len(b), DataLen)
<1>0. DataLen \in Nat /\ Len(b) \in Nat BY FieldAssumption
<1>1. p \in Seq(Byte) /\ Len(p) = DataLen BY <1>0, PutUintType, FieldType
<1>2. Uint(p) = Len(b) BY <1>0, UintOfPutUint
<1> HIDE DEF p
<1>3. /\ p \o b \in Seq(Byte) /\ Len(p \o b) = DataLen + Len(b)
      /\ SubSeq(p \o b, 1, DataLen) = p
      /\ SubSeq(p \o b, DataLen + 1, Len(p \o b)) = b
  BY <1>1, Split
<1>4. Len(p \o b) >= DataLen BY <1>0, <1>3
<1>5. unmarshal32(p \o b) = {b} BY <1>2, <1>3, <1>4 DEF unmarshal32
<1> QED BY <1>3, <1>5 DEF p

\* What unmarshal32 accepts is a body behind its length.
LEMMA BodyWritten ==
  ASSUME NEW m \in Seq(Byte), unmarshal32(m) # {}
  PROVE  \E b \in Seq(Byte) : /\ unmarshal32(m) = {b}
                              /\ m = PutUint(Len(b), DataLen) \o b
<1> DEFINE p == SubSeq(m, 1, DataLen)
<1> DEFINE b == SubSeq(m, DataLen + 1, Len(m))
<1>0. DataLen \in Nat BY FieldAssumption
<1>1. DataLen <= Len(m) /\ Len(b) = Uint(p) /\ unmarshal32(m) = {b}
  BY <1>0 DEF unmarshal32
<1>2. p \in Bytes(DataLen) /\ b \in Seq(Byte) /\ p \o b = m BY <1>0, <1>1, Join
<1>3. PutUint(Uint(p), DataLen) = p BY <1>0, <1>2, PutUintOfUint
<1> QED BY <1>1, <1>2, <1>3

\* unmarshalAck finds the ack that was written.
LEMMA AckRead ==
  ASSUME NEW a \in Uint64
  PROVE  PutUint(a, AckLen) \in Seq(Byte) /\ unmarshalAck(PutUint(a, AckLen)) = {a}
<1>0. AckLen \in Nat /\ a \in Nat BY FieldAssumption DEF Uint64
<1>1. PutUint(a, AckLen) \in Seq(Byte) /\ Len(PutUint(a, AckLen)) = AckLen
  BY <1>0, PutUintType, FieldType
<1>2. Uint(PutUint(a, AckLen)) = a BY <1>0, UintOfPutUint DEF Uint64
<1> QED BY <1>1, <1>2 DEF unmarshalAck

\* What unmarshalAck accepts is an ack of 64 bits.
LEMMA AckWritten ==
  ASSUME NEW m \in Seq(Byte), unmarshalAck(m) # {}
  PROVE  \E a \in Uint64 : unmarshalAck(m) = {a} /\ m = PutUint(a, AckLen)
<1>0. AckLen \in Nat BY FieldAssumption
<1>1. Len(m) = AckLen /\ unmarshalAck(m) = {Uint(m)} BY DEF unmarshalAck
<1>2. m \in Bytes(AckLen) BY <1>1 DEF Bytes
<1> QED BY <1>0, <1>1, <1>2, PutUintOfUint DEF Uint64

\* A tag is read as it was written, and the rest of the message is untouched.
LEMMA TagRead ==
  ASSUME NEW t \in 0..7, NEW r \in Seq(Byte), NEW m, m = PutUint(t, TagLen) \o r
  PROVE  /\ m \in Seq(Byte)
         /\ Len(m) \in Nat
         /\ Len(m) >= TagLen
         /\ Uint(SubSeq(m, 1, TagLen)) = t
         /\ SubSeq(m, TagLen + 1, Len(m)) = r
<1> DEFINE p == PutUint(t, TagLen)
<1>0. TagLen \in Nat \ {0} /\ t \in Nat BY FieldAssumption
<1>1. t \in 0..MaxUint(TagLen)
  <2>1. MaxUint(TagLen) \in Nat /\ 7 <= MaxUint(TagLen) BY <1>0, TagsFit
  <2> QED BY <2>1
<1>2. p \in Seq(Byte) /\ Len(p) = TagLen BY <1>0, PutUintType, FieldType
<1>3. Uint(p) = t BY <1>0, <1>1, UintOfPutUint
<1> HIDE DEF p
<1>4. /\ p \o r \in Seq(Byte) /\ Len(p \o r) = TagLen + Len(r)
      /\ SubSeq(p \o r, 1, TagLen) = p
      /\ SubSeq(p \o r, TagLen + 1, Len(p \o r)) = r
  BY <1>2, Split
<1>5. Len(p \o r) >= TagLen /\ Len(p \o r) \in Nat BY <1>0, <1>4
<1> QED BY <1>3, <1>4, <1>5 DEF p

\* A message that is long enough is its tag and the rest.
LEMMA TagWritten ==
  ASSUME NEW m \in Seq(Byte), Len(m) >= TagLen
  PROVE  /\ SubSeq(m, TagLen + 1, Len(m)) \in Seq(Byte)
         /\ m = PutUint(Uint(SubSeq(m, 1, TagLen)), TagLen) \o SubSeq(m, TagLen + 1, Len(m))
<1>0. TagLen \in Nat BY FieldAssumption
<1>1. /\ SubSeq(m, 1, TagLen) \in Bytes(TagLen)
      /\ SubSeq(m, TagLen + 1, Len(m)) \in Seq(Byte)
      /\ SubSeq(m, 1, TagLen) \o SubSeq(m, TagLen + 1, Len(m)) = m
  BY <1>0, Join
<1> QED BY <1>0, <1>1, PutUintOfUint

\* What Unmarshal makes of a tag t and of the rest b of a message.
Parse(t, b) ==
    CASE t = TagConnectSuccess ->
           IF unmarshal32(b) = {} THEN ErrBad
           ELSE NewConnectSuccess(CHOOSE x \in unmarshal32(b) : TRUE)
      [] t = TagData ->
           IF unmarshal32(b) = {} THEN ErrBad ELSE NewData(CHOOSE x \in unmarshal32(b) : TRUE)
      [] t = TagReconnectSuccess ->
           IF unmarshalAck(b) = {} THEN ErrBad
           ELSE NewReconnectSuccess(CHOOSE x \in unmarshalAck(b) : TRUE)
      [] t = TagAck ->
           IF unmarshalAck(b) = {} THEN ErrBad ELSE NewAck(CHOOSE x \in unmarshalAck(b) : TRUE)
      [] OTHER -> ErrBad

\* A message that has a tag is parsed by its tag.
LEMMA ByTag ==
  ASSUME NEW m, Len(m) >= TagLen, Len(m) \in Nat, TagLen \in Nat
  PROVE  Unmarshal(m) = Parse(Uint(SubSeq(m, 1, TagLen)), SubSeq(m, TagLen + 1, Len(m)))
<1> DEFINE t == Uint(SubSeq(m, 1, TagLen))
<1>1. ~ (Len(m) < TagLen) OBVIOUS
<1> USE <1>1 DEF Unmarshal, Then, Parse, TagConnectSuccess, TagData, TagReconnectSuccess, TagAck
<1>2. CASE t = TagConnectSuccess BY <1>2
<1>3. CASE t = TagData BY <1>3
<1>4. CASE t = TagReconnectSuccess BY <1>4
<1>5. CASE t = TagAck BY <1>5
<1>6. CASE t \notin {TagConnectSuccess, TagReconnectSuccess, TagData, TagAck} BY <1>6
<1> QED BY <1>2, <1>3, <1>4, <1>5, <1>6

\* Unmarshal inverts Write.
LEMMA ReadsWhatWasWritten ==
  ASSUME NEW c, IsCommand(c)
  PROVE  Write(c) \in Seq(Byte) /\ Unmarshal(Write(c)) = c
<1> USE DEF TagConnectSuccess, TagData, TagReconnectSuccess, TagAck
<1>0. TagLen \in Nat BY FieldAssumption
<1>1. ASSUME NEW t \in 0..7, NEW r \in Seq(Byte), Write(c) = PutUint(t, TagLen) \o r
      PROVE  Write(c) \in Seq(Byte) /\ Unmarshal(Write(c)) = Parse(t, r)
  <2> DEFINE m == Write(c)
  <2>1. m = PutUint(t, TagLen) \o r BY <1>1
  <2> HIDE DEF m
  <2>2. /\ m \in Seq(Byte) /\ Len(m) \in Nat /\ Len(m) >= TagLen
        /\ Uint(SubSeq(m, 1, TagLen)) = t
        /\ SubSeq(m, TagLen + 1, Len(m)) = r
    BY <2>1, TagRead
  <2>3. Unmarshal(m) = Parse(t, r) BY <1>0, <2>2, ByTag
  <2> QED BY <2>2, <2>3 DEF m
<1>2. ASSUME NEW b \in Seq(Byte), NEW t \in {TagConnectSuccess, TagData},
             checkSID(b) \/ checkData(b), c = BuiltBody(t, b)
      PROVE  /\ Write(c) \in Seq(Byte)
             /\ \E r : unmarshal32(r) = {b} /\ Unmarshal(Write(c)) = Parse(t, r)
  <2> DEFINE r == PutUint(Len(b), DataLen) \o b
  <2>1. r \in Seq(Byte) /\ unmarshal32(r) = {b} BY <1>2, BodyFits, BodyRead
  <2>2. Write(c) = PutUint(t, TagLen) \o PutUint(Len(b), DataLen) \o b
    BY <1>2 DEF Write, WriteBody, BuiltBody
  <2>3. PutUint(t, TagLen) \in Seq(Byte) /\ PutUint(Len(b), DataLen) \in Seq(Byte)
    <3>1. TagLen \in Nat /\ DataLen \in Nat /\ t \in Nat /\ Len(b) \in Nat
      BY FieldAssumption
    <3> QED BY <3>1, PutUintType, FieldType
  <2>4. Write(c) = PutUint(t, TagLen) \o r BY <2>2, <2>3, ConcatAssociative
  <2> HIDE DEF r
  <2>5. t \in 0..7 OBVIOUS
  <2> QED BY <1>1, <2>1, <2>4, <2>5
<1>3. ASSUME NEW a \in Uint64, NEW t \in {TagReconnectSuccess, TagAck}, c = BuiltAck(t, a)
      PROVE  /\ Write(c) \in Seq(Byte)
             /\ \E r : unmarshalAck(r) = {a} /\ Unmarshal(Write(c)) = Parse(t, r)
  <2> DEFINE r == PutUint(a, AckLen)
  <2>1. r \in Seq(Byte) /\ unmarshalAck(r) = {a} BY AckRead
  <2>2. Write(c) = PutUint(t, TagLen) \o r BY <1>3 DEF Write, WriteAck, BuiltAck
  <2> HIDE DEF r
  <2>3. t \in 0..7 OBVIOUS
  <2> QED BY <1>1, <2>1, <2>2, <2>3
<1>4. ASSUME NEW x PROVE (CHOOSE y \in {x} : TRUE) = x OBVIOUS
<1>5. CASE \E b \in Seq(Byte) : checkSID(b) /\ c = BuiltBody(TagConnectSuccess, b)
  <2>1. PICK b \in Seq(Byte) : checkSID(b) /\ c = BuiltBody(TagConnectSuccess, b) BY <1>5
  <2>2. PICK r : unmarshal32(r) = {b} /\ Unmarshal(Write(c)) = Parse(TagConnectSuccess, r)
    BY <1>2, <2>1
  <2>3. Parse(TagConnectSuccess, r) = NewConnectSuccess(b) BY <1>4, <2>2 DEF Parse
  <2> QED BY <1>2, <2>1, <2>2, <2>3 DEF NewConnectSuccess, BuiltBody
<1>6. CASE \E b \in Seq(Byte) : checkData(b) /\ c = BuiltBody(TagData, b)
  <2>1. PICK b \in Seq(Byte) : checkData(b) /\ c = BuiltBody(TagData, b) BY <1>6
  <2>2. PICK r : unmarshal32(r) = {b} /\ Unmarshal(Write(c)) = Parse(TagData, r)
    BY <1>2, <2>1
  <2>3. Parse(TagData, r) = NewData(b) BY <1>4, <2>2 DEF Parse
  <2> QED BY <1>2, <2>1, <2>2, <2>3 DEF NewData, BuiltBody
<1>7. CASE \E a \in Uint64 : c = BuiltAck(TagReconnectSuccess, a) \/ c = BuiltAck(TagAck, a)
  <2>1. PICK a \in Uint64, t \in {TagReconnectSuccess, TagAck} : c = BuiltAck(t, a) BY <1>7
  <2>2. PICK r : unmarshalAck(r) = {a} /\ Unmarshal(Write(c)) = Parse(t, r)
    BY <1>3, <2>1
  <2>3. Parse(t, r) = BuiltAck(t, a)
    BY <1>4, <2>2 DEF Parse, NewReconnectSuccess, NewAck, BuiltAck
  <2> QED BY <1>3, <2>1, <2>2, <2>3
<1> QED BY <1>5, <1>6, <1>7 DEF IsCommand

\* What Unmarshal takes for a command is one, and Write makes that message of it.
LEMMA AcceptsWhatIsWritten ==
  ASSUME NEW m \in Seq(Byte), Unmarshal(m) # ErrBad
  PROVE  IsCommand(Unmarshal(m)) /\ Write(Unmarshal(m)) = m
<1> USE DEF TagConnectSuccess, TagData, TagReconnectSuccess, TagAck
<1> DEFINE t == Uint(SubSeq(m, 1, TagLen))
<1> DEFINE r == SubSeq(m, TagLen + 1, Len(m))
<1>0. TagLen \in Nat /\ Len(m) \in Nat BY FieldAssumption
<1>1. Len(m) >= TagLen BY <1>0 DEF Unmarshal
<1>2. r \in Seq(Byte) /\ m = PutUint(t, TagLen) \o r BY <1>1, TagWritten
<1>3. ASSUME NEW x PROVE (CHOOSE y \in {x} : TRUE) = x OBVIOUS
<1>4. Unmarshal(m) = Parse(t, r) BY <1>0, <1>1, ByTag
<1> HIDE DEF t, r
<1>5. ASSUME NEW b \in Seq(Byte), r = PutUint(Len(b), DataLen) \o b,
             t \in {TagConnectSuccess, TagData}
      PROVE  Write(BuiltBody(t, b)) = m
  <2>1. Write(BuiltBody(t, b)) = PutUint(t, TagLen) \o PutUint(Len(b), DataLen) \o b
    BY <1>5 DEF Write, WriteBody, BuiltBody
  <2>2. PutUint(t, TagLen) \in Seq(Byte) /\ PutUint(Len(b), DataLen) \in Seq(Byte)
    <3>1. TagLen \in Nat /\ DataLen \in Nat /\ t \in Nat /\ Len(b) \in Nat
      BY <1>5, FieldAssumption
    <3> QED BY <3>1, PutUintType, FieldType
  <2> QED BY <1>2, <1>5, <2>1, <2>2, ConcatAssociative
<1>6. ASSUME NEW a, r = PutUint(a, AckLen), t \in {TagReconnectSuccess, TagAck}
      PROVE  Write(BuiltAck(t, a)) = m
  BY <1>2, <1>6 DEF Write, WriteAck, BuiltAck
<1>7. CASE t = TagConnectSuccess
  <2>1. PICK b \in Seq(Byte) : unmarshal32(r) = {b} /\ r = PutUint(Len(b), DataLen) \o b
    <3>1. unmarshal32(r) # {} BY <1>4, <1>7 DEF Parse
    <3> QED BY <1>2, <3>1, BodyWritten
  <2>2. Unmarshal(m) = NewConnectSuccess(b) BY <1>3, <1>4, <1>7, <2>1 DEF Parse
  <2>3. checkSID(b) /\ Unmarshal(m) = BuiltBody(t, b)
    BY <1>7, <2>2 DEF NewConnectSuccess, BuiltBody
  <2> QED BY <1>5, <1>7, <2>1, <2>3 DEF IsCommand
<1>8. CASE t = TagData
  <2>1. PICK b \in Seq(Byte) : unmarshal32(r) = {b} /\ r = PutUint(Len(b), DataLen) \o b
    <3>1. unmarshal32(r) # {} BY <1>4, <1>8 DEF Parse
    <3> QED BY <1>2, <3>1, BodyWritten
  <2>2. Unmarshal(m) = NewData(b) BY <1>3, <1>4, <1>8, <2>1 DEF Parse
  <2>3. checkData(b) /\ Unmarshal(m) = BuiltBody(t, b)
    BY <1>8, <2>2 DEF NewData, BuiltBody
  <2> QED BY <1>5, <1>8, <2>1, <2>3 DEF IsCommand
<1>9. CASE t \in {TagReconnectSuccess, TagAck}
  <2>1. PICK a \in Uint64 : unmarshalAck(r) = {a} /\ r = PutUint(a, AckLen)
    BY <1>2, <1>4, <1>9, AckWritten DEF Parse
  <2>2. Unmarshal(m) = BuiltAck(t, a)
    BY <1>3, <1>4, <1>9, <2>1 DEF Parse, NewReconnectSuccess, NewAck, BuiltAck
  <2> QED BY <1>6, <1>9, <2>1, <2>2 DEF IsCommand
<1> QED BY <1>4, <1>7, <1>8, <1>9 DEF Parse

(***************************************************************************)
(* The exchange of one message.                                            *)
(***************************************************************************)

\* What is on the wire is bytes; a command that was sent is one the
\* constructors build, and the message is what Write made of it; what was
\* received is what Unmarshal made of the message.
Inv ==
    /\ step \in {"idle", "wire", "parsed"}
    /\ msg \in Seq(Byte)
    /\ step = "idle" => sent = ErrBad
    /\ sent # ErrBad => IsCommand(sent) /\ msg = Write(sent)
    /\ got = IF step = "parsed" THEN Unmarshal(msg) ELSE ErrBad

\* No command is taken for the absence of one.
LEMMA Constructed ==
  /\ \A b \in Seq(Byte) : NewConnectSuccess(b) # ErrBad => IsCommand(NewConnectSuccess(b))
  /\ \A b \in Seq(Byte) : NewData(b) # ErrBad => IsCommand(NewData(b))
  /\ \A a \in Uint64 : IsCommand(NewReconnectSuccess(a)) /\ IsCommand(NewAck(a))
BY DEF NewConnectSuccess, NewData, NewReconnectSuccess, NewAck, IsCommand, BuiltBody, BuiltAck

\* The invariant holds initially.
LEMMA InvInit == Init => Inv
BY DEF Init, Inv

\* A command that is sent is written completely.
LEMMA SendKeeps ==
  ASSUME Inv, step = "idle", NEW c, c # ErrBad => IsCommand(c), Send(c)
  PROVE  Inv'
<1>1. IsCommand(c) /\ sent' = c /\ msg' = Write(c) /\ step' = "wire" /\ got' = got
  BY DEF Send
<1>2. Write(c) \in Seq(Byte) BY <1>1, ReadsWhatWasWritten
<1>3. got = ErrBad BY DEF Inv
<1> HIDE DEF Inv
<1> QED BY <1>1, <1>2, <1>3 DEF Inv

\* Every step keeps the invariant.
LEMMA InvNext == Inv /\ [Next]_vars => Inv'
<1> SUFFICES ASSUME Inv, [Next]_vars PROVE Inv' OBVIOUS
<1>1. CASE SendCommand
  <2>0. step = "idle" BY <1>1 DEF SendCommand
  <2>1. ASSUME NEW n \in 0..(MaxArrayLen + 1), NEW b \in Bytes(n),
               Send(NewConnectSuccess(b)) \/ Send(NewData(b))
        PROVE  Inv'
    <3>0. n \in Nat OBVIOUS
    <3>1. b \in Seq(Byte) BY <3>0, FieldType
    <3> QED BY <2>0, <2>1, <3>1, Constructed, SendKeeps
  <2>2. ASSUME NEW a \in Uint64, Send(NewReconnectSuccess(a)) \/ Send(NewAck(a))
        PROVE  Inv'
    BY <2>0, <2>2, Constructed, SendKeeps
  <2> QED BY <1>1, <2>1, <2>2 DEF SendCommand
<1>2. CASE SendAny
  <2>1. PICK n \in 0..MaxMessage : \E b \in Bytes(n) : SendRaw(b) BY <1>2 DEF SendAny
  <2>2. PICK b \in Bytes(n) : SendRaw(b) BY <2>1
  <2>3. b \in Seq(Byte)
    <3>0. n \in Nat OBVIOUS
    <3> QED BY <3>0, FieldType
  <2> QED BY <1>2, <2>2, <2>3 DEF SendAny, SendRaw, Inv
<1>3. CASE Receive BY <1>3 DEF Receive, Inv
<1>4. CASE UNCHANGED vars BY <1>4 DEF vars, Inv
<1> QED BY <1>1, <1>2, <1>3, <1>4 DEF Next

\* The invariant of the exchange holds throughout.
THEOREM Invariance == Spec => []Inv
<1> QED BY InvInit, InvNext, PTL DEF Spec

\* Whatever the peer sent, a command that recvCmd gets to see has a tag it
\* knows and a body or an ack within its limits.
THEOREM TypeCorrect == Spec => []TypeOK
<1>1. Inv => TypeOK
  <2> SUFFICES ASSUME Inv PROVE TypeOK OBVIOUS
  <2>1. CASE got = ErrBad BY <2>1 DEF Inv, TypeOK
  <2>2. CASE got # ErrBad
    <3>1. IsCommand(got) BY <2>2, AcceptsWhatIsWritten DEF Inv
    <3>2. \A b \in Seq(Byte) : /\ checkSID(b) => Len(b) \in SIDLen..MaxSIDLen
                               /\ checkData(b) => Len(b) \in 1..MaxArrayLen
      <4>1. SIDLen \in Nat /\ MaxSIDLen \in Int /\ MaxArrayLen \in Int BY FieldAssumption
      <4> QED BY <4>1 DEF checkSID, checkData
    <3>3. CASE \E b \in Seq(Byte) : checkSID(b) /\ got = BuiltBody(TagConnectSuccess, b)
      <4>1. got.tag = TagConnectSuccess /\ Len(got.body) \in SIDLen..MaxSIDLen
        BY <3>2, <3>3 DEF BuiltBody
      <4> QED BY <4>1 DEF Inv, TypeOK
    <3>4. CASE \E b \in Seq(Byte) : checkData(b) /\ got = BuiltBody(TagData, b)
      <4>1. got.tag = TagData /\ Len(got.body) \in 1..MaxArrayLen BY <3>2, <3>4 DEF BuiltBody
      <4> QED BY <4>1 DEF Inv, TypeOK
    <3>5. CASE \E a \in Uint64 :
                 got = BuiltAck(TagReconnectSuccess, a) \/ got = BuiltAck(TagAck, a)
      <4>1. got.tag \in {TagReconnectSuccess, TagAck} /\ got.ack \in Uint64
        BY <3>5 DEF BuiltAck
      <4> QED BY <4>1 DEF Inv, TypeOK
    <3> QED BY <3>1, <3>3, <3>4, <3>5 DEF IsCommand
  <2> QED BY <2>1, <2>2
<1> QED BY <1>1, Invariance, PTL

\* Unmarshal returns the command that the other end's Write method wrote, for
\* every field size and every command.
THEOREM ReadsBack == Spec => []RoundTrip
<1>1. Inv => RoundTrip BY ReadsWhatWasWritten DEF Inv, RoundTrip
<1> QED BY <1>1, Invariance, PTL

\* Unmarshal accepts only what a Write method makes of the command it returns.
THEOREM OneEncoding == Spec => []Canonical
<1>1. Inv => Canonical BY AcceptsWhatIsWritten DEF Inv, Canonical
<1> QED BY <1>1, Invariance, PTL

=============================================================================
