---------------------------- MODULE MessageProofs ----------------------------
(***************************************************************************)
(* Proofs about gb_parse.cpp, for any messages of any length and whatever  *)
(* they say.  The calls of atob are replaced in place (Atob): what is read *)
(* is never overwritten before, and the buffer that is parsed is the       *)
(* message with every call replaced.  And what is logged of it (GbMessage):*)
(* every field under its own label, or an error.                           *)
(***************************************************************************)
EXTENDS GbMessage, SequenceTheorems, WellFoundedInduction, TLAPS

(* A set of numbers that is not empty has a least one: what stands for     *)
(* induction over the length of a message here.                            *)
LEMMA LeastNat ==
  ASSUME NEW T \in SUBSET Nat, T # {}
  PROVE  \E n \in T : \A k \in T : n <= k
<1>1. PICK n \in T : \A k \in T : ~(<<k, n>> \in OpToRel(<, Nat))
  BY NatLessThanWellFounded, WFMin, Zenon
<1>2. \A k \in T : ~(k < n)
  BY <1>1 DEF OpToRel
<1> QED BY <1>2


-----------------------------------------------------------------------------
(* Sequences of sequences (FlattenSeq), and where their parts stand.       *)

(* FlattenSeq's function of the first k parts of s, joined.                *)
Flat(f, s, k) == f = [i \in 1..k |-> IF i = 1 THEN s[i] ELSE f[i - 1] \o s[i]]

(* It can be continued by one part.                                        *)
LEMMA FlatGrows ==
  ASSUME NEW s, NEW k \in Nat, k > 1, NEW g, Flat(g, s, k - 1)
  PROVE  \E f : Flat(f, s, k)
<1> DEFINE f == [i \in 1..k |-> IF i = k THEN g[k - 1] \o s[k] ELSE g[i]]
           h == [i \in 1..k |-> IF i = 1 THEN s[i] ELSE f[i - 1] \o s[i]]
<1>1. \A i \in 1..(k - 1) : g[i] = IF i = 1 THEN s[i] ELSE g[i - 1] \o s[i]
  BY Zenon DEF Flat
<1>2. /\ \A i \in 1..(k - 1) : i \in 1..k /\ i # k /\ (i # 1 => i - 1 \in 1..k /\ i - 1 # k)
      /\ k \in 1..k /\ k # 1 /\ k - 1 \in 1..k /\ k - 1 # k
      /\ \A i \in 1..k : i = k \/ i \in 1..(k - 1)
  OBVIOUS
<1>3. f[k] = g[k - 1] \o s[k] /\ \A i \in 1..(k - 1) : f[i] = g[i]
  BY <1>2
<1>4. \A i \in 1..(k - 1) : i # 1 => f[i - 1] = g[i - 1]
  BY <1>2
<1>5. f[k - 1] = g[k - 1]
  BY <1>2
<1>6. \A i \in 1..k : f[i] = h[i]
  <2> HIDE DEF f
  <2> TAKE i \in 1..k
  <2>1. h[i] = IF i = 1 THEN s[i] ELSE f[i - 1] \o s[i]
    OBVIOUS
  <2> HIDE DEF h
  <2>2. CASE i = k
    BY <1>2, <1>3, <1>5, <2>1, <2>2, Zenon
  <2>3. CASE i \in 1..(k - 1)
    BY <1>1, <1>3, <1>4, <2>1, <2>3, Zenon
  <2> QED BY <1>2, <2>2, <2>3
<1>7. f = h
  <2>1. DOMAIN f = 1..k /\ DOMAIN h = 1..k /\ f = [i \in 1..k |-> f[i]] /\ h = [i \in 1..k |-> h[i]]
    OBVIOUS
  <2> HIDE DEF f, h
  <2> QED BY <1>6, <2>1
<1>8. f = [i \in 1..k |-> IF i = 1 THEN s[i] ELSE f[i - 1] \o s[i]]
  <2> HIDE DEF f
  <2> QED BY <1>7
<1> HIDE DEF f
<1> QED BY <1>8 DEF Flat

(* So there is one for all the parts: if not, take the least k without.    *)
LEMMA FlattenIs ==
  ASSUME NEW s, Len(s) \in Nat, Len(s) # 0
  PROVE  \E f : Flat(f, s, Len(s)) /\ FlattenSeq(s) = f[Len(s)]
<1> DEFINE n == Len(s)
           T == {k \in 1..n : ~ \E f : Flat(f, s, k)}
<1>0. n \in Nat /\ n >= 1
  OBVIOUS
<1>1. ASSUME T # {} PROVE FALSE
  <2>0. T \in SUBSET Nat
    OBVIOUS
  <2>1. PICK k \in T : \A j \in T : k <= j
    <3> HIDE DEF T
    <3> QED BY <1>1, <2>0, LeastNat
  <2>2. k \in 1..n /\ ~ \E f : Flat(f, s, k)
    BY <2>1
  <2>3. CASE k = 1
    <3> DEFINE f == [i \in 1..1 |-> s[1]]
    <3>1. f = [i \in 1..1 |-> IF i = 1 THEN s[i] ELSE f[i - 1] \o s[i]]
      <4>1. \A i \in 1..1 : i = 1
        OBVIOUS
      <4> HIDE DEF f
      <4>2. [i \in 1..1 |-> IF i = 1 THEN s[i] ELSE f[i - 1] \o s[i]] = [i \in 1..1 |-> s[1]]
        BY <4>1
      <4> QED BY <4>2 DEF f
    <3> QED BY <2>2, <2>3, <3>1, Zenon DEF Flat
  <2>4. CASE k # 1
    <3>1. k - 1 \in 1..n /\ ~(k <= k - 1) /\ k \in Nat /\ k > 1
      BY <1>0, <2>2, <2>4
    <3>2. \E g : Flat(g, s, k - 1)
      BY <2>1, <3>1
    <3> QED BY <2>2, <3>1, <3>2, FlatGrows
  <2> QED BY <2>3, <2>4
<1>2. \E f : Flat(f, s, n)
  <2>1. n \in 1..n
    BY <1>0
  <2> QED BY <1>1, <2>1
<1> DEFINE flatten[i \in 1..n] == IF i = 1 THEN s[i] ELSE flatten[i - 1] \o s[i]
<1>3. Flat(flatten, s, n)
  BY <1>2, Zenon DEF Flat
<1>4. FlattenSeq(s) = flatten[n]
  BY <1>0 DEF FlattenSeq
<1> HIDE DEF flatten
<1> QED BY <1>3, <1>4

(* Induction up to n over a set T.                                         *)
LEMMA Induct ==
  ASSUME NEW T, NEW n \in Nat, 0 \in T, \A k \in 0..(n - 1) : k \in T => k + 1 \in T
  PROVE  \A k \in 0..n : k \in T
<1> DEFINE Missing == {k \in 0..n : k \notin T}
<1>1. ASSUME Missing # {} PROVE FALSE
  <2>1. Missing \in SUBSET Nat
    OBVIOUS
  <2>2. PICK k \in Missing : \A j \in Missing : k <= j
    <3> HIDE DEF Missing
    <3> QED BY <1>1, <2>1, LeastNat
  <2>3. k \in 0..n /\ k \notin T /\ k # 0
    BY <2>2
  <2>4. k - 1 \in 0..n /\ k - 1 \in 0..(n - 1) /\ ~(k <= k - 1) /\ (k - 1) + 1 = k
    BY <2>3
  <2>5. k - 1 \in T
    BY <2>2, <2>4
  <2> QED BY <2>3, <2>4, <2>5, Zenon
<1>2. \A k \in 0..n : k \notin Missing
  BY <1>1
<1> QED BY <1>2

(* o[k] is where the (k + 1)-st of parts of these lengths begins, counted  *)
(* from 0.                                                                 *)
IsOffsets(o, lens) ==
  /\ o \in [0..Len(lens) -> Nat] /\ o[0] = 0
  /\ \A k \in 1..Len(lens) : o[k] = o[k - 1] + lens[k]

(* Offsets are numbers,                                                    *)
LEMMA OffsetsType ==
  ASSUME NEW lens \in Seq(Nat), NEW o, IsOffsets(o, lens)
  PROVE  Len(lens) \in Nat /\ \A k \in 0..Len(lens) : o[k] \in Nat
<1>1. \A N : o \in [0..N -> Nat] => \A k \in 0..N : o[k] \in Nat
  OBVIOUS
<1>2. \A k \in 0..Len(lens) : o[k] \in Nat
  BY <1>1, Zenon DEF IsOffsets
<1>3. Len(lens) \in Nat
  OBVIOUS
<1> QED BY <1>2, <1>3

(* in the order of the parts,                                              *)
LEMMA OffsetsGrow ==
  ASSUME NEW lens \in Seq(Nat), NEW o, IsOffsets(o, lens),
         NEW i \in 0..Len(lens), NEW j \in 0..Len(lens), i <= j
  PROVE  o[i] <= o[j]
<1> DEFINE T == {k \in Nat : i + k \in 0..Len(lens) => o[i] <= o[i + k]}
<1>0. Len(lens) \in Nat /\ \A k \in 0..Len(lens) : o[k] \in Nat
  BY OffsetsType
<1>1. 0 \in T
  BY <1>0
<1>2. \A k \in 0..(j - i - 1) : k \in T => k + 1 \in T
  <2> TAKE k \in 0..(j - i - 1)
  <2>1. /\ i + k + 1 \in 1..Len(lens) /\ i + k \in 0..Len(lens) /\ (i + k + 1) - 1 = i + k
        /\ i + (k + 1) = i + k + 1 /\ k + 1 \in Nat /\ k \in Nat
    BY <1>0
  <2>2. o[i + k + 1] = o[i + k] + lens[i + k + 1] /\ lens[i + k + 1] \in Nat
    BY <2>1 DEF IsOffsets
  <2> QED BY <1>0, <2>1, <2>2
<1>3. \A k \in 0..(j - i) : k \in T
  <2> HIDE DEF T
  <2>1. j - i \in Nat
    BY <1>0
  <2> QED BY <1>1, <1>2, <2>1, Induct
<1>4. j - i \in 0..(j - i) /\ i + (j - i) = j
  BY <1>0
<1> QED BY <1>3, <1>4

(* and there is one such function only.                                    *)
LEMMA OffsetsUnique ==
  ASSUME NEW lens \in Seq(Nat), NEW o, IsOffsets(o, lens), NEW p, IsOffsets(p, lens)
  PROVE  o = p
<1> DEFINE T == {k \in Nat : o[k] = p[k]}
<1>0. Len(lens) \in Nat
  OBVIOUS
<1>1. 0 \in T
  BY DEF IsOffsets
<1>2. \A k \in 0..(Len(lens) - 1) : k \in T => k + 1 \in T
  <2> TAKE k \in 0..(Len(lens) - 1)
  <2>1. k + 1 \in 1..Len(lens) /\ (k + 1) - 1 = k /\ k + 1 \in Nat
    BY <1>0
  <2>2. o[k + 1] = o[k] + lens[k + 1] /\ p[k + 1] = p[k] + lens[k + 1]
    BY <2>1 DEF IsOffsets
  <2> QED BY <2>1, <2>2
<1>3. \A k \in 0..Len(lens) : k \in T
  <2> HIDE DEF T
  <2> QED BY <1>0, <1>1, <1>2, Induct
<1>4. o \in [0..Len(lens) -> Nat] /\ p \in [0..Len(lens) -> Nat]
  BY DEF IsOffsets
<1>5. \A k \in 0..Len(lens) : o[k] = p[k]
  BY <1>3
<1>6. o = [k \in 0..Len(lens) |-> o[k]] /\ p = [k \in 0..Len(lens) |-> p[k]]
  BY <1>4
<1>7. [k \in 0..Len(lens) |-> o[k]] = [k \in 0..Len(lens) |-> p[k]]
  BY <1>5
<1> QED BY <1>6, <1>7

(* Every position lies in one of the parts.                                *)
LEMMA OffsetsCover ==
  ASSUME NEW lens \in Seq(Nat), NEW o, IsOffsets(o, lens), NEW x \in 1..o[Len(lens)]
  PROVE  \E k \in 1..Len(lens) : \E j \in 1..lens[k] : x = o[k - 1] + j
<1> DEFINE T == {k \in 0..Len(lens) : x <= o[k]}
<1>0. Len(lens) \in Nat /\ \A k \in 0..Len(lens) : o[k] \in Nat
  BY OffsetsType
<1>1. Len(lens) \in T /\ T \in SUBSET Nat
  BY <1>0
<1>2. PICK k \in T : \A i \in T : k <= i
  <2> HIDE DEF T
  <2> QED BY <1>1, LeastNat
<1>3. k \in 0..Len(lens) /\ x <= o[k] /\ k # 0
  <2>1. k \in 0..Len(lens) /\ x <= o[k]
    BY <1>2
  <2>2. o[0] = 0 /\ x \in Nat /\ x >= 1
    BY <1>0 DEF IsOffsets
  <2> QED BY <2>1, <2>2
<1>4. k - 1 \in 0..Len(lens) /\ k \in 1..Len(lens) /\ ~(k <= k - 1)
  BY <1>0, <1>3
<1>5. ~(x <= o[k - 1])
  BY <1>2, <1>4
<1>6. o[k] = o[k - 1] + lens[k] /\ o[k - 1] \in Nat /\ lens[k] \in Nat
  BY <1>0, <1>4 DEF IsOffsets
<1>7. x - o[k - 1] \in 1..lens[k] /\ x = o[k - 1] + (x - o[k - 1])
  BY <1>0, <1>3, <1>5, <1>6, SMTT(30)
<1> QED BY <1>4, <1>7

(* The lengths of the parts of s.                                          *)
Lens(s) == [k \in 1..Len(s) |-> Len(s[k])]

(* They are numbers.                                                       *)
LEMMA LensType ==
  ASSUME NEW S, NEW s \in Seq(Seq(S))
  PROVE  /\ Lens(s) \in Seq(Nat) /\ Len(Lens(s)) = Len(s) /\ Len(s) \in Nat
         /\ \A k \in 1..Len(s) : s[k] \in Seq(S) /\ Lens(s)[k] = Len(s[k]) /\ Len(s[k]) \in Nat
<1>1. Len(s) \in Nat /\ \A k \in 1..Len(s) : s[k] \in Seq(S)
  OBVIOUS
<1>2. \A k \in 1..Len(s) : Len(s[k]) \in Nat
  BY <1>1
<1>3. Lens(s) \in [1..Len(s) -> Nat] /\ \A k \in 1..Len(s) : Lens(s)[k] = Len(s[k])
  BY <1>2 DEF Lens
<1>4. Lens(s) \in Seq(Nat) /\ Len(Lens(s)) = Len(s)
  <2>1. \A N \in Nat : \A l \in [1..N -> Nat] : l \in Seq(Nat) /\ Len(l) = N
    OBVIOUS
  <2> QED BY <1>1, <1>3, <2>1, Zenon
<1> QED BY <1>1, <1>2, <1>3, <1>4

(* The first k parts of s stand in t where o says.                         *)
PartsIn(t, s, o, k) ==
  \A i \in 1..k : \A j \in 1..Len(s[i]) : o[i - 1] + j <= Len(t) /\ t[o[i - 1] + j] = s[i][j]

(* They still do when the next part is appended.                           *)
LEMMA PartsGrow ==
  ASSUME NEW S, NEW g \in Seq(S), NEW p \in Seq(S), NEW s, NEW o,
         NEW k \in Nat, s[k + 1] = p, o[k] = Len(g), PartsIn(g, s, o, k),
         \A i \in 0..k : o[i] \in Nat, \A i \in 1..k : Len(s[i]) \in Nat
  PROVE  PartsIn(g \o p, s, o, k + 1)
<1> DEFINE h == g \o p
<1>1. h \in Seq(S) /\ Len(h) = Len(g) + Len(p) /\ Len(g) \in Nat /\ Len(p) \in Nat
  BY ConcatProperties
<1>2. \A x \in 1..(Len(g) + Len(p)) : h[x] = IF x <= Len(g) THEN g[x] ELSE p[x - Len(g)]
  BY ConcatProperties
<1>3. /\ \A x \in Nat \ {0} : x <= Len(g) => h[x] = g[x]
      /\ \A x \in 1..Len(p) : h[Len(g) + x] = p[x]
  <2> HIDE DEF h
  <2>1. \A x \in Nat \ {0} : x <= Len(g) => x \in 1..(Len(g) + Len(p))
    BY <1>1
  <2>2. \A x \in 1..Len(p) : /\ Len(g) + x \in 1..(Len(g) + Len(p))
                            /\ ~(Len(g) + x <= Len(g)) /\ (Len(g) + x) - Len(g) = x
    BY <1>1
  <2>3. \A x \in Nat \ {0} : x <= Len(g) => h[x] = g[x]
    BY <1>2, <2>1
  <2>4. \A x \in 1..Len(p) : h[Len(g) + x] = p[x]
    BY <1>2, <2>2
  <2> QED BY <2>3, <2>4
<1> HIDE DEF h
<1>4. ASSUME NEW i \in 1..(k + 1), NEW j \in 1..Len(s[i])
      PROVE  o[i - 1] + j <= Len(h) /\ h[o[i - 1] + j] = s[i][j]
  <2>1. CASE i \in 1..k
    <3>1. o[i - 1] + j <= Len(g) /\ g[o[i - 1] + j] = s[i][j]
      BY <2>1 DEF PartsIn
    <3>2. o[i - 1] \in Nat /\ j \in Nat /\ j # 0
      <4>1. o[i - 1] \in Nat
        <5>1. i - 1 \in 0..k
          BY <2>1
        <5> QED BY <5>1
      <4>2. \A N \in Nat : j \in 1..N => j \in Nat /\ j # 0
        OBVIOUS
      <4> QED BY <2>1, <4>1, <4>2
    <3>3. o[i - 1] + j \in Nat \ {0}
      BY <3>2
    <3>4. h[o[i - 1] + j] = g[o[i - 1] + j]
      BY <1>3, <3>1, <3>3
    <3>5. o[i - 1] + j <= Len(h)
      BY <1>1, <3>1, <3>3
    <3> QED BY <3>1, <3>4, <3>5
  <2>2. CASE i = k + 1
    <3>1. o[i - 1] = Len(g) /\ s[i] = p
      BY <2>2
    <3>2. j \in 1..Len(p)
      BY <3>1
    <3>3. h[Len(g) + j] = p[j] /\ Len(g) + j <= Len(h)
      BY <1>1, <1>3, <3>2
    <3> QED BY <3>1, <3>3
  <2> QED BY <2>1, <2>2
<1> QED BY <1>4 DEF PartsIn, h

(* All the parts of s stand in t, which is no longer.                      *)
Joined(t, s, o) == /\ Len(t) = o[Len(s)]
                   /\ \A k \in 1..Len(s) : \A j \in 1..Len(s[k]) : t[o[k - 1] + j] = s[k][j]

(* FlattenSeq joins the parts: each stands at its offset, and nothing else *)
(* is there.                                                               *)
LEMMA FlattenJoins ==
  ASSUME NEW S, NEW s \in Seq(Seq(S))
  PROVE  \E o : IsOffsets(o, Lens(s)) /\ FlattenSeq(s) \in Seq(S) /\ Joined(FlattenSeq(s), s, o)
<1> DEFINE n == Len(s)
<1>0. /\ Lens(s) \in Seq(Nat) /\ Len(Lens(s)) = n /\ n \in Nat
      /\ \A k \in 1..n : s[k] \in Seq(S) /\ Lens(s)[k] = Len(s[k]) /\ Len(s[k]) \in Nat
  BY LensType
<1>1. CASE n = 0
  <2>1. FlattenSeq(s) = s /\ s = <<>>
    BY <1>1 DEF FlattenSeq
  <2> DEFINE o == [k \in 0..0 |-> 0]
  <2>2. IsOffsets(o, Lens(s))
    BY <1>0, <1>1 DEF IsOffsets
  <2>3. Joined(FlattenSeq(s), s, o) /\ FlattenSeq(s) \in Seq(S)
    BY <2>1 DEF Joined
  <2> QED BY <2>2, <2>3
<1>2. CASE n # 0
  <2>1. PICK f : Flat(f, s, n) /\ FlattenSeq(s) = f[n]
    BY <1>0, <1>2, FlattenIs
  <2>2. \A i \in 1..n : f[i] = IF i = 1 THEN s[i] ELSE f[i - 1] \o s[i]
    BY <2>1, Zenon DEF Flat
  <2> DEFINE F == [k \in 0..n |-> IF k = 0 THEN <<>> ELSE f[k]]
             o == [k \in 0..n |-> Len(F[k])]
             T == {k \in 0..n : F[k] \in Seq(S)}
             P == {k \in 0..n : PartsIn(F[k], s, o, k)}
  <2>3. F[0] = <<>> /\ F[n] = f[n] /\ \A k \in 1..n : F[k] = f[k]
    BY <1>0, <1>2
  <2> HIDE DEF F
  <2>4. \A k \in 0..n : o[k] = Len(F[k])
    OBVIOUS
  <2>o. o = [k \in 0..n |-> Len(F[k])]
    OBVIOUS
  <2> HIDE DEF o
  <2>5. ASSUME NEW k \in 0..(n - 1) PROVE F[k + 1] = F[k] \o s[k + 1]
    <3>1. k + 1 \in 1..n /\ (k + 1 = 1 <=> k = 0) /\ (k + 1) - 1 = k /\ (k # 0 => k \in 1..n)
      BY <1>0
    <3>2. F[k + 1] = IF k = 0 THEN s[k + 1] ELSE f[k] \o s[k + 1]
      BY <2>2, <2>3, <3>1
    <3>3. k # 0 => F[k] = f[k]
      BY <2>3, <3>1
    <3>4. s[k + 1] \in Seq(S)
      BY <1>0, <3>1
    <3>5. <<>> \o s[k + 1] = s[k + 1]
      BY <3>4, ConcatEmptySeq
    <3> QED BY <2>3, <3>2, <3>3, <3>5
  <2>6. \A k \in 0..n : F[k] \in Seq(S)
    <3>1. 0 \in T
      <4>1. 0 \in 0..n /\ <<>> \in Seq(S)
        BY <1>0
      <4> QED BY <2>3, <4>1
    <3>2. ASSUME NEW k \in 0..(n - 1), k \in T PROVE k + 1 \in T
      <4>1. k + 1 \in 0..n /\ k + 1 \in 1..n /\ F[k] \in Seq(S)
        BY <1>0, <3>2
      <4>2. s[k + 1] \in Seq(S)
        BY <1>0, <4>1
      <4>3. F[k + 1] \in Seq(S)
        BY <2>5, <4>1, <4>2, ConcatProperties
      <4> QED BY <4>1, <4>3
    <3>3. \A k \in 0..n : k \in T
      <4> HIDE DEF T
      <4> QED BY <1>0, <3>1, <3>2, Induct
    <3> QED BY <3>3
  <2>7. \A k \in 0..n : o[k] \in Nat
    BY <2>4, <2>6, LenProperties
  <2>8. \A k \in 0..n : PartsIn(F[k], s, o, k)
    <3>1. 0 \in P
      BY <1>0 DEF PartsIn
    <3>2. ASSUME NEW k \in 0..(n - 1), k \in P PROVE k + 1 \in P
      <4>1. k + 1 \in 0..n /\ k + 1 \in 1..n /\ k \in Nat /\ k \in 0..n
        BY <1>0
      <4>2. /\ \A i \in 0..k : i \in 0..n
            /\ \A i \in 1..k : i \in 1..n
        BY <1>0
      <4>3. F[k] \in Seq(S) /\ o[k] = Len(F[k]) /\ s[k + 1] \in Seq(S)
        BY <1>0, <2>4, <2>6, <4>1
      <4>4. /\ \A i \in 0..k : o[i] \in Nat
            /\ \A i \in 1..k : Len(s[i]) \in Nat
        BY <1>0, <2>7, <4>2
      <4>5. PartsIn(F[k] \o s[k + 1], s, o, k + 1)
        BY <3>2, <4>1, <4>3, <4>4, PartsGrow
      <4> QED BY <2>5, <4>1, <4>5
    <3>3. \A k \in 0..n : k \in P
      <4> HIDE DEF P
      <4> QED BY <1>0, <3>1, <3>2, Induct
    <3> QED BY <3>3
  <2>9. n \in 0..n /\ F[n] = FlattenSeq(s)
    BY <1>0, <2>1, <2>3
  <2>10. FlattenSeq(s) \in Seq(S) /\ Joined(FlattenSeq(s), s, o)
    BY <2>4, <2>6, <2>8, <2>9 DEF Joined, PartsIn
  <2>11. o \in [0..n -> Nat]
    BY <2>o, <2>4, <2>7
  <2>12. o[0] = 0
    BY <1>0, <2>3, <2>4
  <2>13. ASSUME NEW k \in 1..n PROVE o[k] = o[k - 1] + Lens(s)[k]
    <3>1. k - 1 \in 0..(n - 1) /\ k - 1 \in 0..n /\ (k - 1) + 1 = k /\ k \in 0..n
      BY <1>0
    <3>2. F[k] = F[k - 1] \o s[k] /\ F[k - 1] \in Seq(S) /\ s[k] \in Seq(S)
      BY <1>0, <2>5, <2>6, <3>1
    <3>3. Len(F[k]) = Len(F[k - 1]) + Len(s[k])
      BY <3>2, ConcatProperties
    <3> QED BY <1>0, <2>4, <3>1, <3>3
  <2>14. IsOffsets(o, Lens(s))
    BY <1>0, <2>11, <2>12, <2>13 DEF IsOffsets
  <2> QED BY <2>10, <2>14
<1> QED BY <1>1, <1>2

-----------------------------------------------------------------------------
(* Pieces of messages and cells of the buffer.                             *)

(* The pieces of messages, the cells of the buffer, and how many groups of *)
(* four letters a text is spelled with.                                    *)
Pieces == [kind : {"plain", "atob"}, text : Seq(Characters)]
Cells == [char : {"a", "t", "o", "b", "(", ")", "letter"} \cup Characters,
          text : Seq(Characters), place : Nat]
Groups(text) == (Len(text) + 2) \div 3

(* Min, as the folds of the library define it, is the least element.       *)
LEMMA LeastIs ==
  ASSUME NEW T \in SUBSET Nat, T # {}
  PROVE  Min(T) \in T /\ \A k \in T : Min(T) <= k
  BY LeastNat DEF Min

(* base64 needs four letters for three characters begun, so the text is    *)
(* never longer than its letters (gb_parse.cpp:151-159).                   *)
LEMMA GroupsOf ==
  ASSUME NEW text \in Seq(Characters)
  PROVE  /\ Len(text) \in Nat /\ Groups(text) \in Nat
         /\ EncodedLength(text) = 4 * Groups(text) /\ EncodedLength(text) \in Nat
         /\ Len(text) <= 3 * Groups(text) /\ 3 * Groups(text) <= Len(text) + 2
         /\ Len(text) <= EncodedLength(text)
<1>1. Len(text) \in Nat
  OBVIOUS
<1>2. \A n \in Nat : /\ (n + 2) \div 3 \in Nat
                     /\ n <= 3 * ((n + 2) \div 3) /\ 3 * ((n + 2) \div 3) <= n + 2
  OBVIOUS
<1>3. /\ Groups(text) \in Nat
      /\ Len(text) <= 3 * Groups(text) /\ 3 * Groups(text) <= Len(text) + 2
  BY <1>1, <1>2 DEF Groups
<1>4. EncodedLength(text) = 4 * Groups(text)
  BY DEF EncodedLength, Groups
<1> QED BY <1>1, <1>3, <1>4

(* What a cell is tells what it was made from.                             *)
LEMMA CellsOf ==
  /\ \A c \in {"a", "t", "o", "b", "(", ")"} \cup Characters : Char(c) \in Cells /\ Char(c).char = c
  /\ \A text \in Seq(Characters), k \in Nat : /\ Letter(text, k) \in Cells
                                              /\ Letter(text, k).char = "letter"
                                              /\ Letter(text, k).text = text
<1>1. <<>> \in Seq(Characters)
  OBVIOUS
<1> QED BY <1>1 DEF Char, Letter, Cells

(* The six characters that begin a call (gb_parse.cpp:287).                *)
LEMMA MarkerIs ==
  /\ Marker \in Seq(Cells) /\ Len(Marker) = 6
  /\ Marker[1] = Char("a") /\ Marker[2] = Char("t") /\ Marker[3] = Char("o")
  /\ Marker[4] = Char("b") /\ Marker[5] = Char("(") /\ Marker[6] = Char("quote")
<1>1. \A c \in {"a", "t", "o", "b", "(", "quote"} : Char(c) \in Cells
  BY CellsOf DEF Characters
<1> HIDE DEF Cells
<1> QED BY <1>1 DEF Marker

(* Plain text, cell by cell.                                               *)
LEMMA PlainIs ==
  ASSUME NEW text \in Seq(Characters)
  PROVE  /\ Chars(text) \in Seq(Cells) /\ Len(Chars(text)) = Len(text)
         /\ \A j \in 1..Len(text) : Chars(text)[j] = Char(text[j]) /\ text[j] \in Characters
<1>1. Len(text) \in Nat /\ DOMAIN text = 1..Len(text) /\ \A j \in 1..Len(text) : text[j] \in Characters
  OBVIOUS
<1>2. \A j \in 1..Len(text) : Char(text[j]) \in Cells
  BY <1>1, CellsOf
<1>3. Chars(text) \in [1..Len(text) -> Cells]
  BY <1>1, <1>2 DEF Chars
<1>4. \A n \in Nat : \A f \in [1..n -> Cells] : f \in Seq(Cells) /\ Len(f) = n
  OBVIOUS
<1> QED BY <1>1, <1>3, <1>4 DEF Chars

(* Encoded text, letter by letter.                                         *)
LEMMA EncodedIs ==
  ASSUME NEW text \in Seq(Characters)
  PROVE  /\ Encoded(text) \in Seq(Cells) /\ Len(Encoded(text)) = EncodedLength(text)
         /\ \A j \in 1..EncodedLength(text) : Encoded(text)[j] = Letter(text, j)
<1>1. EncodedLength(text) \in Nat
  BY GroupsOf
<1>2. \A j \in 1..EncodedLength(text) : Letter(text, j) \in Cells
  BY <1>1, CellsOf
<1>3. Encoded(text) \in [1..EncodedLength(text) -> Cells]
  BY <1>2 DEF Encoded
<1>4. \A n \in Nat : \A f \in [1..n -> Cells] : f \in Seq(Cells) /\ Len(f) = n
  OBVIOUS
<1> QED BY <1>1, <1>3, <1>4 DEF Encoded

(* The memset (gb_parse.cpp:161).                                          *)
LEMMA BlanksAre ==
  ASSUME NEW n \in Nat
  PROVE  /\ Blanks(n) \in Seq(Cells) /\ Len(Blanks(n)) = n
         /\ \A j \in 1..n : Blanks(n)[j] = Char("blank")
<1>1. Char("blank") \in Cells
  BY CellsOf DEF Characters
<1>2. Blanks(n) \in [1..n -> Cells]
  BY <1>1 DEF Blanks
<1>3. \A f \in [1..n -> Cells] : f \in Seq(Cells) /\ Len(f) = n
  OBVIOUS
<1> QED BY <1>2, <1>3 DEF Blanks

(* The cells of s \o t.                                                    *)
LEMMA Joint ==
  ASSUME NEW s \in Seq(Cells), NEW t \in Seq(Cells)
  PROVE  /\ s \o t \in Seq(Cells) /\ Len(s \o t) = Len(s) + Len(t)
         /\ Len(s) \in Nat /\ Len(t) \in Nat
         /\ \A j \in 1..Len(s) : (s \o t)[j] = s[j]
         /\ \A j \in 1..Len(t) : (s \o t)[Len(s) + j] = t[j]
<1>1. s \o t \in Seq(Cells) /\ Len(s \o t) = Len(s) + Len(t) /\ Len(s) \in Nat /\ Len(t) \in Nat
  BY ConcatProperties
<1>2. \A x \in 1..(Len(s) + Len(t)) : (s \o t)[x] = IF x <= Len(s) THEN s[x] ELSE t[x - Len(s)]
  BY ConcatProperties
<1> DEFINE h == s \o t
<1> HIDE DEF h
<1>3. \A x \in 1..(Len(s) + Len(t)) : h[x] = IF x <= Len(s) THEN s[x] ELSE t[x - Len(s)]
  BY <1>2 DEF h
<1>4. /\ \A j \in 1..Len(s) : j \in 1..(Len(s) + Len(t)) /\ j <= Len(s)
      /\ \A j \in 1..Len(t) : /\ Len(s) + j \in 1..(Len(s) + Len(t))
                              /\ ~(Len(s) + j <= Len(s)) /\ (Len(s) + j) - Len(s) = j
  BY <1>1
<1>5. \A j \in 1..Len(s) : h[j] = s[j]
  BY <1>3, <1>4
<1>6. \A j \in 1..Len(t) : h[Len(s) + j] = t[j]
  BY <1>3, <1>4
<1> QED BY <1>1, <1>5, <1>6 DEF h

(* A call, cell by cell.                                                   *)
LEMMA CallIs ==
  ASSUME NEW p \in Pieces, p.kind = "atob"
  PROVE  LET text == p.text
             E == EncodedLength(p.text)
         IN  /\ Piece(p) \in Seq(Cells) /\ Len(Piece(p)) = 8 + E
             /\ Piece(p)[1] = Char("a") /\ Piece(p)[2] = Char("t") /\ Piece(p)[3] = Char("o")
             /\ Piece(p)[4] = Char("b") /\ Piece(p)[5] = Char("(") /\ Piece(p)[6] = Char("quote")
             /\ \A j \in 1..E : Piece(p)[6 + j] = Letter(text, j)
             /\ Piece(p)[7 + E] = Char("quote") /\ Piece(p)[8 + E] = Char(")")
<1> DEFINE E == EncodedLength(p.text)
           q == <<Char("quote"), Char(")")>>
           l == Encoded(p.text) \o q
<1>0. p.text \in Seq(Characters) /\ E \in Nat
  BY GroupsOf DEF Pieces
<1>1. q \in Seq(Cells) /\ Len(q) = 2 /\ q[1] = Char("quote") /\ q[2] = Char(")")
  <2>1. Char("quote") \in Cells /\ Char(")") \in Cells
    BY CellsOf DEF Characters
  <2> QED BY <2>1
<1>2. /\ Encoded(p.text) \in Seq(Cells) /\ Len(Encoded(p.text)) = E
      /\ \A j \in 1..E : Encoded(p.text)[j] = Letter(p.text, j)
  BY <1>0, EncodedIs
<1> HIDE DEF q, E
<1>3. /\ l \in Seq(Cells) /\ Len(l) = E + 2
      /\ \A j \in 1..E : l[j] = Letter(p.text, j)
      /\ l[E + 1] = Char("quote") /\ l[E + 2] = Char(")")
  <2>1. /\ l \in Seq(Cells) /\ Len(l) = Len(Encoded(p.text)) + Len(q)
        /\ \A j \in 1..Len(Encoded(p.text)) : l[j] = Encoded(p.text)[j]
        /\ \A j \in 1..Len(q) : l[Len(Encoded(p.text)) + j] = q[j]
    BY <1>1, <1>2, Joint
  <2>2. 1 \in 1..Len(q) /\ 2 \in 1..Len(q)
    BY <1>1
  <2> HIDE DEF l
  <2> QED BY <1>1, <1>2, <2>1, <2>2
<1> HIDE DEF l
<1>4. /\ Marker \o l \in Seq(Cells) /\ Len(Marker \o l) = 6 + (E + 2)
      /\ \A j \in 1..6 : (Marker \o l)[j] = Marker[j]
      /\ \A j \in 1..(E + 2) : (Marker \o l)[6 + j] = l[j]
  <2>1. /\ Marker \o l \in Seq(Cells) /\ Len(Marker \o l) = Len(Marker) + Len(l)
        /\ \A j \in 1..Len(Marker) : (Marker \o l)[j] = Marker[j]
        /\ \A j \in 1..Len(l) : (Marker \o l)[Len(Marker) + j] = l[j]
    BY <1>3, MarkerIs, Joint
  <2>2. Len(Marker) = 6 /\ Len(l) = E + 2
    BY <1>3, MarkerIs
  <2> QED BY <2>1, <2>2
<1>5. Piece(p) = Marker \o l
  <2>1. Piece(p) = (Marker \o Encoded(p.text)) \o q
    BY DEF Piece, q
  <2>2. (Marker \o Encoded(p.text)) \o q = Marker \o (Encoded(p.text) \o q)
    <3>1. Marker \in Seq(Cells) /\ Encoded(p.text) \in Seq(Cells) /\ q \in Seq(Cells)
      BY <1>1, <1>2, MarkerIs
    <3>2. \A s, t, u \in Seq(Cells) : (s \o t) \o u = s \o (t \o u)
      BY ConcatAssociative
    <3> QED BY <3>1, <3>2, Zenon
  <2> QED BY <2>1, <2>2 DEF l
<1>6. /\ 6 + (E + 2) = 8 + E /\ 6 + (E + 1) = 7 + E
      /\ E + 1 \in 1..(E + 2) /\ E + 2 \in 1..(E + 2) /\ \A j \in 1..E : j \in 1..(E + 2)
  BY <1>0
<1> DEFINE h == Marker \o l
<1> HIDE DEF h
<1>7. /\ h \in Seq(Cells) /\ Len(h) = 8 + E
      /\ \A j \in 1..6 : h[j] = Marker[j]
      /\ \A j \in 1..(E + 2) : h[6 + j] = l[j]
  BY <1>4, <1>6 DEF h
<1>8. /\ h[1] = Char("a") /\ h[2] = Char("t") /\ h[3] = Char("o")
      /\ h[4] = Char("b") /\ h[5] = Char("(") /\ h[6] = Char("quote")
  BY <1>7, MarkerIs
<1>9. /\ \A j \in 1..E : h[6 + j] = Letter(p.text, j)
      /\ h[7 + E] = Char("quote") /\ h[8 + E] = Char(")")
  BY <1>3, <1>6, <1>7
<1>10. Piece(p) = h
  BY <1>5 DEF h
<1> QED BY <1>7, <1>8, <1>9, <1>10 DEF E

(* What it has to be when the message is parsed, cell by cell              *)
(* (gb_parse.cpp:161-163).                                                 *)
LEMMA DecodedIs ==
  ASSUME NEW p \in Pieces, p.kind = "atob"
  PROVE  LET text == p.text
             T == Len(p.text)
             E == EncodedLength(p.text)
         IN  /\ PlainPiece(p) \in Seq(Cells) /\ Len(PlainPiece(p)) = 8 + E
             /\ PlainPiece(p)[1] = Char("quote")
             /\ \A j \in 1..T : PlainPiece(p)[1 + j] = Char(text[j])
             /\ PlainPiece(p)[T + 2] = Char("quote")
             /\ \A j \in (T + 3)..(8 + E) : PlainPiece(p)[j] = Char("blank")
<1> DEFINE T == Len(p.text)
           E == EncodedLength(p.text)
           N == 6 + E - T
           q == <<Char("quote")>>
           a == q \o Chars(p.text)
           c == a \o q
           d == c \o Blanks(N)
<1>0. p.text \in Seq(Characters) /\ E \in Nat /\ T \in Nat /\ T <= E /\ N \in Nat
  BY GroupsOf DEF Pieces
<1>1. q \in Seq(Cells) /\ Len(q) = 1 /\ q[1] = Char("quote")
  <2>1. Char("quote") \in Cells
    BY CellsOf DEF Characters
  <2> QED BY <2>1
<1>2. /\ Chars(p.text) \in Seq(Cells) /\ Len(Chars(p.text)) = T
      /\ \A j \in 1..T : Chars(p.text)[j] = Char(p.text[j])
  BY <1>0, PlainIs
<1>3. /\ Blanks(N) \in Seq(Cells) /\ Len(Blanks(N)) = N
      /\ \A j \in 1..N : Blanks(N)[j] = Char("blank")
  BY <1>0, BlanksAre
<1>4. PlainPiece(p) = d
  BY DEF PlainPiece
<1> HIDE DEF q, E, T
<1>5. /\ a \in Seq(Cells) /\ Len(a) = 1 + T /\ a[1] = Char("quote")
      /\ \A j \in 1..T : a[1 + j] = Char(p.text[j])
  <2>1. /\ a \in Seq(Cells) /\ Len(a) = Len(q) + Len(Chars(p.text))
        /\ \A j \in 1..Len(q) : a[j] = q[j]
        /\ \A j \in 1..Len(Chars(p.text)) : a[Len(q) + j] = Chars(p.text)[j]
    BY <1>1, <1>2, Joint
  <2> HIDE DEF a
  <2> QED BY <1>1, <1>2, <2>1
<1> HIDE DEF a
<1>6. /\ c \in Seq(Cells) /\ Len(c) = (1 + T) + 1 /\ \A j \in 1..(1 + T) : c[j] = a[j]
      /\ c[(1 + T) + 1] = Char("quote")
  <2>1. /\ c \in Seq(Cells) /\ Len(c) = Len(a) + Len(q)
        /\ \A j \in 1..Len(a) : c[j] = a[j]
        /\ \A j \in 1..Len(q) : c[Len(a) + j] = q[j]
    BY <1>1, <1>5, Joint
  <2> HIDE DEF c
  <2> QED BY <1>1, <1>5, <2>1
<1> HIDE DEF c, N
<1>7. /\ d \in Seq(Cells) /\ Len(d) = (T + 2) + N /\ \A j \in 1..(T + 2) : d[j] = c[j]
      /\ \A j \in 1..N : d[(T + 2) + j] = Char("blank")
  <2>1. /\ d \in Seq(Cells) /\ Len(d) = Len(c) + Len(Blanks(N))
        /\ \A j \in 1..Len(c) : d[j] = c[j]
        /\ \A j \in 1..Len(Blanks(N)) : d[Len(c) + j] = Blanks(N)[j]
    BY <1>3, <1>6, Joint
  <2>2. Len(c) = T + 2
    BY <1>0, <1>6
  <2> HIDE DEF d
  <2> QED BY <1>3, <2>1, <2>2
<1> HIDE DEF d
<1>8. Len(d) = 8 + E
  BY <1>0, <1>7 DEF N
<1>9. d[1] = Char("quote") /\ \A j \in 1..T : d[1 + j] = Char(p.text[j])
  <2>1. /\ 1 \in 1..(T + 2) /\ 1 \in 1..(1 + T)
        /\ \A j \in 1..T : 1 + j \in 1..(T + 2) /\ 1 + j \in 1..(1 + T)
    BY <1>0
  <2> QED BY <1>5, <1>6, <1>7, <2>1
<1>10. d[T + 2] = Char("quote")
  <2>1. T + 2 \in 1..(T + 2) /\ (1 + T) + 1 = T + 2
    BY <1>0
  <2> QED BY <1>6, <1>7, <2>1
<1>11. \A j \in (T + 3)..(8 + E) : d[j] = Char("blank")
  <2>1. \A j \in (T + 3)..(8 + E) : j - (T + 2) \in 1..N /\ (T + 2) + (j - (T + 2)) = j
    BY <1>0 DEF N
  <2> QED BY <1>7, <2>1
<1> QED BY <1>4, <1>7, <1>8, <1>9, <1>10, <1>11 DEF T, E

-----------------------------------------------------------------------------
(* Where the pieces stand.                                                 *)

(* The message in pieces, as sent and decoded, and where each piece        *)
(* begins.                                                                 *)
Parts(m) == [i \in DOMAIN m |-> Piece(m[i])]
PlainParts(m) == [i \in DOMAIN m |-> PlainPiece(m[i])]
Size(p) == Len(Piece(p))
Place(m) == CHOOSE o : IsOffsets(o, Lens(Parts(m)))

(* Every piece keeps its length when it is decoded.                        *)
LEMMA PieceSize ==
  ASSUME NEW p \in Pieces
  PROVE  /\ Piece(p) \in Seq(Cells) /\ PlainPiece(p) \in Seq(Cells)
         /\ Size(p) \in Nat /\ Len(PlainPiece(p)) = Size(p)
<1>1. p.text \in Seq(Characters) /\ p.kind \in {"plain", "atob"}
  BY DEF Pieces
<1>2. CASE p.kind = "plain"
  <2>1. Piece(p) = Chars(p.text) /\ PlainPiece(p) = Chars(p.text)
    BY <1>2 DEF Piece, PlainPiece
  <2>2. Chars(p.text) \in Seq(Cells) /\ Len(Chars(p.text)) \in Nat
    BY <1>1, PlainIs
  <2> QED BY <2>1, <2>2 DEF Size
<1>3. CASE p.kind = "atob"
  <2>1. Piece(p) \in Seq(Cells) /\ Len(Piece(p)) = 8 + EncodedLength(p.text)
    BY <1>3, CallIs
  <2>2. PlainPiece(p) \in Seq(Cells) /\ Len(PlainPiece(p)) = 8 + EncodedLength(p.text)
    BY <1>3, DecodedIs
  <2>3. EncodedLength(p.text) \in Nat
    BY <1>1, GroupsOf
  <2> QED BY <2>1, <2>2, <2>3 DEF Size
<1> QED BY <1>1, <1>2, <1>3

(* So both lines have parts of the same lengths,                           *)
LEMMA PartsOf ==
  ASSUME NEW m \in Seq(Pieces)
  PROVE  /\ Len(m) \in Nat /\ DOMAIN m = 1..Len(m) /\ \A i \in 1..Len(m) : m[i] \in Pieces
         /\ Parts(m) \in Seq(Seq(Cells)) /\ Len(Parts(m)) = Len(m)
         /\ \A i \in 1..Len(m) : Parts(m)[i] = Piece(m[i])
         /\ PlainParts(m) \in Seq(Seq(Cells)) /\ Len(PlainParts(m)) = Len(m)
         /\ \A i \in 1..Len(m) : PlainParts(m)[i] = PlainPiece(m[i])
         /\ Lens(Parts(m)) = [i \in 1..Len(m) |-> Size(m[i])]
         /\ Lens(PlainParts(m)) = Lens(Parts(m))
<1>1. Len(m) \in Nat /\ DOMAIN m = 1..Len(m) /\ \A i \in 1..Len(m) : m[i] \in Pieces
  OBVIOUS
<1>2. \A n \in Nat : \A f \in [1..n -> Seq(Cells)] : f \in Seq(Seq(Cells)) /\ Len(f) = n
  OBVIOUS
<1>3. \A i \in 1..Len(m) : /\ Piece(m[i]) \in Seq(Cells) /\ PlainPiece(m[i]) \in Seq(Cells)
                           /\ Len(PlainPiece(m[i])) = Size(m[i])
  BY <1>1, PieceSize
<1>4. /\ Parts(m) \in [1..Len(m) -> Seq(Cells)]
      /\ \A i \in 1..Len(m) : Parts(m)[i] = Piece(m[i])
  BY <1>1, <1>3 DEF Parts
<1>5. /\ PlainParts(m) \in [1..Len(m) -> Seq(Cells)]
      /\ \A i \in 1..Len(m) : PlainParts(m)[i] = PlainPiece(m[i])
  BY <1>1, <1>3 DEF PlainParts
<1>6. /\ Parts(m) \in Seq(Seq(Cells)) /\ Len(Parts(m)) = Len(m)
      /\ PlainParts(m) \in Seq(Seq(Cells)) /\ Len(PlainParts(m)) = Len(m)
  BY <1>1, <1>2, <1>4, <1>5
<1>7. Lens(Parts(m)) = [i \in 1..Len(m) |-> Size(m[i])]
  <2>1. Lens(Parts(m)) = [i \in 1..Len(m) |-> Len(Parts(m)[i])]
    BY <1>6 DEF Lens
  <2>2. \A i \in 1..Len(m) : Len(Parts(m)[i]) = Size(m[i])
    BY <1>4 DEF Size
  <2> QED BY <2>1, <2>2
<1>8. Lens(PlainParts(m)) = [i \in 1..Len(m) |-> Size(m[i])]
  <2>1. Lens(PlainParts(m)) = [i \in 1..Len(m) |-> Len(PlainParts(m)[i])]
    BY <1>6 DEF Lens
  <2>2. \A i \in 1..Len(m) : Len(PlainParts(m)[i]) = Size(m[i])
    BY <1>3, <1>5
  <2> QED BY <2>1, <2>2
<1> QED BY <1>1, <1>4, <1>5, <1>6, <1>7, <1>8

(* and every piece stands at the same place in both.                       *)
LEMMA PlaceIs ==
  ASSUME NEW m \in Seq(Pieces)
  PROVE  LET o == Place(m)
             n == Len(m)
         IN  /\ n \in Nat /\ o[0] = 0 /\ \A k \in 0..n : o[k] \in Nat
             /\ \A k \in 1..n : o[k] = o[k - 1] + Size(m[k]) /\ Size(m[k]) \in Nat
             /\ \A i, j \in 0..n : i <= j => o[i] <= o[j]
             /\ \A x \in 1..o[n] : \E k \in 1..n : \E j \in 1..Size(m[k]) : x = o[k - 1] + j
             /\ Line(m) \in Seq(Cells) /\ Len(Line(m)) = o[n]
             /\ \A k \in 1..n : \A j \in 1..Size(m[k]) : Line(m)[o[k - 1] + j] = Piece(m[k])[j]
             /\ PlainLine(m) \in Seq(Cells) /\ Len(PlainLine(m)) = o[n]
             /\ \A k \in 1..n : \A j \in 1..Size(m[k]) : PlainLine(m)[o[k - 1] + j] = PlainPiece(m[k])[j]
<1> DEFINE o == Place(m)
           n == Len(m)
           lens == Lens(Parts(m))
<1>1. /\ n \in Nat /\ \A i \in 1..n : m[i] \in Pieces
      /\ Parts(m) \in Seq(Seq(Cells)) /\ Len(Parts(m)) = n
      /\ \A i \in 1..n : Parts(m)[i] = Piece(m[i])
      /\ PlainParts(m) \in Seq(Seq(Cells)) /\ Len(PlainParts(m)) = n
      /\ \A i \in 1..n : PlainParts(m)[i] = PlainPiece(m[i])
      /\ lens = [i \in 1..n |-> Size(m[i])]
      /\ Lens(PlainParts(m)) = lens
  BY PartsOf
<1>2. lens \in Seq(Nat) /\ Len(lens) = n /\ \A k \in 1..n : lens[k] = Size(m[k])
  BY <1>1, LensType
<1>3. PICK f : /\ IsOffsets(f, lens) /\ FlattenSeq(Parts(m)) \in Seq(Cells)
               /\ Joined(FlattenSeq(Parts(m)), Parts(m), f)
  BY <1>1, FlattenJoins
<1>4. PICK g : /\ IsOffsets(g, Lens(PlainParts(m))) /\ FlattenSeq(PlainParts(m)) \in Seq(Cells)
               /\ Joined(FlattenSeq(PlainParts(m)), PlainParts(m), g)
  BY <1>1, FlattenJoins
<1>5. IsOffsets(o, lens)
  BY <1>3 DEF Place
<1> HIDE DEF lens, o, n
<1>6. f = o /\ g = o
  BY <1>1, <1>2, <1>3, <1>4, <1>5, OffsetsUnique
<1>7. Line(m) = FlattenSeq(Parts(m)) /\ PlainLine(m) = FlattenSeq(PlainParts(m))
  BY DEF Line, PlainLine, Parts, PlainParts
<1>8. \A k \in 0..n : o[k] \in Nat
  BY <1>2, <1>5, OffsetsType
<1>9. o[0] = 0 /\ \A k \in 1..n : o[k] = o[k - 1] + Size(m[k])
  BY <1>2, <1>5 DEF IsOffsets
<1>10. \A k \in 1..n : Size(m[k]) \in Nat
  BY <1>1, PieceSize
<1>11. \A i, j \in 0..n : i <= j => o[i] <= o[j]
  BY <1>2, <1>5, OffsetsGrow
<1>12. ASSUME NEW x \in 1..o[n] PROVE \E k \in 1..n : \E j \in 1..Size(m[k]) : x = o[k - 1] + j
  <2>1. \E k \in 1..Len(lens) : \E j \in 1..lens[k] : x = o[k - 1] + j
    BY <1>2, <1>5, OffsetsCover
  <2> QED BY <1>2, <2>1
<1>13. /\ Line(m) \in Seq(Cells) /\ Len(Line(m)) = o[n]
       /\ \A k \in 1..n : \A j \in 1..Size(m[k]) : Line(m)[o[k - 1] + j] = Piece(m[k])[j]
  <2>1. \A k \in 1..n : Len(Parts(m)[k]) = Size(m[k])
    BY <1>1 DEF Size
  <2>2. Joined(Line(m), Parts(m), o)
    BY <1>3, <1>6, <1>7
  <2> QED BY <1>1, <1>3, <1>7, <2>1, <2>2 DEF Joined
<1>14. /\ PlainLine(m) \in Seq(Cells) /\ Len(PlainLine(m)) = o[n]
       /\ \A k \in 1..n : \A j \in 1..Size(m[k]) : PlainLine(m)[o[k - 1] + j] = PlainPiece(m[k])[j]
  <2>1. \A k \in 1..n : Len(PlainParts(m)[k]) = Size(m[k])
    BY <1>1, PieceSize
  <2>2. Joined(PlainLine(m), PlainParts(m), o)
    BY <1>4, <1>6, <1>7
  <2> QED BY <1>1, <1>4, <1>7, <2>1, <2>2 DEF Joined
<1> QED BY <1>1, <1>8, <1>9, <1>10, <1>11, <1>12, <1>13, <1>14 DEF o, n

(* A call holds one "a" and one bracket (gb_parse.cpp:151, 287).           *)
LEMMA CallCells ==
  ASSUME NEW p \in Pieces, p.kind = "atob", NEW j \in 1..Size(p)
  PROVE  /\ Piece(p)[j] = Char("a") => j = 1
         /\ Piece(p)[j] = Char(")") => j = 8 + EncodedLength(p.text)
<1> DEFINE E == EncodedLength(p.text)
<1>1. p.text \in Seq(Characters) /\ E \in Nat
  BY GroupsOf DEF Pieces
<1>2. /\ Len(Piece(p)) = 8 + E
      /\ Piece(p)[1] = Char("a") /\ Piece(p)[2] = Char("t") /\ Piece(p)[3] = Char("o")
      /\ Piece(p)[4] = Char("b") /\ Piece(p)[5] = Char("(") /\ Piece(p)[6] = Char("quote")
      /\ \A i \in 1..E : Piece(p)[6 + i] = Letter(p.text, i)
      /\ Piece(p)[7 + E] = Char("quote") /\ Piece(p)[8 + E] = Char(")")
  BY CallIs
<1> HIDE DEF E
<1>3. j \in 1..(8 + E)
  BY <1>2 DEF Size
<1> DEFINE c == Piece(p)[j]
<1>4. CASE j \in {1, 2, 3, 4, 5, 6, 7 + E, 8 + E}
  <2>1. c.char \in {"a", "t", "o", "b", "(", "quote", ")"}
        /\ (c.char = "a" => j = 1) /\ (c.char = ")" => j = 8 + E)
    BY <1>2, <1>4, CellsOf DEF Characters
  <2>2. Char("a").char = "a" /\ Char(")").char = ")"
    BY DEF Char
  <2> HIDE DEF c
  <2>3. (c = Char("a") => j = 1) /\ (c = Char(")") => j = 8 + E)
    BY <2>1, <2>2, Zenon
  <2> QED BY <2>3 DEF c, E
<1>5. CASE j \in 7..(6 + E)
  <2>1. j - 6 \in 1..E /\ 6 + (j - 6) = j /\ j - 6 \in Nat
    BY <1>1, <1>5
  <2>2. c = Letter(p.text, j - 6)
    <3>1. Piece(p)[6 + (j - 6)] = Letter(p.text, j - 6)
      BY <1>2, <2>1
    <3> QED BY <2>1, <3>1
  <2>3. Char("a").char # "letter" /\ Char(")").char # "letter" /\ Letter(p.text, j - 6).char = "letter"
    BY DEF Char, Letter
  <2> HIDE DEF c
  <2>4. c # Char("a") /\ c # Char(")")
    BY <2>2, <2>3, Zenon
  <2> QED BY <2>4 DEF c
<1> QED BY <1>1, <1>3, <1>4, <1>5 DEF E, c

(* No call begins in what was decoded, nor in plain text, which is left as *)
(* it was (gb_parse.cpp:287).                                              *)
LEMMA PlainCells ==
  ASSUME NEW p \in Pieces, NEW j \in 1..Size(p)
  PROVE  /\ PlainPiece(p)[j] # Char("a")
         /\ p.kind = "plain" => Piece(p) = PlainPiece(p)
<1> DEFINE T == Len(p.text)
           E == EncodedLength(p.text)
<1>1. p.text \in Seq(Characters) /\ p.kind \in {"plain", "atob"} /\ T \in Nat /\ E \in Nat
  BY GroupsOf DEF Pieces
<1>2. \A i \in 1..T : p.text[i] \in Characters
  BY <1>1
<1>3. \A c \in Characters : Char(c) # Char("a")
  <2>1. \A c \in Characters : Char(c).char # Char("a").char
    BY CellsOf DEF Characters
  <2> QED BY <2>1
<1>4. CASE p.kind = "plain"
  <2>1. Piece(p) = Chars(p.text) /\ PlainPiece(p) = Chars(p.text)
    BY <1>4 DEF Piece, PlainPiece
  <2>2. j \in 1..T /\ PlainPiece(p)[j] = Char(p.text[j])
    BY <1>1, <2>1, PlainIs DEF Size
  <2> QED BY <1>2, <1>3, <2>1, <2>2
<1>5. CASE p.kind = "atob"
  <2>1. /\ PlainPiece(p)[1] = Char("quote")
        /\ \A i \in 1..T : PlainPiece(p)[1 + i] = Char(p.text[i])
        /\ PlainPiece(p)[T + 2] = Char("quote")
        /\ \A i \in (T + 3)..(8 + E) : PlainPiece(p)[i] = Char("blank")
        /\ Len(PlainPiece(p)) = 8 + E
    BY <1>5, DecodedIs
  <2> HIDE DEF T, E
  <2>2. j \in 1..(8 + E)
    BY <2>1, PieceSize
  <2>3. j = 1 \/ j - 1 \in 1..T \/ j = T + 2 \/ j \in (T + 3)..(8 + E)
    BY <1>1, <2>2
  <2>4. \E c \in Characters : PlainPiece(p)[j] = Char(c)
    <3>1. CASE j - 1 \in 1..T
      <4>1. 1 + (j - 1) = j
        BY <2>2, <1>1
      <4> QED BY <1>2, <2>1, <3>1, <4>1
    <3>2. "quote" \in Characters /\ "blank" \in Characters
      BY DEF Characters
    <3> QED BY <2>1, <2>3, <3>1, <3>2
  <2> QED BY <1>3, <1>5, <2>4
<1> QED BY <1>1, <1>4, <1>5

(* The k-th piece of m as it was sent, and as it has to be, in buffer t;   *)
(* and the first k pieces done, the others as sent.                        *)
Sent(t, m, k) == \A j \in 1..Size(m[k]) : t[Place(m)[k - 1] + j] = Piece(m[k])[j]
Done(t, m, k) == \A j \in 1..Size(m[k]) : t[Place(m)[k - 1] + j] = PlainPiece(m[k])[j]
Split(t, m, k) == /\ \A i \in 1..k : Done(t, m, i)
                  /\ \A i \in (k + 1)..Len(m) : Sent(t, m, i)

(* The k-th piece while it is decoded: the characters that were written,   *)
(* and the letters that have not been written over.                        *)
Decoding(t, m, k, g) ==
  /\ g \in 0..Groups(m[k].text)
  /\ \A j \in 1..Len(m[k].text) : j <= 3 * g => t[Place(m)[k - 1] + 1 + j] = Char(m[k].text[j])
  /\ \A j \in 1..EncodedLength(m[k].text) :
       j + 5 > 3 * g => t[Place(m)[k - 1] + 6 + j] = Letter(m[k].text, j)

(* What changes in one piece leaves the others alone.                      *)
LEMMA OthersKept ==
  ASSUME NEW m \in Seq(Pieces), NEW k \in 1..Len(m), NEW t, NEW u,
         \A x \in 1..Place(m)[Len(m)] :
           x <= Place(m)[k - 1] \/ x > Place(m)[k] => u[x] = t[x],
         NEW i \in 1..Len(m), i # k
  PROVE  (Done(t, m, i) => Done(u, m, i)) /\ (Sent(t, m, i) => Sent(u, m, i))
<1> DEFINE o == Place(m)
           n == Len(m)
<1>1. /\ n \in Nat /\ \A x \in 0..n : o[x] \in Nat
      /\ \A x \in 1..n : o[x] = o[x - 1] + Size(m[x]) /\ Size(m[x]) \in Nat
      /\ \A x, y \in 0..n : x <= y => o[x] <= o[y]
  BY PlaceIs
<1> HIDE DEF o, n
<1>2. i \in 1..n /\ k \in 1..n /\ i - 1 \in 0..n /\ i \in 0..n /\ k - 1 \in 0..n /\ k \in 0..n /\ n \in 0..n
  BY <1>1 DEF n
<1>3. ASSUME NEW j \in 1..Size(m[i]) PROVE u[o[i - 1] + j] = t[o[i - 1] + j]
  <2> DEFINE x == o[i - 1] + j
  <2>1. o[i] = o[i - 1] + Size(m[i]) /\ Size(m[i]) \in Nat /\ o[i - 1] \in Nat /\ o[i] <= o[n]
    BY <1>1, <1>2
  <2>2. j \in Nat /\ 1 <= j /\ j <= Size(m[i]) /\ o[n] \in Nat
    BY <1>1, <1>2, <2>1
  <2>3. x \in 1..o[n] /\ x <= o[i] /\ x > o[i - 1]
    BY <2>1, <2>2
  <2>4. CASE i < k
    <3>1. o[i] <= o[k - 1]
      BY <1>1, <1>2, <2>4
    <3>2. x <= o[k - 1]
      <4>1. x \in Nat /\ o[i] \in Nat /\ o[k - 1] \in Nat
        BY <1>1, <1>2, <2>3
      <4> HIDE DEF x
      <4> QED BY <2>3, <3>1, <4>1
    <3> QED BY <2>3, <3>2 DEF o, n
  <2>5. CASE i > k
    <3>1. o[k] <= o[i - 1]
      BY <1>1, <1>2, <2>5
    <3>2. x > o[k]
      <4>1. x \in Nat /\ o[i - 1] \in Nat /\ o[k] \in Nat
        BY <1>1, <1>2, <2>3
      <4> HIDE DEF x
      <4> QED BY <2>3, <3>1, <4>1
    <3> QED BY <2>3, <3>2 DEF o, n
  <2> QED BY <1>2, <2>4, <2>5
<1> QED BY <1>3 DEF Done, Sent, o

(* The six cells that are compared with the marker (gb_parse.cpp:287).     *)
LEMMA SubSeqIs ==
  ASSUME NEW S, NEW s \in Seq(S), NEW x \in 1..Len(s), x + 5 <= Len(s)
  PROVE  /\ SubSeq(s, x, x + 5) \in Seq(S) /\ Len(SubSeq(s, x, x + 5)) = 6
         /\ SubSeq(s, x, x + 5)[1] = s[x] /\ SubSeq(s, x, x + 5)[2] = s[x + 1]
         /\ SubSeq(s, x, x + 5)[3] = s[x + 2] /\ SubSeq(s, x, x + 5)[4] = s[x + 3]
         /\ SubSeq(s, x, x + 5)[5] = s[x + 4] /\ SubSeq(s, x, x + 5)[6] = s[x + 5]
<1>1. Len(s) \in Nat /\ x \in Nat /\ x + 5 \in 1..Len(s)
  OBVIOUS
<1>2. SubSeq(s, x, x + 5) = [i \in 1..((x + 5) - x + 1) |-> s[x + i - 1]]
  BY <1>1
<1>3. SubSeq(s, x, x + 5) = [i \in 1..6 |-> s[x + i - 1]]
  BY <1>1, <1>2
<1>4. \A i \in 1..6 : s[x + i - 1] \in S
  BY <1>1
<1>5. SubSeq(s, x, x + 5) \in [1..6 -> S]
  BY <1>3, <1>4
<1> QED BY <1>1, <1>3, <1>5

(* The buffer keeps its length.                                            *)
BufferIs == /\ message \in Seq(Pieces) /\ sv \in Seq(Cells)
            /\ Len(sv) = Place(message)[Len(message)]

(* When the first k pieces are done, the calls that find sees are the      *)
(* calls of the other pieces (gb_parse.cpp:287).                           *)
LEMMA CallsAre ==
  ASSUME BufferIs, NEW k \in 0..Len(message), Split(sv, message, k)
  PROVE  /\ \A x \in Calls : \E i \in (k + 1)..Len(message) :
                               message[i].kind = "atob" /\ x = Place(message)[i - 1] + 1
         /\ \A i \in (k + 1)..Len(message) :
              message[i].kind = "atob" => Place(message)[i - 1] + 1 \in Calls
<1> DEFINE o == Place(message)
           n == Len(message)
<1>1. /\ n \in Nat /\ \A x \in 0..n : o[x] \in Nat
      /\ \A x \in 1..n : o[x] = o[x - 1] + Size(message[x]) /\ Size(message[x]) \in Nat
      /\ \A x, y \in 0..n : x <= y => o[x] <= o[y]
      /\ \A x \in 1..o[n] : \E i \in 1..n : \E j \in 1..Size(message[i]) : x = o[i - 1] + j
  BY PlaceIs DEF BufferIs
<1>2. \A i \in 1..n : message[i] \in Pieces
  BY DEF BufferIs
<1>3. sv \in Seq(Cells) /\ DOMAIN sv = 1..Len(sv) /\ Len(sv) \in Nat /\ Len(sv) = o[n]
  BY DEF BufferIs
<1>4. ASSUME NEW x \in Calls
      PROVE  \E i \in (k + 1)..n : message[i].kind = "atob" /\ x = o[i - 1] + 1
  <2>1. x \in 1..Len(sv) /\ x + 5 <= Len(sv) /\ SubSeq(sv, x, x + 5) = Marker
    BY <1>3 DEF Calls, MarkerAt
  <2>2. sv[x] = Char("a")
    BY <1>3, <2>1, SubSeqIs, MarkerIs
  <2>i. PICK i \in 1..n : \E j \in 1..Size(message[i]) : x = o[i - 1] + j
    BY <1>1, <1>3, <2>1
  <2>3. PICK j \in 1..Size(message[i]) : x = o[i - 1] + j
    BY <2>i
  <2>4. i > k
    <3>1. ASSUME i <= k PROVE FALSE
      <4>1. i \in 1..k
        BY <3>1, <1>1
      <4>2. PlainPiece(message[i])[j] = Char("a")
        BY <2>2, <2>3, <4>1 DEF Split, Done
      <4> QED BY <1>2, <4>2, PlainCells
    <3> QED BY <1>1, <3>1
  <2>5. i \in (k + 1)..n
    BY <1>1, <2>4
  <2>6. Piece(message[i])[j] = Char("a")
    BY <2>2, <2>3, <2>5 DEF Split, Sent
  <2>7. message[i].kind = "atob"
    <3>1. message[i].kind \in {"plain", "atob"}
      BY <1>2 DEF Pieces
    <3> QED BY <1>2, <2>6, <3>1, PlainCells
  <2>8. j = 1
    BY <1>2, <2>6, <2>7, CallCells
  <2> QED BY <2>3, <2>5, <2>7, <2>8
<1>5. ASSUME NEW i \in (k + 1)..n, message[i].kind = "atob"
      PROVE  o[i - 1] + 1 \in Calls
  <2> DEFINE x == o[i - 1] + 1
             p == message[i]
  <2>1. i \in 1..n /\ i - 1 \in 0..n /\ i \in 0..n /\ n \in 0..n /\ i <= n
    BY <1>1
  <2>2. p \in Pieces /\ EncodedLength(p.text) \in Nat
    <3>1. p \in Pieces /\ p.text \in Seq(Characters)
      BY <1>2, <2>1 DEF Pieces
    <3> QED BY <3>1, GroupsOf
  <2>3. /\ Size(p) = 8 + EncodedLength(p.text)
        /\ Piece(p)[1] = Char("a") /\ Piece(p)[2] = Char("t") /\ Piece(p)[3] = Char("o")
        /\ Piece(p)[4] = Char("b") /\ Piece(p)[5] = Char("(") /\ Piece(p)[6] = Char("quote")
    BY <1>5, <2>2, CallIs DEF Size
  <2>4. o[i - 1] \in Nat /\ o[i] = o[i - 1] + Size(p) /\ o[i] <= o[n] /\ o[n] = Len(sv)
    BY <1>1, <1>3, <2>1
  <2> HIDE DEF o, p
  <2>5. x \in 1..Len(sv) /\ x + 5 <= Len(sv)
    <3>1. \A a, e, len, size \in Nat :
            size = 8 + e /\ a + size <= len => a + 1 \in 1..len /\ a + 1 + 5 <= len
      OBVIOUS
    <3>2. o[i - 1] + Size(p) <= Len(sv) /\ Size(p) \in Nat
      BY <2>2, <2>3, <2>4
    <3> QED BY <1>3, <2>2, <2>3, <2>4, <3>1, <3>2
  <2>6. \A j \in 1..6 : j \in 1..Size(p)
    BY <2>2, <2>3
  <2>7. Sent(sv, message, i)
    BY DEF Split, n
  <2>8. \A j \in 1..6 : sv[o[i - 1] + j] = Piece(p)[j]
    BY <2>6, <2>7 DEF Sent, o, p
  <2>9. /\ x + 1 = o[i - 1] + 2 /\ x + 2 = o[i - 1] + 3 /\ x + 3 = o[i - 1] + 4
        /\ x + 4 = o[i - 1] + 5 /\ x + 5 = o[i - 1] + 6
    BY <2>4
  <2>10. /\ sv[x] = Marker[1] /\ sv[x + 1] = Marker[2] /\ sv[x + 2] = Marker[3]
         /\ sv[x + 3] = Marker[4] /\ sv[x + 4] = Marker[5] /\ sv[x + 5] = Marker[6]
    <3>1. /\ sv[o[i - 1] + 1] = Piece(p)[1] /\ sv[o[i - 1] + 2] = Piece(p)[2]
          /\ sv[o[i - 1] + 3] = Piece(p)[3] /\ sv[o[i - 1] + 4] = Piece(p)[4]
          /\ sv[o[i - 1] + 5] = Piece(p)[5] /\ sv[o[i - 1] + 6] = Piece(p)[6]
      BY <2>8
    <3> QED BY <2>3, <2>9, <3>1, MarkerIs, Zenon
  <2> HIDE DEF x
  <2> DEFINE y == SubSeq(sv, x, x + 5)
  <2>11. /\ y \in Seq(Cells) /\ Len(y) = 6
         /\ y[1] = sv[x] /\ y[2] = sv[x + 1] /\ y[3] = sv[x + 2]
         /\ y[4] = sv[x + 3] /\ y[5] = sv[x + 4] /\ y[6] = sv[x + 5]
    BY <1>3, <2>5, SubSeqIs
  <2> HIDE DEF y
  <2>12. y = Marker
    <3>1. \A i_1 \in 1..6 : y[i_1] = Marker[i_1]
      BY <2>10, <2>11
    <3> QED BY <2>11, <3>1, MarkerIs, SeqEqual
  <2> QED BY <1>3, <2>5, <2>12 DEF Calls, MarkerAt, y, x, o
<1> QED BY <1>4, <1>5

-----------------------------------------------------------------------------
(* The loop (Atob).                                                        *)

(* base64_decode is at the k-th piece, a call; those before it are done.   *)
Reading(k) == /\ message[k].kind = "atob"
              /\ \A i \in 1..(k - 1) : Done(sv, message, i)
              /\ \A i \in (k + 1)..Len(message) : Sent(sv, message, i)
              /\ idx = Place(message)[k - 1] + 1
              /\ end = 7 + EncodedLength(message[k].text)
              /\ Decoding(sv, message, k, group)

(* The inductive invariant of the loop.                                    *)
LoopInv ==
  /\ message \in AtobMessages
  /\ BufferIs
  /\ at \in {"find", "decode", "parse", "switch", "idle", "fault"}
  /\ at = "find" => \E k \in 0..Len(message) : Split(sv, message, k)
  /\ at = "decode" => \E k \in 1..Len(message) : Reading(k)
  /\ at \notin {"find", "decode"} => Split(sv, message, Len(message))

(* A message is a sequence of pieces (MessageAssumption).                  *)
LEMMA MessageIs == message \in AtobMessages => message \in Seq(Pieces)
  BY MessageAssumption DEF Pieces

(* The numbers of the k-th piece, when it is a call.                       *)
LEMMA CallAt ==
  ASSUME NEW m \in Seq(Pieces), NEW k \in 1..Len(m), m[k].kind = "atob"
  PROVE  LET o == Place(m)
             n == Len(m)
             text == m[k].text
             E == EncodedLength(m[k].text)
         IN  /\ m[k] \in Pieces /\ text \in Seq(Characters) /\ E \in Nat /\ Len(text) \in Nat
             /\ Groups(text) \in Nat /\ E = 4 * Groups(text)
             /\ Len(text) <= 3 * Groups(text) /\ 3 * Groups(text) <= Len(text) + 2
             /\ Len(text) <= E
             /\ Size(m[k]) = 8 + E
             /\ o[k - 1] \in Nat /\ o[k] \in Nat /\ o[n] \in Nat
             /\ o[k] = o[k - 1] + 8 + E /\ o[k] <= o[n]
<1> DEFINE o == Place(m)
           n == Len(m)
           E == EncodedLength(m[k].text)
<1>1. m[k] \in Pieces
  OBVIOUS
<1>2. m[k].text \in Seq(Characters)
  BY <1>1 DEF Pieces
<1>3. /\ Len(m[k].text) \in Nat /\ Groups(m[k].text) \in Nat /\ E \in Nat /\ E = 4 * Groups(m[k].text)
      /\ Len(m[k].text) <= 3 * Groups(m[k].text) /\ 3 * Groups(m[k].text) <= Len(m[k].text) + 2
      /\ Len(m[k].text) <= E
  BY <1>2, GroupsOf
<1>4. Size(m[k]) = 8 + E
  BY <1>1, CallIs DEF Size
<1>5. /\ n \in Nat /\ \A x \in 0..n : o[x] \in Nat
      /\ \A x \in 1..n : o[x] = o[x - 1] + Size(m[x])
      /\ \A x, y \in 0..n : x <= y => o[x] <= o[y]
  BY PlaceIs
<1> HIDE DEF o, n, E
<1>6. k \in 1..n /\ k - 1 \in 0..n /\ k \in 0..n /\ n \in 0..n /\ k <= n
  BY <1>5 DEF n
<1>7. o[k - 1] \in Nat /\ o[k] \in Nat /\ o[n] \in Nat /\ o[k] = o[k - 1] + Size(m[k]) /\ o[k] <= o[n]
  BY <1>5, <1>6
<1>8. o[k] = o[k - 1] + 8 + E
  <2>1. \A a, e \in Nat : a + (8 + e) = a + 8 + e
    OBVIOUS
  <2>2. E \in Nat /\ o[k - 1] \in Nat
    BY <1>3, <1>7
  <2>3. o[k] = o[k - 1] + (8 + E)
    BY <1>4, <1>7, Zenon
  <2> QED BY <2>1, <2>2, <2>3, Zenon
<1> QED BY <1>1, <1>2, <1>3, <1>4, <1>7, <1>8 DEF o, n, E

(* The first bracket from a call on is its own (gb_parse.cpp:151).         *)
LEMMA BracketIs ==
  ASSUME BufferIs, NEW k \in 1..Len(message), message[k].kind = "atob", Sent(sv, message, k)
  PROVE  Bracket(Place(message)[k - 1] + 1) = 7 + EncodedLength(message[k].text)
<1> DEFINE o == Place(message)
           p == message[k]
           E == EncodedLength(message[k].text)
           c == o[k - 1] + 1
           B == {j \in DOMAIN sv : j >= c /\ sv[j] = Char(")")}
           last == o[k - 1] + (8 + E)
<1>1. /\ p \in Pieces /\ E \in Nat /\ Size(p) = 8 + E
      /\ o[k - 1] \in Nat /\ o[k] = o[k - 1] + 8 + E /\ o[k] <= Len(sv)
  BY CallAt DEF BufferIs
<1>2. DOMAIN sv = 1..Len(sv) /\ Len(sv) \in Nat
  BY DEF BufferIs
<1>3. \A j \in 1..Size(p) : sv[o[k - 1] + j] = Piece(p)[j]
  BY DEF Sent
<1>4. Piece(p)[8 + E] = Char(")")
  BY <1>1, CallIs
<1>5. \A j \in 1..Size(p) : Piece(p)[j] = Char(")") => j = 8 + E
  BY <1>1, CallCells
<1> HIDE DEF o, p, E, B, last, c
<1>c. c = o[k - 1] + 1 /\ last = o[k - 1] + (8 + E)
  BY DEF c, last
<1>b. B = {j \in DOMAIN sv : j >= c /\ sv[j] = Char(")")}
  BY DEF B
<1>6. last \in B
  <2>1. 8 + E \in 1..Size(p) /\ last \in 1..Len(sv) /\ last >= c
    <3>1. \A a, e, len \in Nat : a + 8 + e <= len =>
            /\ 8 + e \in 1..(8 + e) /\ a + (8 + e) \in 1..len /\ a + (8 + e) >= a + 1
      OBVIOUS
    <3> QED BY <1>1, <1>2, <1>c, <3>1
  <2>2. sv[last] = Char(")")
    BY <1>3, <1>4, <1>c, <2>1
  <2> QED BY <1>2, <1>b, <2>1, <2>2
<1>7. ASSUME NEW b \in B, b <= last PROVE b = last
  <2>1. b \in 1..Len(sv) /\ b >= c /\ sv[b] = Char(")")
    BY <1>2, <1>b
  <2>2. b - o[k - 1] \in 1..Size(p) /\ o[k - 1] + (b - o[k - 1]) = b
    <3>1. \A a, e, x \in Nat : a + 1 <= x /\ x <= a + (8 + e) =>
            x - a \in 1..(8 + e) /\ a + (x - a) = x
      OBVIOUS
    <3>2. b \in Nat /\ o[k - 1] + 1 <= b /\ b <= o[k - 1] + (8 + E)
      BY <1>2, <1>7, <1>c, <2>1
    <3> QED BY <1>1, <3>1, <3>2, Zenon
  <2>3. b - o[k - 1] = 8 + E
    BY <1>3, <1>5, <2>1, <2>2
  <2> QED BY <1>1, <1>2, <1>c, <2>1, <2>3
<1>8. B \in SUBSET Nat /\ B # {}
  BY <1>2, <1>6, <1>b
<1>9. Min(B) \in B /\ Min(B) <= last
  BY <1>6, <1>8, LeastIs
<1>10. Min(B) = last
  BY <1>7, <1>9
<1>11. Bracket(c) = Min(B) - c
  BY <1>b DEF Bracket
<1>12. last - c = 7 + E
  BY <1>1, <1>c
<1> QED BY <1>10, <1>11, <1>12, <1>c DEF o, E

(* Plain text needs nothing done.                                          *)
LEMMA PlainSent ==
  ASSUME NEW t, NEW m \in Seq(Pieces), NEW k \in 1..Len(m), m[k].kind = "plain", Sent(t, m, k)
  PROVE  Done(t, m, k)
<1>1. m[k] \in Pieces
  OBVIOUS
<1>2. \A j \in 1..Size(m[k]) : Piece(m[k]) = PlainPiece(m[k])
  BY <1>1, PlainCells
<1> QED BY <1>2 DEF Sent, Done

(* At first nothing is done.                                               *)
LEMMA LoopInit == AtobInit => LoopInv
<1> SUFFICES ASSUME AtobInit PROVE LoopInv
  OBVIOUS
<1>1. /\ message \in AtobMessages /\ sv = Line(message) /\ at = "find"
  BY DEF AtobInit
<1>2. message \in Seq(Pieces)
  BY <1>1, MessageIs
<1>3. /\ Len(message) \in Nat
      /\ Line(message) \in Seq(Cells) /\ Len(Line(message)) = Place(message)[Len(message)]
      /\ \A k \in 1..Len(message) : \A j \in 1..Size(message[k]) :
           Line(message)[Place(message)[k - 1] + j] = Piece(message[k])[j]
  BY <1>2, PlaceIs
<1>4. Split(sv, message, 0)
  BY <1>1, <1>3 DEF Split, Sent
<1>5. 0 \in 0..Len(message)
  BY <1>3
<1> QED BY <1>1, <1>2, <1>3, <1>4, <1>5 DEF LoopInv, BufferIs

(* The first call that is found belongs to the first piece that is not     *)
(* done and not plain (gb_parse.cpp:287-290).                              *)
LEMMA FindKeeps == LoopInv /\ Find => LoopInv'
<1> SUFFICES ASSUME LoopInv, Find PROVE LoopInv'
  OBVIOUS
<1> DEFINE o == Place(message)
           n == Len(message)
<1>1. /\ message \in AtobMessages /\ sv \in Seq(Cells) /\ Len(sv) = o[n]
      /\ at = "find" /\ \E k \in 0..n : Split(sv, message, k)
      /\ message' = message /\ sv' = sv
  BY DEF LoopInv, BufferIs, Find
<1>2. message \in Seq(Pieces)
  BY <1>1, MessageIs
<1>3. PICK k \in 0..n : Split(sv, message, k)
  BY <1>1
<1>4. /\ \A x \in Calls : \E i \in (k + 1)..n : message[i].kind = "atob" /\ x = o[i - 1] + 1
      /\ \A i \in (k + 1)..n : message[i].kind = "atob" => o[i - 1] + 1 \in Calls
  BY <1>1, <1>3, CallsAre DEF LoopInv
<1>5. n \in Nat /\ \A i \in 1..n : message[i].kind \in {"plain", "atob"}
  <2>1. \A i \in 1..n : message[i] \in Pieces
    BY <1>2
  <2> QED BY <1>2, <2>1 DEF Pieces
<1>6. \A i \in (k + 1)..n : i \in 1..n
  BY <1>5
<1>7. \A i \in (k + 1)..n : message[i].kind = "plain" => Done(sv, message, i)
  BY <1>2, <1>3, <1>6, PlainSent DEF Split
<1>8. \A i \in 1..n : i \in 1..k \/ i \in (k + 1)..n
  BY <1>5
<1>9. CASE Calls = {}
  <2>1. \A i \in 1..n : Done(sv, message, i)
    BY <1>3, <1>4, <1>5, <1>6, <1>7, <1>8, <1>9 DEF Split
  <2>2. \A i \in (n + 1)..n : FALSE
    BY <1>5
  <2>3. Split(sv, message, n)
    BY <2>1, <2>2 DEF Split
  <2>4. at' = "parse"
    BY <1>9 DEF Find
  <2> QED BY <1>1, <1>2, <2>3, <2>4 DEF LoopInv, BufferIs
<1>10. CASE Calls # {}
  <2>1. Calls \in SUBSET Nat
    <3>1. DOMAIN sv = 1..Len(sv) /\ Len(sv) \in Nat
      BY <1>1
    <3> QED BY <3>1 DEF Calls
  <2>2. Min(Calls) \in Calls /\ \A c \in Calls : Min(Calls) <= c
    BY <1>10, <2>1, LeastIs
  <2>3. PICK i \in (k + 1)..n : message[i].kind = "atob" /\ Min(Calls) = o[i - 1] + 1
    BY <1>4, <2>2
  <2>4. i \in 1..n /\ Sent(sv, message, i)
    BY <1>3, <1>6 DEF Split
  <2>5. /\ message[i].text \in Seq(Characters) /\ Groups(message[i].text) \in Nat
        /\ message[i] \in Pieces /\ EncodedLength(message[i].text) \in Nat
        /\ Size(message[i]) = 8 + EncodedLength(message[i].text)
        /\ Len(message[i].text) \in Nat
    BY <1>2, <2>3, <2>4, CallAt
  <2>6. ASSUME NEW h \in (k + 1)..(i - 1) PROVE message[h].kind = "plain"
    <3>1. h \in (k + 1)..n /\ h \in 1..n /\ h < i
      BY <1>5, <1>6
    <3>2. SUFFICES ASSUME message[h].kind = "atob" PROVE FALSE
      BY <1>5, <3>1
    <3>3. o[i - 1] + 1 <= o[h - 1] + 1
      BY <1>4, <2>2, <2>3, <3>1, <3>2
    <3>4. /\ o[h] = o[h - 1] + 8 + EncodedLength(message[h].text)
          /\ EncodedLength(message[h].text) \in Nat /\ o[h - 1] \in Nat /\ o[h] \in Nat
      BY <1>2, <3>1, <3>2, CallAt
    <3>5. o[h] <= o[i - 1] /\ o[i - 1] \in Nat
      <4>1. /\ \A x \in 0..n : o[x] \in Nat
            /\ \A x, y \in 0..n : x <= y => o[x] <= o[y]
        BY <1>2, PlaceIs
      <4>2. h \in 0..n /\ i - 1 \in 0..n /\ h <= i - 1
        BY <1>5, <2>4, <3>1
      <4> QED BY <4>1, <4>2
    <3>6. \A a, c, d, e \in Nat : ~(a + 1 <= c + 1 /\ d = c + 8 + e /\ d <= a)
      OBVIOUS
    <3> HIDE DEF o
    <3> QED BY <3>3, <3>4, <3>5, <3>6
  <2>7. \A h \in 1..(i - 1) : Done(sv, message, h)
    <3>1. \A h \in 1..(i - 1) : h \in 1..k \/ (h \in (k + 1)..(i - 1) /\ h \in (k + 1)..n)
      BY <1>5, <2>4
    <3> QED BY <1>3, <1>7, <2>6, <3>1 DEF Split
  <2>8. \A h \in (i + 1)..n : Sent(sv, message, h)
    <3>1. \A h \in (i + 1)..n : h \in (k + 1)..n
      BY <1>5, <2>3
    <3> QED BY <1>3, <3>1 DEF Split
  <2>9. Decoding(sv, message, i, 0)
    <3>1. \A j \in 1..EncodedLength(message[i].text) :
            sv[o[i - 1] + 6 + j] = Letter(message[i].text, j)
      <4>1. \A j \in 1..EncodedLength(message[i].text) : Piece(message[i])[6 + j] = Letter(message[i].text, j)
        BY <2>3, <2>5, CallIs
      <4>2. \A j \in 1..EncodedLength(message[i].text) : 6 + j \in 1..Size(message[i])
        BY <2>5
      <4>3. o[i - 1] \in Nat
        BY <1>2, <2>3, <2>4, CallAt
      <4>4. \A j \in 1..EncodedLength(message[i].text) : o[i - 1] + 6 + j = o[i - 1] + (6 + j)
        <5>1. \A x, j \in Nat : x + 6 + j = x + (6 + j)
          OBVIOUS
        <5> QED BY <4>3, <5>1
      <4> QED BY <2>4, <4>1, <4>2, <4>4 DEF Sent
    <3>2. \A j \in 1..Len(message[i].text) : ~(j <= 3 * 0)
      BY <2>5
    <3>3. 0 \in 0..Groups(message[i].text)
      BY <2>5
    <3> QED BY <3>1, <3>2, <3>3 DEF Decoding
  <2>11. Bracket(o[i - 1] + 1) = 7 + EncodedLength(message[i].text)
    BY <1>1, <2>3, <2>4, BracketIs DEF LoopInv
  <2>12. /\ at' = "decode" /\ group' = 0 /\ idx' = o[i - 1] + 1
         /\ end' = 7 + EncodedLength(message[i].text)
    BY <1>10, <2>3, <2>11 DEF Find
  <2>13. Reading(i)'
    BY <1>1, <2>3, <2>7, <2>8, <2>9, <2>12 DEF Reading, Done, Sent, Decoding
  <2> QED BY <1>1, <1>2, <2>4, <2>13, <2>12 DEF LoopInv, BufferIs
<1> QED BY <1>9, <1>10

(* What is written to the buffer is characters, within its length.         *)
LEMMA WrittenCells ==
  ASSUME NEW t \in Seq(Cells), NEW u, DOMAIN u = DOMAIN t,
         \A x \in DOMAIN t : u[x] = t[x] \/ u[x] \in Cells,
         u = [x \in DOMAIN t |-> u[x]]
  PROVE  u \in Seq(Cells) /\ Len(u) = Len(t)
<1>1. DOMAIN t = 1..Len(t) /\ Len(t) \in Nat /\ \A x \in 1..Len(t) : t[x] \in Cells
  OBVIOUS
<1>2. \A x \in 1..Len(t) : u[x] \in Cells
  BY <1>1
<1>3. u \in [1..Len(t) -> Cells]
  BY <1>1, <1>2
<1>4. \A m \in Nat : \A f \in [1..m -> Cells] : f \in Seq(Cells) /\ Len(f) = m
  OBVIOUS
<1> QED BY <1>1, <1>3, <1>4

(* base64_decode reads four letters that are still as they were received,  *)
(* and writes the up to three characters they stand for                    *)
(* (gb_parse.cpp:152-159).                                                 *)
LEMMA DecodeIs ==
  ASSUME BufferIs, NEW k \in 1..Len(message), Reading(k), Decode
  PROVE  LET o == Place(message)[k - 1]
             text == message[k].text
         IN  \E b \in Nat :
               /\ group < Groups(text)
               /\ b <= 3 * group + 3 /\ b <= Len(text) /\ b > 3 * group
               /\ b = 3 * group + 3 \/ b = Len(text)
               /\ sv' = [x \in DOMAIN sv |-> IF o + 2 + 3 * group <= x /\ x <= o + 1 + b
                                             THEN Char(text[x - o - 1]) ELSE sv[x]]
<1> DEFINE o == Place(message)[k - 1]
           text == message[k].text
           T == Len(text)
           E == EncodedLength(text)
           G == Groups(text)
           b == Min({3 * group + 3, T})
<1>1. /\ text \in Seq(Characters) /\ E \in Nat /\ T \in Nat /\ G \in Nat /\ E = 4 * G
      /\ T <= 3 * G /\ 3 * G <= T + 2 /\ o \in Nat
  BY CallAt DEF BufferIs, Reading
<1>2. /\ group \in 0..G
      /\ \A j \in 1..E : j + 5 > 3 * group => sv[o + 6 + j] = Letter(text, j)
  BY DEF Reading, Decoding
<1>3. idx = o + 1 /\ end = 7 + E /\ 4 * group < end - 7
  BY DEF Reading, Decode, Payload
<1> HIDE DEF o, T, E, G, text
<1>4. group \in Nat /\ group < G /\ 3 * group < T
  BY <1>1, <1>2, <1>3
<1>5. Source.text = text
  <2>1. 4 * group + 1 \in 1..E /\ (4 * group + 1) + 5 > 3 * group
    BY <1>1, <1>4
  <2>2. sv[o + 6 + (4 * group + 1)] = Letter(text, 4 * group + 1)
    BY <1>2, <2>1
  <2>3. In(4 * group) = o + 6 + (4 * group + 1)
    BY <1>1, <1>3, <1>4 DEF In
  <2>4. Source = Letter(text, 4 * group + 1)
    BY <2>2, <2>3 DEF Source
  <2>5. \A x, y : Letter(x, y).text = x
    BY DEF Letter
  <2> QED BY <2>4, <2>5
<1>6. b \in {3 * group + 3, T} /\ b <= 3 * group + 3 /\ b <= T
  <2>1. {3 * group + 3, T} \in SUBSET Nat
    BY <1>1, <1>4
  <2> HIDE DEF b
  <2>2. b \in {3 * group + 3, T} /\ \A x \in {3 * group + 3, T} : b <= x
    BY <2>1, LeastIs DEF b
  <2> QED BY <2>2
<1>7. b \in Nat /\ b > 3 * group /\ (b = 3 * group + 3 \/ b = T)
  BY <1>1, <1>4, <1>6
<1>8. Decoded3 = SubSeq(text, 3 * group + 1, b)
  BY <1>5 DEF Decoded3, T, b
<1> HIDE DEF b
<1>9. Len(Decoded3) = b - 3 * group /\ \A d \in 1..(b - 3 * group) : Decoded3[d] = text[3 * group + d]
  <2>1. \A d \in (3 * group + 1)..b : text[d] \in Characters
    BY <1>1, <1>4, <1>6, <1>7 DEF T
  <2>2. 3 * group + 1 \in Int /\ b \in Int /\ 3 * group + 1 <= b
    BY <1>4, <1>7
  <2>3. /\ Len(SubSeq(text, 3 * group + 1, b)) = b - (3 * group + 1) + 1
        /\ \A d \in 1..(b - (3 * group + 1) + 1) :
             SubSeq(text, 3 * group + 1, b)[d] = text[(3 * group + 1) + d - 1]
    BY <2>1, <2>2, SubSeqProperties
  <2>4. /\ b - (3 * group + 1) + 1 = b - 3 * group
        /\ \A d \in 1..(b - 3 * group) : (3 * group + 1) + d - 1 = 3 * group + d
    BY <1>4, <1>7
  <2> QED BY <1>8, <2>3, <2>4
<1>10. sv' = [x \in DOMAIN sv |->
                IF x - Out(3 * group) \in 0..(Len(Decoded3) - 1)
                THEN Char(Decoded3[x - Out(3 * group) + 1]) ELSE sv[x]]
  BY DEF Decode
<1>11. Out(3 * group) = o + 2 + 3 * group
  BY <1>1, <1>3, <1>4 DEF Out
<1>12. ASSUME NEW x \in DOMAIN sv
       PROVE  (IF x - Out(3 * group) \in 0..(Len(Decoded3) - 1)
               THEN Char(Decoded3[x - Out(3 * group) + 1]) ELSE sv[x])
              = (IF o + 2 + 3 * group <= x /\ x <= o + 1 + b
                 THEN Char(text[x - o - 1]) ELSE sv[x])
  <2>1. x \in Nat
    BY DEF BufferIs
  <2>2. x - Out(3 * group) \in 0..(Len(Decoded3) - 1) <=> o + 2 + 3 * group <= x /\ x <= o + 1 + b
    BY <1>1, <1>4, <1>7, <1>9, <1>11, <2>1
  <2>3. CASE o + 2 + 3 * group <= x /\ x <= o + 1 + b
    <3>1. /\ x - Out(3 * group) + 1 \in 1..(b - 3 * group)
          /\ 3 * group + (x - Out(3 * group) + 1) = x - o - 1
      BY <1>1, <1>4, <1>7, <1>11, <2>1, <2>3
    <3>2. Decoded3[x - Out(3 * group) + 1] = text[x - o - 1]
      BY <1>9, <3>1
    <3> QED BY <2>2, <2>3, <3>2
  <2>4. CASE ~(o + 2 + 3 * group <= x /\ x <= o + 1 + b)
    BY <2>2, <2>4
  <2> QED BY <2>3, <2>4
<1>13. sv' = [x \in DOMAIN sv |-> IF o + 2 + 3 * group <= x /\ x <= o + 1 + b
                                  THEN Char(text[x - o - 1]) ELSE sv[x]]
  BY <1>10, <1>12, Zenon
<1> QED BY <1>4, <1>6, <1>7, <1>13 DEF o, T, text, G

(* What is written within the call leaves the other pieces as they are.    *)
LEMMA OthersStay ==
  ASSUME BufferIs, NEW k \in 1..Len(message), Reading(k),
         message' = message, sv' \in Seq(Cells),
         \A x \in DOMAIN sv :
           x <= Place(message)[k - 1] \/ x > Place(message)[k] => sv'[x] = sv[x]
  PROVE  /\ \A i \in 1..(k - 1) : Done(sv', message, i)
         /\ \A i \in (k + 1)..Len(message) : Sent(sv', message, i)
<1>1. message \in Seq(Pieces) /\ DOMAIN sv = 1..Place(message)[Len(message)] /\ Len(message) \in Nat
  BY DEF BufferIs
<1>2. /\ \A i \in 1..(k - 1) : i \in 1..Len(message) /\ i # k /\ Done(sv, message, i)
      /\ \A i \in (k + 1)..Len(message) : i \in 1..Len(message) /\ i # k /\ Sent(sv, message, i)
  BY <1>1 DEF Reading
<1>3. \A x \in 1..Place(message)[Len(message)] :
        x <= Place(message)[k - 1] \/ x > Place(message)[k] => sv'[x] = sv[x]
  BY <1>1
<1>4. \A i \in 1..Len(message) :
        i # k => (Done(sv, message, i) => Done(sv', message, i)) /\ (Sent(sv, message, i) => Sent(sv', message, i))
  BY <1>1, <1>3, OthersKept
<1> QED BY <1>2, <1>4

(* The characters overwrite only what has been read: character j goes      *)
(* where letter j - 5 stood.                                               *)
LEMMA DecodeKeeps == LoopInv /\ Decode => LoopInv'
<1> SUFFICES ASSUME LoopInv, Decode PROVE LoopInv'
  OBVIOUS
<1>1. /\ BufferIs /\ message \in AtobMessages /\ at = "decode" /\ at' = "decode"
      /\ message' = message /\ group' = group + 1 /\ idx' = idx /\ end' = end
  BY DEF LoopInv, Decode
<1>2. PICK k \in 1..Len(message) : Reading(k)
  BY <1>1 DEF LoopInv
<1> DEFINE o == Place(message)[k - 1]
           text == message[k].text
           T == Len(text)
           E == EncodedLength(text)
           G == Groups(text)
           g == group
<1>3. message \in Seq(Pieces) /\ sv \in Seq(Cells) /\ DOMAIN sv = 1..Len(sv) /\ Len(sv) = Place(message)[Len(message)]
  BY <1>1 DEF BufferIs
<1>4. /\ text \in Seq(Characters) /\ E \in Nat /\ T \in Nat /\ G \in Nat /\ T <= E /\ o \in Nat
      /\ Len(sv) \in Nat /\ Place(message)[k] = o + 8 + E /\ o + 8 + E <= Len(sv)
  <2>1. message[k].kind = "atob"
    BY <1>2 DEF Reading
  <2> QED BY <1>3, <2>1, CallAt
<1>5. PICK b \in Nat :
        /\ g < G /\ b <= 3 * g + 3 /\ b <= T /\ b > 3 * g
        /\ b = 3 * g + 3 \/ b = T
        /\ sv' = [x \in DOMAIN sv |-> IF o + 2 + 3 * g <= x /\ x <= o + 1 + b
                                      THEN Char(text[x - o - 1]) ELSE sv[x]]
  BY <1>1, <1>2, DecodeIs
<1>6. /\ g \in 0..G
      /\ \A j \in 1..T : j <= 3 * g => sv[o + 1 + j] = Char(text[j])
      /\ \A j \in 1..E : j + 5 > 3 * g => sv[o + 6 + j] = Letter(text, j)
  BY <1>2 DEF Reading, Decoding
<1> HIDE DEF o, T, E, G, text
<1>7. g \in Nat
  BY <1>4, <1>6
<1> HIDE DEF g
<1>8. sv' \in Seq(Cells) /\ Len(sv') = Len(sv)
  <2>1. ASSUME NEW x \in DOMAIN sv PROVE sv'[x] = sv[x] \/ sv'[x] \in Cells
    <3>1. CASE o + 2 + 3 * g <= x /\ x <= o + 1 + b
      <4>1. x - o - 1 \in 1..T
        BY <1>3, <1>4, <1>5, <1>7, <3>1
      <4>2. text[x - o - 1] \in Characters
        BY <1>4, <4>1 DEF T
      <4>3. sv'[x] = Char(text[x - o - 1])
        BY <1>5, <3>1
      <4> QED BY <4>2, <4>3, CellsOf, ZenonT(30)
    <3>2. CASE ~(o + 2 + 3 * g <= x /\ x <= o + 1 + b)
      BY <1>5, <3>2
    <3> QED BY <3>1, <3>2
  <2>2. DOMAIN sv' = DOMAIN sv /\ sv' = [x \in DOMAIN sv |-> sv'[x]]
    BY <1>5
  <2> QED BY <1>3, <2>1, <2>2, WrittenCells
<1>9. \A x \in DOMAIN sv : x < o + 2 + 3 * g \/ x > o + 1 + b => sv'[x] = sv[x]
  BY <1>3, <1>4, <1>5, <1>7
<1>10. \A x \in DOMAIN sv : x <= o \/ x > o + 8 + E => sv'[x] = sv[x]
  <2>1. \A x \in Nat : x <= o \/ x > o + 8 + E => x < o + 2 + 3 * g \/ x > o + 1 + b
    BY <1>4, <1>5, <1>7
  <2> QED BY <1>3, <1>9, <2>1
<1>11. /\ \A i \in 1..(k - 1) : Done(sv', message, i)
       /\ \A i \in (k + 1)..Len(message) : Sent(sv', message, i)
  BY <1>1, <1>2, <1>4, <1>8, <1>10, OthersStay DEF o
<1>12. ASSUME NEW j \in 1..T, j <= 3 * (g + 1) PROVE sv'[o + 1 + j] = Char(text[j])
  <2>1. o + 1 + j \in DOMAIN sv
    BY <1>3, <1>4
  <2>2. CASE j <= 3 * g
    <3>1. o + 1 + j < o + 2 + 3 * g
      BY <1>4, <1>7, <2>2
    <3> QED BY <1>6, <1>9, <2>1, <2>2, <3>1
  <2>3. CASE j > 3 * g
    <3>1. /\ o + 2 + 3 * g <= o + 1 + j /\ o + 1 + j <= o + 1 + b
          /\ (o + 1 + j) - o - 1 = j
      BY <1>4, <1>5, <1>7, <1>12, <2>3
    <3> QED BY <1>5, <2>1, <3>1
  <2> QED BY <1>4, <1>7, <2>2, <2>3
<1>13. ASSUME NEW j \in 1..E, j + 5 > 3 * (g + 1) PROVE sv'[o + 6 + j] = Letter(text, j)
  <2>1. o + 6 + j \in DOMAIN sv /\ o + 6 + j > o + 1 + b /\ j + 5 > 3 * g
    BY <1>3, <1>4, <1>5, <1>7, <1>13
  <2> QED BY <1>6, <1>9, <2>1
<1>14. g + 1 \in 0..G
  BY <1>4, <1>5, <1>7
<1>15. Decoding(sv', message, k, g + 1)
  BY <1>12, <1>13, <1>14 DEF Decoding, o, T, E, G, text
<1>16. Reading(k)'
  BY <1>1, <1>2, <1>11, <1>15 DEF Reading, Done, Sent, Decoding, g
<1>17. BufferIs'
  BY <1>1, <1>3, <1>8 DEF BufferIs
<1> QED BY <1>1, <1>16, <1>17 DEF LoopInv

(* The memset and the quotation marks are placed by the length of the text *)
(* (gb_parse.cpp:161-163),                                                 *)
LEMMA FinishIs ==
  ASSUME BufferIs, NEW k \in 1..Len(message), Reading(k), Finish
  PROVE  LET o == Place(message)[k - 1]
             T == Len(message[k].text)
             E == EncodedLength(message[k].text)
         IN  /\ group = Groups(message[k].text)
             /\ sv' = [x \in DOMAIN sv |->
                         IF x = o + 1 \/ x = o + 2 + T THEN Char("quote")
                         ELSE IF o + 2 + T < x /\ x <= o + 8 + E THEN Char("blank")
                         ELSE sv[x]]
<1> DEFINE o == Place(message)[k - 1]
           text == message[k].text
           T == Len(text)
           E == EncodedLength(text)
           G == Groups(text)
<1>1. /\ text \in Seq(Characters) /\ E \in Nat /\ T \in Nat /\ G \in Nat /\ E = 4 * G
      /\ T <= 3 * G /\ 3 * G <= T + 2 /\ o \in Nat
  BY CallAt DEF BufferIs, Reading
<1>2. /\ group \in 0..G
      /\ \A j \in 1..E : j + 5 > 3 * group => sv[o + 6 + j] = Letter(text, j)
  BY DEF Reading, Decoding
<1>3. idx = o + 1 /\ end = 7 + E /\ 4 * group >= end - 7
  BY DEF Reading, Finish, Payload
<1>4. sv' = [x \in DOMAIN sv |->
              IF x = Out(-1) \/ x = Out(DecodedLength) THEN Char("quote")
              ELSE IF Out(DecodedLength) < x /\ x <= idx + end THEN Char("blank")
              ELSE sv[x]]
  BY DEF Finish
<1> HIDE DEF o, T, E, G, text
<1>5. group = G
  BY <1>1, <1>2, <1>3
<1>6. DecodedLength = T
  <2>1. CASE G = 0
    BY <1>1, <1>5, <2>1 DEF DecodedLength
  <2>2. CASE G # 0
    <3>1. 4 * G \in 1..E /\ 4 * G + 5 > 3 * group
      BY <1>1, <1>5, <2>2
    <3>2. sv[o + 6 + 4 * G] = Letter(text, 4 * G)
      BY <1>2, <3>1
    <3>3. In(4 * group - 1) = o + 6 + 4 * G
      BY <1>1, <1>3, <1>5 DEF In
    <3>4. \A x, y : Letter(x, y).text = x
      BY DEF Letter
    <3> QED BY <1>5, <2>2, <3>2, <3>3, <3>4 DEF DecodedLength, T
  <2> QED BY <2>1, <2>2
<1>7. Out(-1) = o + 1 /\ Out(DecodedLength) = o + 2 + T /\ idx + end = o + 8 + E
  BY <1>1, <1>3, <1>6 DEF Out
<1> QED BY <1>4, <1>5, <1>7 DEF o, T, E, G, text

(* and complete the piece.                                                 *)
LEMMA FinishKeeps == LoopInv /\ Finish => LoopInv'
<1> SUFFICES ASSUME LoopInv, Finish PROVE LoopInv'
  OBVIOUS
<1>1. /\ BufferIs /\ message \in AtobMessages /\ at = "decode" /\ at' = "find"
      /\ message' = message
  BY DEF LoopInv, Finish
<1>2. PICK k \in 1..Len(message) : Reading(k)
  BY <1>1 DEF LoopInv
<1> DEFINE o == Place(message)[k - 1]
           p == message[k]
           text == message[k].text
           T == Len(text)
           E == EncodedLength(text)
           G == Groups(text)
<1>3. message \in Seq(Pieces) /\ sv \in Seq(Cells) /\ DOMAIN sv = 1..Len(sv) /\ Len(sv) = Place(message)[Len(message)]
  BY <1>1 DEF BufferIs
<1>4. /\ E \in Nat /\ T \in Nat /\ G \in Nat /\ T <= E /\ T <= 3 * G /\ o \in Nat
      /\ p \in Pieces /\ p.kind = "atob" /\ Size(p) = 8 + E
      /\ Len(sv) \in Nat /\ Place(message)[k] = o + 8 + E /\ o + 8 + E <= Len(sv)
  <2>1. message[k].kind = "atob"
    BY <1>2 DEF Reading
  <2> QED BY <1>3, <2>1, CallAt
<1>5. /\ group = G
      /\ sv' = [x \in DOMAIN sv |->
                  IF x = o + 1 \/ x = o + 2 + T THEN Char("quote")
                  ELSE IF o + 2 + T < x /\ x <= o + 8 + E THEN Char("blank")
                  ELSE sv[x]]
  BY <1>1, <1>2, FinishIs
<1>6. \A j \in 1..T : j <= 3 * group => sv[o + 1 + j] = Char(text[j])
  BY <1>2 DEF Reading, Decoding
<1>7. /\ PlainPiece(p)[1] = Char("quote")
      /\ \A j \in 1..T : PlainPiece(p)[1 + j] = Char(text[j])
      /\ PlainPiece(p)[T + 2] = Char("quote")
      /\ \A j \in (T + 3)..(8 + E) : PlainPiece(p)[j] = Char("blank")
  BY <1>4, DecodedIs
<1> HIDE DEF o, T, E, G, text, p
<1>8. sv' \in Seq(Cells) /\ Len(sv') = Len(sv)
  <2>1. Char("quote") \in Cells /\ Char("blank") \in Cells
    BY CellsOf DEF Characters
  <2>2. \A x \in DOMAIN sv : sv'[x] = sv[x] \/ sv'[x] \in Cells
    BY <1>5, <2>1
  <2>3. DOMAIN sv' = DOMAIN sv /\ sv' = [x \in DOMAIN sv |-> sv'[x]]
    BY <1>5
  <2> QED BY <1>3, <2>2, <2>3, WrittenCells
<1>9. \A x \in DOMAIN sv : x <= o \/ x > o + 8 + E => sv'[x] = sv[x]
  <2>1. \A x \in Nat : x <= o \/ x > o + 8 + E =>
          x # o + 1 /\ x # o + 2 + T /\ ~(o + 2 + T < x /\ x <= o + 8 + E)
    BY <1>4
  <2> QED BY <1>3, <1>5, <2>1
<1>10. /\ \A i \in 1..(k - 1) : Done(sv', message, i)
       /\ \A i \in (k + 1)..Len(message) : Sent(sv', message, i)
  BY <1>1, <1>2, <1>4, <1>8, <1>9, OthersStay DEF o
<1>11. ASSUME NEW j \in 1..Size(p) PROVE sv'[o + j] = PlainPiece(p)[j]
  <2>1. j \in 1..(8 + E) /\ o + j \in DOMAIN sv
    BY <1>3, <1>4
  <2>2. CASE j = 1 \/ j = T + 2
    <3>1. o + j = o + 1 \/ o + j = o + 2 + T
      BY <1>4, <2>2
    <3> QED BY <1>5, <1>7, <2>1, <2>2, <3>1
  <2>3. CASE j \in (T + 3)..(8 + E)
    <3>1. /\ o + j # o + 1 /\ o + j # o + 2 + T /\ o + 2 + T < o + j /\ o + j <= o + 8 + E
      BY <1>4, <2>1, <2>3
    <3> QED BY <1>5, <1>7, <2>1, <2>3, <3>1
  <2>4. CASE j - 1 \in 1..T
    <3>1. /\ o + j # o + 1 /\ o + j # o + 2 + T /\ ~(o + 2 + T < o + j)
          /\ o + j = o + 1 + (j - 1) /\ 1 + (j - 1) = j /\ j - 1 <= 3 * group
      BY <1>4, <1>5, <2>1, <2>4
    <3>2. sv'[o + j] = sv[o + j]
      BY <1>5, <2>1, <3>1
    <3>3. sv[o + 1 + (j - 1)] = Char(text[j - 1]) /\ PlainPiece(p)[1 + (j - 1)] = Char(text[j - 1])
      BY <1>6, <1>7, <2>4, <3>1
    <3> QED BY <3>1, <3>2, <3>3
  <2>5. j = 1 \/ j = T + 2 \/ j \in (T + 3)..(8 + E) \/ j - 1 \in 1..T
    BY <1>4, <2>1
  <2> QED BY <2>2, <2>3, <2>4, <2>5
<1>12. Done(sv', message, k)
  BY <1>11 DEF Done, o, p
<1>13. Len(message) \in Nat /\ k \in 0..Len(message)
  BY <1>3
<1>14. Split(sv', message, k)
  <2>1. \A i \in 1..k : i = k \/ i \in 1..(k - 1)
    BY <1>13
  <2> QED BY <1>10, <1>12, <2>1 DEF Split
<1>15. BufferIs'
  BY <1>1, <1>3, <1>8 DEF BufferIs
<1> QED BY <1>1, <1>13, <1>14, <1>15 DEF LoopInv

(* Every step of MsgSpec: behind the loop nothing writes to the buffer.    *)
LEMMA LoopNextInv == LoopInv /\ [MsgNext]_msgVars => LoopInv'
<1> SUFFICES ASSUME LoopInv, [MsgNext]_msgVars PROVE LoopInv'
  OBVIOUS
<1>1. CASE Loop
  BY <1>1, FindKeeps, DecodeKeeps, FinishKeeps DEF Loop
<1>2. CASE ParseBase \/ Switch \/ Astray
  <2>1. /\ UNCHANGED <<message, sv>>
        /\ at \in {"parse", "switch"} /\ at' \in {"switch", "idle", "fault"}
    BY <1>2 DEF ParseBase, Switch, Astray
  <2> QED BY <2>1 DEF LoopInv, BufferIs, Split, Done, Sent
<1>3. CASE UNCHANGED msgVars
  <2>1. UNCHANGED <<message, sv, at, idx, end, group>>
    BY <1>3 DEF msgVars, atobVars
  <2>2. BufferIs' /\ \A k \in 0..Len(message) : Split(sv, message, k) => Split(sv, message, k)'
    BY <2>1 DEF LoopInv, BufferIs, Split, Done, Sent
  <2>3. \A k \in 1..Len(message) : Reading(k) => Reading(k)'
    BY <2>1 DEF Reading, Decoding, Done, Sent
  <2>4. at \notin {"find", "decode"} => Split(sv, message, Len(message))'
    BY <2>1 DEF LoopInv, Split, Done, Sent
  <2> QED BY <2>1, <2>2, <2>3, <2>4 DEF LoopInv
<1> QED BY <1>1, <1>2, <1>3 DEF MsgNext, Replace

(* What AtobInv says is part of the invariant.                             *)
LEMMA LoopAtobInv == LoopInv => AtobInv
<1> SUFFICES ASSUME LoopInv PROVE AtobInv
  OBVIOUS
<1>1. /\ BufferIs /\ message \in AtobMessages
      /\ message \in Seq(Pieces) /\ Len(sv) = Place(message)[Len(message)]
  BY DEF LoopInv, BufferIs
<1>2. Len(Line(message)) = Place(message)[Len(message)]
  BY <1>1, PlaceIs
<1>3. ASSUME at = "decode"
      PROVE  /\ idx + end <= Len(sv) /\ Payload \in Nat
             /\ \E i \in DOMAIN message :
                  /\ Payload = EncodedLength(message[i].text)
                  /\ \A c \in (4 * group)..(Payload - 1) : sv[In(c)] = Letter(message[i].text, c + 1)
  <2>1. PICK k \in 1..Len(message) : Reading(k)
    BY <1>3 DEF LoopInv
  <2> DEFINE o == Place(message)[k - 1]
             text == message[k].text
             E == EncodedLength(text)
             G == Groups(text)
  <2>2. /\ message[k].kind = "atob" /\ idx = o + 1 /\ end = 7 + E /\ group \in 0..G
        /\ \A j \in 1..E : j + 5 > 3 * group => sv[o + 6 + j] = Letter(text, j)
    BY <2>1 DEF Reading, Decoding
  <2>3. /\ E \in Nat /\ G \in Nat /\ o \in Nat /\ o + 8 + E <= Len(sv) /\ Len(sv) \in Nat
    BY <1>1, <2>2, CallAt
  <2>4. k \in DOMAIN message
    BY <1>1
  <2> HIDE DEF o, E, G, text
  <2>5. idx + end <= Len(sv) /\ Payload = E
    BY <2>2, <2>3 DEF Payload
  <2>6. ASSUME NEW c \in (4 * group)..(E - 1) PROVE sv[In(c)] = Letter(text, c + 1)
    <3>1. c + 1 \in 1..E /\ (c + 1) + 5 > 3 * group /\ In(c) = o + 6 + (c + 1)
      BY <2>2, <2>3 DEF In
    <3> QED BY <2>2, <3>1
  <2> QED BY <2>3, <2>4, <2>5, <2>6 DEF E, text
<1> QED BY <1>1, <1>2, <1>3 DEF AtobInv

(* When every piece is done, the buffer is PlainLine.                      *)
LEMMA LoopAllReplaced == LoopInv => AllReplaced
<1> SUFFICES ASSUME LoopInv, at \notin {"find", "decode"} PROVE sv = PlainLine(message)
  BY DEF AllReplaced
<1> DEFINE o == Place(message)
           n == Len(message)
<1>1. /\ message \in Seq(Pieces) /\ sv \in Seq(Cells) /\ Len(sv) = o[n] /\ Split(sv, message, n)
  BY DEF LoopInv, BufferIs
<1>2. /\ PlainLine(message) \in Seq(Cells) /\ Len(PlainLine(message)) = o[n]
      /\ \A k \in 1..n : \A j \in 1..Size(message[k]) : PlainLine(message)[o[k - 1] + j] = PlainPiece(message[k])[j]
      /\ \A x \in 1..o[n] : \E k \in 1..n : \E j \in 1..Size(message[k]) : x = o[k - 1] + j
  BY <1>1, PlaceIs
<1>3. \A k \in 1..n : \A j \in 1..Size(message[k]) : sv[o[k - 1] + j] = PlainPiece(message[k])[j]
  BY <1>1 DEF Split, Done
<1> HIDE DEF o, n
<1>4. \A x \in 1..o[n] : sv[x] = PlainLine(message)[x]
  <2> TAKE x \in 1..o[n]
  <2>1. PICK k \in 1..n : \E j \in 1..Size(message[k]) : x = o[k - 1] + j
    BY <1>2
  <2>2. PICK j \in 1..Size(message[k]) : x = o[k - 1] + j
    BY <2>1
  <2> QED BY <1>2, <1>3, <2>2
<1> QED BY <1>1, <1>2, <1>4, SeqEqual

(* The loop of dump_gb replaces the calls of a message from the first to   *)
(* the last, each in place (gb_parse.cpp:284-290).                         *)
THEOREM LoopInvariant == MsgSpec => []LoopInv
<1>1. MsgInit => LoopInv
  BY LoopInit DEF MsgInit
<1> QED BY <1>1, LoopNextInv, PTL DEF MsgSpec

(* The text that is written never overtakes the letters that are still to  *)
(* be read, in messages of any length with texts of any length             *)
(* (gb_parse.cpp:151-159).                                                 *)
THEOREM CallWhole == MsgSpec => []AtobInv
  BY LoopInvariant, LoopAtobInv, PTL

(* The buffer that is parsed is the message with every call replaced by    *)
(* its text, in order, and nothing else touched (gb_parse.cpp:286-290).    *)
THEOREM TextReplaced == MsgSpec => []AllReplaced
  BY LoopInvariant, LoopAllReplaced, PTL

-----------------------------------------------------------------------------
(* What is logged of it (GbMessage).                                       *)

(* A descriptor and the lines that are logged for its bits: each line      *)
(* prints the member that the field of its own label fills.                *)
Matched(desc, lines) ==
  /\ DOMAIN desc = DOMAIN lines
  /\ \A i \in DOMAIN lines : /\ desc[i].member = lines[i][2]
                             /\ desc[i].name = Meaning[lines[i][1]]
  /\ \A i, j \in DOMAIN lines : desc[i].member = desc[j].member => i = j

LEMMA ManyFields ==
  /\ \A a : Opaque(<<a>>) = <<D(a, "OPAQUE")>> /\ Numbers(<<a>>) = <<D(a, "NUMBER")>>
  /\ \A a, c, g : /\ Opaque(<<a, c, g>>) = <<D(a, "OPAQUE"), D(c, "OPAQUE"), D(g, "OPAQUE")>>
                  /\ Numbers(<<a, c, g>>) = <<D(a, "NUMBER"), D(c, "NUMBER"), D(g, "NUMBER")>>
  /\ \A a, c, g, h, k : Opaque(<<a, c, g, h, k>>) =
       <<D(a, "OPAQUE"), D(c, "OPAQUE"), D(g, "OPAQUE"), D(h, "OPAQUE"), D(k, "OPAQUE")>>
  BY DEF Opaque, Numbers

LEMMA Field ==
  /\ \A a, tok : D(a, tok).name = a /\ D(a, tok).member = a /\ D(a, tok).tok = tok
  /\ \A a, c, tok : Named(a, c, tok).name = a /\ Named(a, c, tok).member = c /\ Named(a, c, tok).tok = tok
  BY DEF D, Named

LEMMA Labelled ==
  /\ Meaning["ID"] = "id" /\ Meaning["Title"] = "title" /\ Meaning["Subject"] = "subject"
  /\ Meaning["Body"] = "body" /\ Meaning["Sender"] = "sender" /\ Meaning["Tel"] = "tel"
  /\ Meaning["CMD"] = "cmd" /\ Meaning["Name"] = "name" /\ Meaning["Number"] = "number"
  /\ Meaning["Resp"] = "resp" /\ Meaning["Err"] = "err" /\ Meaning["Artist"] = "artist"
  /\ Meaning["Album"] = "album" /\ Meaning["Track"] = "track" /\ Meaning["Duration"] = "dur"
  /\ Meaning["TrackCount"] = "c" /\ Meaning["TrackNumber"] = "n" /\ Meaning["State"] = "state"
  /\ Meaning["Position"] = "position" /\ Meaning["Shuffle"] = "shuffle" /\ Meaning["Repeat"] = "repeat"
  BY DEF Meaning

LEMMA NotifyMatched == Matched(notify, dump_notify)
<1> DEFINE c1 == D("id", "NUMBER")
           c2 == D("title", "OPAQUE")
           c3 == D("subject", "OPAQUE")
           c4 == D("body", "OPAQUE")
           c5 == D("sender", "OPAQUE")
           c6 == D("tel", "OPAQUE")
           s == <<c1>>
           r == <<c2, c3, c4, c5, c6>>
<1>0. notify = s \o r
  <2>1. Numbers(<<"id">>) = s
    BY ManyFields
  <2>2. Opaque(<<"title", "subject", "body", "sender", "tel">>) = r
    BY ManyFields
  <2> QED BY <2>1, <2>2 DEF notify
<1>1. /\ notify[1] = c1
      /\ notify[2] = c2
      /\ notify[3] = c3
      /\ notify[4] = c4
      /\ notify[5] = c5
      /\ notify[6] = c6
      /\ Len(notify) = 6 /\ DOMAIN notify = 1..6
  <2> HIDE DEF c1, c2, c3, c4, c5, c6
  <2>1. s \in Seq({c1, c2, c3, c4, c5, c6}) /\ r \in Seq({c1, c2, c3, c4, c5, c6})
    OBVIOUS
  <2>2. Len(s) = 1 /\ Len(r) = 5
    OBVIOUS
  <2> QED BY <1>0, <2>1, <2>2, ConcatProperties
<1>2. Len(notify) = 6 /\ DOMAIN notify = 1..6 /\ DOMAIN dump_notify = 1..6
  BY <1>1 DEF dump_notify
<1>3. /\ notify[1].name = "id" /\ notify[1].member = "id"
      /\ notify[2].name = "title" /\ notify[2].member = "title"
      /\ notify[3].name = "subject" /\ notify[3].member = "subject"
      /\ notify[4].name = "body" /\ notify[4].member = "body"
      /\ notify[5].name = "sender" /\ notify[5].member = "sender"
      /\ notify[6].name = "tel" /\ notify[6].member = "tel"
  BY <1>1, Field
<1>4. /\ dump_notify[1][1] = "ID" /\ dump_notify[1][2] = "id"
      /\ dump_notify[2][1] = "Title" /\ dump_notify[2][2] = "title"
      /\ dump_notify[3][1] = "Subject" /\ dump_notify[3][2] = "subject"
      /\ dump_notify[4][1] = "Body" /\ dump_notify[4][2] = "body"
      /\ dump_notify[5][1] = "Sender" /\ dump_notify[5][2] = "sender"
      /\ dump_notify[6][1] = "Tel" /\ dump_notify[6][2] = "tel"
  BY DEF dump_notify
<1> QED BY <1>2, <1>3, <1>4, Labelled DEF Matched

LEMMA NotifyRemoveMatched == Matched(notify_remove, dump_notify_remove)
<1>1. notify_remove = <<D("id", "NUMBER")>>
  BY ManyFields DEF notify_remove
<1>2. Len(notify_remove) = 1 /\ DOMAIN notify_remove = 1..1 /\ DOMAIN dump_notify_remove = 1..1
  BY <1>1 DEF dump_notify_remove
<1>3. /\ notify_remove[1].name = "id" /\ notify_remove[1].member = "id"
  BY <1>1, Field
<1>4. /\ dump_notify_remove[1][1] = "ID" /\ dump_notify_remove[1][2] = "id"
  BY DEF dump_notify_remove
<1> QED BY <1>2, <1>3, <1>4, Labelled DEF Matched

LEMMA CallMatched == Matched(call, dump_call)
<1>1. call = <<D("cmd", "OPAQUE"), D("name", "OPAQUE"),
               D("number", "OPAQUE")>>
  BY ManyFields DEF call
<1>2. Len(call) = 3 /\ DOMAIN call = 1..3 /\ DOMAIN dump_call = 1..3
  BY <1>1 DEF dump_call
<1>3. /\ call[1].name = "cmd" /\ call[1].member = "cmd"
      /\ call[2].name = "name" /\ call[2].member = "name"
      /\ call[3].name = "number" /\ call[3].member = "number"
  BY <1>1, Field
<1>4. /\ dump_call[1][1] = "CMD" /\ dump_call[1][2] = "cmd"
      /\ dump_call[2][1] = "Name" /\ dump_call[2][2] = "name"
      /\ dump_call[3][1] = "Number" /\ dump_call[3][2] = "number"
  BY DEF dump_call
<1> QED BY <1>2, <1>3, <1>4, Labelled DEF Matched

LEMMA HttpMatched == Matched(http, dump_http_resp)
<1>1. http = <<D("id", "OPAQUE"), D("resp", "OPAQUE"),
               D("err", "OPAQUE")>>
  BY ManyFields DEF http
<1>2. Len(http) = 3 /\ DOMAIN http = 1..3 /\ DOMAIN dump_http_resp = 1..3
  BY <1>1 DEF dump_http_resp
<1>3. /\ http[1].name = "id" /\ http[1].member = "id"
      /\ http[2].name = "resp" /\ http[2].member = "resp"
      /\ http[3].name = "err" /\ http[3].member = "err"
  BY <1>1, Field
<1>4. /\ dump_http_resp[1][1] = "ID" /\ dump_http_resp[1][2] = "id"
      /\ dump_http_resp[2][1] = "Resp" /\ dump_http_resp[2][2] = "resp"
      /\ dump_http_resp[3][1] = "Err" /\ dump_http_resp[3][2] = "err"
  BY DEF dump_http_resp
<1> QED BY <1>2, <1>3, <1>4, Labelled DEF Matched

LEMMA MusicinfoMatched == Matched(musicinfo, dump_musicinfo)
<1> DEFINE c1 == D("artist", "OPAQUE")
           c2 == D("album", "OPAQUE")
           c3 == D("track", "OPAQUE")
           c4 == Named("dur", "duration", "NUMBER")
           c5 == Named("c", "track_count", "NUMBER")
           c6 == Named("n", "track_number", "NUMBER")
           s == <<c1, c2, c3>>
           r == <<c4, c5, c6>>
<1>0. musicinfo = s \o r
  <2>1. Opaque(<<"artist", "album", "track">>) = s
    BY ManyFields
  <2> QED BY <2>1 DEF musicinfo
<1>1. /\ musicinfo[1] = c1
      /\ musicinfo[2] = c2
      /\ musicinfo[3] = c3
      /\ musicinfo[4] = c4
      /\ musicinfo[5] = c5
      /\ musicinfo[6] = c6
      /\ Len(musicinfo) = 6 /\ DOMAIN musicinfo = 1..6
  <2> HIDE DEF c1, c2, c3, c4, c5, c6
  <2>1. s \in Seq({c1, c2, c3, c4, c5, c6}) /\ r \in Seq({c1, c2, c3, c4, c5, c6})
    OBVIOUS
  <2>2. Len(s) = 3 /\ Len(r) = 3
    OBVIOUS
  <2> QED BY <1>0, <2>1, <2>2, ConcatProperties
<1>2. Len(musicinfo) = 6 /\ DOMAIN musicinfo = 1..6 /\ DOMAIN dump_musicinfo = 1..6
  BY <1>1 DEF dump_musicinfo
<1>3. /\ musicinfo[1].name = "artist" /\ musicinfo[1].member = "artist"
      /\ musicinfo[2].name = "album" /\ musicinfo[2].member = "album"
      /\ musicinfo[3].name = "track" /\ musicinfo[3].member = "track"
      /\ musicinfo[4].name = "dur" /\ musicinfo[4].member = "duration"
      /\ musicinfo[5].name = "c" /\ musicinfo[5].member = "track_count"
      /\ musicinfo[6].name = "n" /\ musicinfo[6].member = "track_number"
  BY <1>1, Field
<1>4. /\ dump_musicinfo[1][1] = "Artist" /\ dump_musicinfo[1][2] = "artist"
      /\ dump_musicinfo[2][1] = "Album" /\ dump_musicinfo[2][2] = "album"
      /\ dump_musicinfo[3][1] = "Track" /\ dump_musicinfo[3][2] = "track"
      /\ dump_musicinfo[4][1] = "Duration" /\ dump_musicinfo[4][2] = "duration"
      /\ dump_musicinfo[5][1] = "TrackCount" /\ dump_musicinfo[5][2] = "track_count"
      /\ dump_musicinfo[6][1] = "TrackNumber" /\ dump_musicinfo[6][2] = "track_number"
  BY DEF dump_musicinfo
<1> QED BY <1>2, <1>3, <1>4, Labelled DEF Matched

LEMMA MusicstateMatched == Matched(musicstate, dump_musicstate)
<1> DEFINE c1 == D("state", "OPAQUE")
           c2 == D("position", "NUMBER")
           c3 == D("shuffle", "NUMBER")
           c4 == D("repeat", "NUMBER")
           s == <<c1>>
           r == <<c2, c3, c4>>
<1>0. musicstate = s \o r
  <2>1. Opaque(<<"state">>) = s
    BY ManyFields
  <2>2. Numbers(<<"position", "shuffle", "repeat">>) = r
    BY ManyFields
  <2> QED BY <2>1, <2>2 DEF musicstate
<1>1. /\ musicstate[1] = c1
      /\ musicstate[2] = c2
      /\ musicstate[3] = c3
      /\ musicstate[4] = c4
      /\ Len(musicstate) = 4 /\ DOMAIN musicstate = 1..4
  <2> HIDE DEF c1, c2, c3, c4
  <2>1. s \in Seq({c1, c2, c3, c4}) /\ r \in Seq({c1, c2, c3, c4})
    OBVIOUS
  <2>2. Len(s) = 1 /\ Len(r) = 3
    OBVIOUS
  <2> QED BY <1>0, <2>1, <2>2, ConcatProperties
<1>2. Len(musicstate) = 4 /\ DOMAIN musicstate = 1..4 /\ DOMAIN dump_musicstate = 1..4
  BY <1>1 DEF dump_musicstate
<1>3. /\ musicstate[1].name = "state" /\ musicstate[1].member = "state"
      /\ musicstate[2].name = "position" /\ musicstate[2].member = "position"
      /\ musicstate[3].name = "shuffle" /\ musicstate[3].member = "shuffle"
      /\ musicstate[4].name = "repeat" /\ musicstate[4].member = "repeat"
  BY <1>1, Field
<1>4. /\ dump_musicstate[1][1] = "State" /\ dump_musicstate[1][2] = "state"
      /\ dump_musicstate[2][1] = "Position" /\ dump_musicstate[2][2] = "position"
      /\ dump_musicstate[3][1] = "Shuffle" /\ dump_musicstate[3][2] = "shuffle"
      /\ dump_musicstate[4][1] = "Repeat" /\ dump_musicstate[4][2] = "repeat"
  BY DEF dump_musicstate
<1> QED BY <1>2, <1>3, <1>4, Labelled DEF Matched

(* No two lines of a table print the same member.                          *)
Distinct(lines) == \A i, j \in DOMAIN lines : lines[i][2] = lines[j][2] => i = j

LEMMA DumpsDistinct ==
  /\ Distinct(dump_notify) /\ Distinct(dump_notify_remove) /\ Distinct(dump_call)
  /\ Distinct(dump_http_resp) /\ Distinct(dump_musicinfo) /\ Distinct(dump_musicstate)
<1>1. Distinct(dump_notify)
  BY DEF Distinct, dump_notify
<1>2. Distinct(dump_notify_remove)
  BY DEF Distinct, dump_notify_remove
<1>3. Distinct(dump_call)
  BY DEF Distinct, dump_call
<1>4. Distinct(dump_http_resp)
  BY DEF Distinct, dump_http_resp
<1>5. Distinct(dump_musicinfo)
  BY DEF Distinct, dump_musicinfo
<1>6. Distinct(dump_musicstate)
  BY DEF Distinct, dump_musicstate
<1> QED BY <1>1, <1>2, <1>3, <1>4, <1>5, <1>6

(* Every type of the map: its descriptor and its dump function agree.      *)
LEMMA TablesMatch ==
  ASSUME NEW type \in type_map
  PROVE  Matched(Desc(type), Dump(type)) /\ Distinct(Dump(type))
<1>1. CASE type = "notify"
  <2>1. Desc(type) = notify /\ Dump(type) = dump_notify
    BY <1>1 DEF Desc, Dump
  <2> QED BY <2>1, NotifyMatched, DumpsDistinct
<1>2. CASE type = "notify-"
  <2>1. Desc(type) = notify_remove /\ Dump(type) = dump_notify_remove
    BY <1>2 DEF Desc, Dump
  <2> QED BY <2>1, NotifyRemoveMatched, DumpsDistinct
<1>3. CASE type = "call"
  <2>1. Desc(type) = call /\ Dump(type) = dump_call
    BY <1>3 DEF Desc, Dump
  <2> QED BY <2>1, CallMatched, DumpsDistinct
<1>4. CASE type = "http"
  <2>1. Desc(type) = http /\ Dump(type) = dump_http_resp
    BY <1>4 DEF Desc, Dump
  <2> QED BY <2>1, HttpMatched, DumpsDistinct
<1>5. CASE type = "musicinfo"
  <2>1. Desc(type) = musicinfo /\ Dump(type) = dump_musicinfo
    BY <1>5 DEF Desc, Dump
  <2> QED BY <2>1, MusicinfoMatched, DumpsDistinct
<1>6. CASE type = "musicstate"
  <2>1. Desc(type) = musicstate /\ Dump(type) = dump_musicstate
    BY <1>6 DEF Desc, Dump
  <2> QED BY <2>1, MusicstateMatched, DumpsDistinct
<1> QED BY <1>1, <1>2, <1>3, <1>4, <1>5, <1>6 DEF type_map

(* A member whose bit is set holds the field of its descriptor.            *)
LEMMA MemberFilled ==
  ASSUME NEW desc, NEW lines, Matched(desc, lines), Distinct(lines),
         NEW m, NEW i \in Bits(desc, m)
  PROVE  Member(desc, m, lines[i][2]) = desc[i].name
<1> DEFINE bits == Bits(desc, m)
           filled == {desc[j] : j \in bits}
           d == CHOOSE e \in filled : e.member = lines[i][2]
<1>1. i \in DOMAIN lines /\ desc[i].member = lines[i][2] /\ \A j \in bits : j \in DOMAIN lines
  BY DEF Matched, Bits
<1>2. \E e \in filled : e.member = lines[i][2]
  BY <1>1
<1>3. d \in filled /\ d.member = lines[i][2]
  BY <1>2
<1>4. PICK j \in bits : d = desc[j]
  BY <1>3
<1>5. lines[j][2] = lines[i][2]
  BY <1>1, <1>3, <1>4 DEF Matched
<1>6. j = i
  BY <1>1, <1>5 DEF Distinct
<1>7. Member(desc, m, lines[i][2]) = d.name
  BY <1>1 DEF Member
<1> QED BY <1>4, <1>6, <1>7

(* What is logged of a message of a known type is every field it has, under*)
(* the field's own label.                                                  *)
LEMMA LinesWhole ==
  ASSUME NEW type \in type_map, NEW m
  PROVE  /\ Lines(type, Bits(Desc(type), m), m) = Whole(type, m)
         /\ \A l \in Whole(type, m) : l[2] \in DOMAIN m.fields
<1> DEFINE desc == Desc(type)
           lines == Dump(type)
           bits == Bits(desc, m)
<1>1. Matched(desc, lines) /\ Distinct(lines)
  BY TablesMatch
<1>2. \A i \in bits : /\ i \in DOMAIN lines /\ Meaning[lines[i][1]] \in DOMAIN m.fields
                      /\ Member(desc, m, lines[i][2]) = Meaning[lines[i][1]]
  <2> TAKE i \in bits
  <2>1. i \in DOMAIN lines /\ desc[i].name = Meaning[lines[i][1]] /\ desc[i].name \in DOMAIN m.fields
    BY <1>1 DEF Matched, Bits
  <2>2. Member(desc, m, lines[i][2]) = desc[i].name
    BY <1>1, MemberFilled
  <2> QED BY <2>1, <2>2
<1>3. \A i \in DOMAIN lines : Meaning[lines[i][1]] \in DOMAIN m.fields => i \in bits
  BY <1>1 DEF Matched, Bits
<1>4. Lines(type, bits, m) = {<<lines[i][1], Meaning[lines[i][1]]>> : i \in bits}
  <2>1. bits \cap DOMAIN lines = bits
    BY <1>2
  <2> QED BY <1>2, <2>1 DEF Lines
<1>5. Whole(type, m) = {<<l, Meaning[l]>> : l \in {lines[i][1] : i \in bits}}
  <2>1. {k \in Labels(type) : Meaning[k] \in DOMAIN m.fields} = {lines[i][1] : i \in bits}
    BY <1>2, <1>3 DEF Labels
  <2> QED BY <2>1 DEF Whole
<1>6. Lines(type, bits, m) = Whole(type, m)
  BY <1>4, <1>5
<1>7. \A l \in Whole(type, m) : l[2] \in DOMAIN m.fields
  BY DEF Whole
<1> QED BY <1>6, <1>7

(* The first parse: it ends no string, it fails on what is no JSON and on a*)
(* type that is no string, and it fills the type if there is one.          *)
LEMMA TypeParsed ==
  ASSUME NEW m, ended = FALSE
  PROVE  /\ Cuts(message_type, m) = FALSE
         /\ Parses(message_type, m) <=> /\ ~m.malformed
                                        /\ "t" \in DOMAIN m.fields => m.fields["t"] = "string"
         /\ Bits(message_type, m) # {} <=> "t" \in DOMAIN m.fields
<1>1. DOMAIN message_type = {1} /\ message_type[1].name = "t" /\ message_type[1].tok = "OPAQUE"
  BY DEF message_type, Named
<1>2. Bits(message_type, m) = IF "t" \in DOMAIN m.fields THEN {1} ELSE {}
  BY <1>1 DEF Bits
<1>3. Cuts(message_type, m) = FALSE
  BY <1>1, <1>2 DEF Cuts
<1>4. \A i \in Bits(message_type, m) : i = 1
  BY <1>2
<1>5. IsFit(m.fields["t"], "OPAQUE") <=> m.fields["t"] = "string"
  BY DEF IsFit
<1>6. Parses(message_type, m) <=> /\ ~m.malformed
                                  /\ "t" \in DOMAIN m.fields => m.fields["t"] = "string"
  BY <1>1, <1>2, <1>5 DEF Parses
<1> QED BY <1>2, <1>3, <1>6

(* The inductive invariant.  Before the first parse nothing is known of the*)
(* message; between the parses the buffer reads as JSON, its type is a     *)
(* string, and what the base holds is that type, or garbage if there is    *)
(* none.  It reads as what the phone said unless a text holds a quotation  *)
(* mark.                                                                   *)
Untouched == /\ said = Unread /\ read = Unread
             /\ base = "garbage" /\ log = NoEntry /\ ended = FALSE
TypeKnown ==
  /\ read \in Objects /\ ended = FALSE /\ log = NoEntry
  /\ ~read.malformed
  /\ "t" \in DOMAIN read.fields => read.fields["t"] = "string"
  /\ base = IF "t" \in DOMAIN read.fields THEN read.t ELSE "garbage"
AsSaid == ~Quoted => read = said
MsgInv ==
  /\ at \in {"find", "decode", "parse"} => Untouched
  /\ at \in {"switch", "fault"} => TypeKnown
  /\ AsSaid
  /\ MessageInv /\ AllLogged

LEMMA MsgInitInv == MsgInit => MsgInv
  BY DEF MsgInit, AtobInit, MsgInv, Untouched, AsSaid, MessageInv, AllLogged, NoEntry, Entry

(* The log is as it is to be for what the buffer reads as, and so for what *)
(* the phone said where the two are the same.                              *)
LEMMA LoggedEnough ==
  ASSUME AsSaid', "t" \in DOMAIN read'.fields => log' = LoggedAs(read')
  PROVE  AllLogged'
  BY DEF AsSaid, AllLogged, LoggedAs

LEMMA LoopMsgInv == MsgInv /\ Replace => MsgInv'
<1> SUFFICES ASSUME MsgInv, Replace PROVE MsgInv'
  OBVIOUS
<1>1. /\ at \in {"find", "decode"} /\ at' \in {"find", "decode", "parse"}
      /\ UNCHANGED <<message, said, read, base, log, ended>>
  BY DEF Replace, Loop, Find, Decode, Finish, MsgInv, MessageInv
<1>2. Untouched'
  BY <1>1 DEF MsgInv, Untouched
<1>3. MessageInv' /\ AsSaid'
  BY <1>1 DEF MsgInv, MessageInv, AsSaid, Quoted
<1> QED BY <1>1, <1>2, <1>3 DEF MsgInv, AllLogged

LEMMA ParseBaseMsgInv == MsgInv /\ ParseBase => MsgInv'
<1> SUFFICES ASSUME MsgInv, ParseBase PROVE MsgInv'
  OBVIOUS
<1>1. Untouched /\ at = "parse"
  BY DEF ParseBase, MsgInv
<1>2. PICK m \in Readings(said') :
        /\ read' = m /\ ended' = Cuts(message_type, m)
        /\ base' = IF Parses(message_type, m) /\ Bits(message_type, m) # {} THEN m.t ELSE "garbage"
        /\ IF Parses(message_type, m) THEN at' = "switch" /\ UNCHANGED log
           ELSE at' = "idle" /\ log' = Error
  BY DEF ParseBase
<1>3. /\ Cuts(message_type, m) = FALSE
      /\ Parses(message_type, m) <=> /\ ~m.malformed
                                     /\ "t" \in DOMAIN m.fields => m.fields["t"] = "string"
      /\ Bits(message_type, m) # {} <=> "t" \in DOMAIN m.fields
  BY <1>1, TypeParsed DEF Untouched
<1>4. Quoted' <=> Quoted
  BY DEF ParseBase, Quoted
<1>5. m \in Objects /\ AsSaid'
  BY <1>2, <1>4 DEF ParseBase, Readings, AsSaid
<1>6. m.t # "garbage"
  BY <1>5, ObjectAssumption
<1>7. CASE Parses(message_type, m)
  <2>1. at' = "switch" /\ TypeKnown'
    BY <1>1, <1>2, <1>3, <1>5, <1>7 DEF TypeKnown, Untouched
  <2>2. MessageInv'
    BY <1>1, <1>2, <1>6, <1>7, <2>1 DEF MessageInv, Untouched, TypeKnown, NoEntry, Entry
  <2> QED BY <1>5, <2>1, <2>2 DEF MsgInv, AllLogged
<1>8. CASE ~Parses(message_type, m)
  <2>1. at' = "idle" /\ log' = Error /\ read' = m
    BY <1>2, <1>8
  <2>2. MessageInv'
    BY <2>1 DEF MessageInv, Error, Entry
  <2>3. "t" \in DOMAIN m.fields => LoggedAs(m) = Error
    BY <1>3, <1>8 DEF LoggedAs
  <2>4. AllLogged'
    BY <1>5, <2>1, <2>3, LoggedEnough
  <2> QED BY <1>5, <2>1, <2>2, <2>4 DEF MsgInv
<1> QED BY <1>7, <1>8

LEMMA SwitchMsgInv == MsgInv /\ Switch => MsgInv'
<1> SUFFICES ASSUME MsgInv, Switch PROVE MsgInv'
  OBVIOUS
<1>1. /\ at = "switch" /\ at' = "idle" /\ TypeKnown
      /\ UNCHANGED <<message, said, read, base, ended>>
  BY DEF Switch, MsgInv
<1>2. PICK type \in IF base = "garbage" THEN type_map \cup {"Unknown"} ELSE {str_to_type(base)} :
        log' = IF type = "Unknown" THEN Entry("raw", {})
               ELSE IF Parses(Desc(type), read)
                    THEN Entry(type, Lines(type, Bits(Desc(type), read), read))
                    ELSE Error
  BY DEF Switch
<1>3. type = "Unknown" \/ type \in type_map
  BY <1>2 DEF str_to_type
<1>4. "Unknown" \notin type_map
  BY DEF type_map
<1>5. AsSaid'
  BY <1>1 DEF MsgInv, AsSaid, Quoted
<1>6. ASSUME "t" \in DOMAIN read.fields
      PROVE  /\ type = IF read.t \in type_map THEN read.t ELSE "Unknown"
             /\ LoggedAs(read) = IF read.t \notin type_map THEN Entry("raw", {})
                                 ELSE IF Wrong(read) THEN Error
                                 ELSE Entry(read.t, Whole(read.t, read))
  <2>1. base = read.t /\ base # "garbage"
    BY <1>1, <1>6, ObjectAssumption DEF TypeKnown
  <2>2. type = str_to_type(read.t)
    BY <1>2, <2>1
  <2>3. ~read.malformed /\ read.fields["t"] = "string"
    BY <1>1, <1>6 DEF TypeKnown
  <2> QED BY <2>2, <2>3 DEF LoggedAs, str_to_type
<1>7. CASE type = "Unknown"
  <2>1. log' = Entry("raw", {})
    BY <1>2, <1>7
  <2>2. MessageInv'
    BY <1>1, <2>1 DEF MessageInv, Entry
  <2>3. "t" \in DOMAIN read.fields => LoggedAs(read) = Entry("raw", {})
    BY <1>4, <1>6, <1>7
  <2>4. AllLogged'
    BY <1>1, <1>5, <2>1, <2>3, LoggedEnough
  <2> QED BY <1>1, <1>5, <2>2, <2>4 DEF MsgInv
<1>8. CASE type \in type_map
  <2> DEFINE whole == Whole(type, read)
  <2>1. log' = IF Parses(Desc(type), read) THEN Entry(type, whole) ELSE Error
    BY <1>2, <1>4, <1>8, LinesWhole
  <2>2. \A l \in whole : l[2] \in DOMAIN read.fields
    BY <1>8, LinesWhole
  <2>3. MessageInv'
    BY <1>1, <2>1, <2>2 DEF MessageInv, Error, Entry
  <2>4. "t" \in DOMAIN read.fields => type = read.t
    BY <1>4, <1>6, <1>8
  <2>5. "t" \in DOMAIN read.fields => (Parses(Desc(type), read) <=> ~Wrong(read))
    BY <1>1, <2>4 DEF Parses, Wrong, TypeKnown
  <2>6. "t" \in DOMAIN read.fields => log' = LoggedAs(read)
    <3> HIDE DEF whole
    <3>1. SUFFICES ASSUME "t" \in DOMAIN read.fields
                   PROVE  log' = IF Wrong(read) THEN Error ELSE Entry(read.t, Whole(read.t, read))
      BY <1>6, <1>8, <2>4
    <3> QED BY <2>1, <2>4, <2>5, <3>1 DEF whole
  <2>7. AllLogged'
    BY <1>1, <1>5, <2>6, LoggedEnough
  <2> QED BY <1>1, <1>5, <2>3, <2>7 DEF MsgInv
<1> QED BY <1>3, <1>7, <1>8

LEMMA AstrayMsgInv == MsgInv /\ Astray => MsgInv'
<1> SUFFICES ASSUME MsgInv, Astray PROVE MsgInv'
  OBVIOUS
<1>1. /\ at = "switch" /\ at' = "fault" /\ TypeKnown /\ MessageInv /\ AsSaid
      /\ UNCHANGED <<message, said, read, base, log, ended>>
  BY DEF Astray, MsgInv
<1>2. TypeKnown' /\ AsSaid'
  BY <1>1 DEF TypeKnown, AsSaid, Quoted
<1>3. MessageInv'
  BY <1>1 DEF MessageInv
<1> QED BY <1>1, <1>2, <1>3 DEF MsgInv, AllLogged

LEMMA MsgNextInv == MsgInv /\ [MsgNext]_msgVars => MsgInv'
<1>1. MsgInv /\ UNCHANGED msgVars => MsgInv'
  BY DEF MsgInv, msgVars, atobVars, Untouched, TypeKnown, AsSaid, Quoted, MessageInv,
         AllLogged, LoggedAs
<1> QED BY <1>1, LoopMsgInv, ParseBaseMsgInv, SwitchMsgInv, AstrayMsgInv DEF MsgNext

(* Between the parses the type is known, and what is logged at the end is  *)
(* what the buffer read as, whatever the messages say                      *)
(* (gb_parse.cpp:284-323).                                                 *)
THEOREM MessageLogged == MsgSpec => []MsgInv
  BY MsgInitInv, MsgNextInv, PTL DEF MsgSpec

(* No member is logged that the parser did not fill, whatever the messages *)
(* say (gb_parse.cpp:167-190, 291-300).                                    *)
THEOREM NoGarbageLogged == MsgSpec => []MessageInv
<1>1. MsgInv => MessageInv
  BY DEF MsgInv
<1> QED BY <1>1, MessageLogged, PTL

(* What the buffer reads as is logged whole, every field under its own     *)
(* label, or refused; and so is what the phone said, if no decoded text of *)
(* the message holds a quotation mark (gb_parse.cpp:81-121, 141-147,       *)
(* 160, 167-281).                                                          *)
THEOREM LoggedWhole == MsgSpec => []AllLogged
<1>1. MsgInv => AllLogged
  BY DEF MsgInv
<1> QED BY <1>1, MessageLogged, PTL
=============================================================================
