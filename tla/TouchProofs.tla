----------------------------- MODULE TouchProofs -----------------------------
(***************************************************************************)
(* Proofs about Touch, for any points and any length of the input queue:   *)
(* what the kernel takes for active is ready, LVGL is only told of points  *)
(* that were touched, and when all is quiet it knows what the controller   *)
(* knows.                                                                  *)
(*                                                                         *)
(* The last two rest on what is under way: the input queue Q followed by   *)
(* the reports R the handler has not put there yet, read as one stream.    *)
(***************************************************************************)
EXTENDS Touch, TLAPS

USE PointAssumption, QueueAssumption

At(Q, R, i) == IF i <= Len(Q) THEN Q[i] ELSE R[i - Len(Q)]
Total(Q, R) == Len(Q) + Len(R)

(* The press that is the i-th message of the stream counts at p: each      *)
(* coordinate is in the message before it, or the pointer has it already.  *)
Carries(Q, R, a, i, p) ==
  /\ IF i > 2 THEN At(Q, R, i - 2) = AbsX(p[1]) ELSE a[1] = p[1]
  /\ IF i > 1 THEN At(Q, R, i - 1) = AbsY(p[2]) ELSE a[2] = p[2]

(* Every press under way counts at a point that was touched.               *)
Backed(Q, R, a) ==
  \A i \in 1..Total(Q, R) :
    At(Q, R, i) = TouchKey(1) => \E p \in Points : Carries(Q, R, a, i, p)

(* Once the stream is delivered, the pointer shows e.                      *)
Settles(Q, R, a, shows, e) ==
  \/ /\ shows = e
     /\ \A i \in 1..Total(Q, R) : At(Q, R, i).code # "BTN_TOUCH"
  \/ \E i \in 1..Total(Q, R) :
       /\ \A j \in (i + 1)..Total(Q, R) : At(Q, R, j).code # "BTN_TOUCH"
       /\ \/ At(Q, R, i) = TouchKey(0) /\ e = NoPoint
          \/ At(Q, R, i) = TouchKey(1) /\ e \in Points /\ Carries(Q, R, a, i, e)

Samples == [event : Events, point : Points, gesture : Slides]
Expected(s) == IF s.event = "contact" THEN s.point ELSE NoPoint

-----------------------------------------------------------------------------
(* The stream under the three steps that change it.                        *)

(* A sample is reported at the end of the stream (cst816s.cpp:161-187).    *)
LEMMA ReadStream ==
  ASSUME NEW Q \in Seq(Messages), NEW a, NEW s \in Samples, NEW shows,
         Backed(Q, << >>, a)
  PROVE  /\ ReportsOf(s) \in Seq(Messages)
         /\ Backed(Q, ReportsOf(s), a)
         /\ Settles(Q, ReportsOf(s), a, shows, Expected(s))
<1> DEFINE R == ReportsOf(s)
           n == Len(Q)
<1>1. n \in Nat
  OBVIOUS
<1>2. \A i \in 1..n : /\ At(Q, R, i) = Q[i]
                      /\ At(Q, << >>, i) = Q[i]
  BY <1>1 DEF At
<1>3. \A i \in Nat : i >= 1 => At(Q, R, n + i) = R[i]
  BY <1>1 DEF At
<1>4. CASE s.event = "contact"
  <2>1. R = <<AbsX(s.point[1]), AbsY(s.point[2]), TouchKey(1)>>
    BY <1>4 DEF ReportsOf
  <2>2. s.point \in Points
    BY DEF Samples
  <2>3. AbsX(s.point[1]) \in Messages /\ AbsY(s.point[2]) \in Messages
        /\ TouchKey(1) \in Messages
    BY <2>2 DEF Messages, Xs, Ys
  <2>4. R \in Seq(Messages) /\ Len(R) = 3
    BY <2>1, <2>3
  <2>5. Total(Q, R) = n + 3 /\ Total(Q, << >>) = n
    BY <1>1, <2>4 DEF Total
  <2>6. /\ At(Q, R, n + 1) = AbsX(s.point[1])
        /\ At(Q, R, n + 2) = AbsY(s.point[2])
        /\ At(Q, R, n + 3) = TouchKey(1)
    BY <1>3, <2>1
  <2>7. Carries(Q, R, a, n + 3, s.point)
    BY <1>1, <2>6 DEF Carries
  <2>8. Backed(Q, R, a)
    <3> SUFFICES ASSUME NEW i \in 1..(n + 3), At(Q, R, i) = TouchKey(1)
                 PROVE  \E p \in Points : Carries(Q, R, a, i, p)
      BY <2>5 DEF Backed
    <3>1. CASE i \in 1..n
      <4>1. PICK p \in Points : Carries(Q, << >>, a, i, p)
        BY <1>1, <1>2, <2>5, <3>1 DEF Backed
      <4>2. Carries(Q, R, a, i, p)
        BY <1>1, <1>2, <3>1, <4>1, SMTT(30) DEF Carries
      <4>3. QED
        BY <4>2
    <3>2. CASE i = n + 1 \/ i = n + 2
      BY <2>6, <3>2 DEF AbsX, AbsY, TouchKey
    <3>3. CASE i = n + 3
      BY <2>2, <2>7, <3>3
    <3>4. QED
      BY <1>1, <3>1, <3>2, <3>3
  <2>9. Settles(Q, R, a, shows, Expected(s))
    BY <1>1, <1>4, <2>2, <2>5, <2>6, <2>7 DEF Settles, Expected
  <2>10. QED
    BY <2>4, <2>8, <2>9
<1>5. CASE s.event # "contact"
  <2>1. R \in {<<TouchKey(0), SlideKey>>, <<TouchKey(0)>>}
    BY <1>5 DEF ReportsOf
  <2>2. TouchKey(0) \in Messages /\ SlideKey \in Messages
    BY DEF Messages
  <2> HIDE DEF R
  <2>3. R \in Seq(Messages) /\ (Len(R) = 1 \/ Len(R) = 2)
    <3>1. CASE R = <<TouchKey(0), SlideKey>>
      BY <2>2, <3>1
    <3>2. CASE R = <<TouchKey(0)>>
      BY <2>2, <3>2
    <3>3. QED
      BY <2>1, <3>1, <3>2
  <2>4. R[1] = TouchKey(0) /\ (Len(R) = 2 => R[2] = SlideKey)
    <3>1. CASE R = <<TouchKey(0), SlideKey>>
      BY <3>1
    <3>2. CASE R = <<TouchKey(0)>>
      BY <3>2
    <3>3. QED
      BY <2>1, <3>1, <3>2
  <2>5. Total(Q, R) = n + Len(R) /\ Total(Q, << >>) = n
    BY <1>1, <2>3 DEF Total
  <2> HIDE DEF n
  <2>6. PICK k \in 1..2 : k = Len(R)
    BY <2>3
  <2>7. /\ Total(Q, R) = n + k
        /\ At(Q, R, n + 1) = TouchKey(0)
        /\ k = 2 => At(Q, R, n + 2) = SlideKey
    BY <1>3, <2>4, <2>5, <2>6
  <2>8. Backed(Q, R, a)
    <3> SUFFICES ASSUME NEW i \in 1..(n + k), At(Q, R, i) = TouchKey(1)
                 PROVE  \E p \in Points : Carries(Q, R, a, i, p)
      BY <2>7 DEF Backed
    <3>1. CASE i \in 1..n
      <4>1. PICK p \in Points : Carries(Q, << >>, a, i, p)
        BY <1>1, <1>2, <2>5, <3>1 DEF Backed
      <4>2. /\ i > 2 => At(Q, R, i - 2) = At(Q, << >>, i - 2)
            /\ i > 1 => At(Q, R, i - 1) = At(Q, << >>, i - 1)
        <5>1. i > 2 => i - 2 \in 1..n
          BY <1>1, <3>1
        <5>2. i > 1 => i - 1 \in 1..n
          BY <1>1, <3>1
        <5>3. QED
          BY <1>2, <5>1, <5>2
      <4>3. Carries(Q, R, a, i, p)
        BY <4>1, <4>2 DEF Carries
      <4>4. QED
        BY <4>3
    <3>2. CASE i = n + 1 \/ (i = n + 2 /\ k = 2)
      BY <2>7, <3>2 DEF TouchKey, SlideKey
    <3>3. QED
      BY <1>1, <3>1, <3>2
  <2>9. Settles(Q, R, a, shows, Expected(s))
    <3>1. \A j \in (n + 2)..(n + k) : At(Q, R, j).code # "BTN_TOUCH"
      BY <1>1, <2>7 DEF SlideKey
    <3>2. n + 1 \in 1..(n + k) /\ (n + 1) + 1 = n + 2
      BY <1>1
    <3>3. Expected(s) = NoPoint
      BY <1>5 DEF Expected
    <3>4. QED
      BY <2>7, <3>1, <3>2, <3>3 DEF Settles
  <2>10. QED
    BY <2>3, <2>8, <2>9 DEF R
<1>6. QED
  BY <1>4, <1>5

(* Putting a report in the queue leaves the stream as it is                *)
(* (cst816s.cpp:161-187, K_FOREVER).                                       *)
LEMMA ReportStream ==
  ASSUME NEW Q \in Seq(Messages), NEW R \in Seq(Messages), R # << >>,
         NEW a, NEW shows, NEW e, Backed(Q, R, a)
  PROVE  /\ Backed(Append(Q, Head(R)), Tail(R), a)
         /\ Settles(Q, R, a, shows, e)
              => Settles(Append(Q, Head(R)), Tail(R), a, shows, e)
<1> DEFINE Q2 == Append(Q, Head(R))
           R2 == Tail(R)
<1>1. PICK n \in Nat, k \in Nat : n = Len(Q) /\ k = Len(R) /\ k >= 1
  OBVIOUS
<1>2. Len(Q2) = n + 1 /\ Len(R2) = k - 1
  BY <1>1
<1>3. /\ \A i \in 1..n : Q2[i] = Q[i]
      /\ Q2[n + 1] = R[1]
      /\ \A i \in 1..(k - 1) : R2[i] = R[i + 1]
  BY <1>1
<1> HIDE DEF Q2, R2
<1>4. Total(Q, R) = n + k /\ Total(Q2, R2) = n + k
  BY <1>1, <1>2 DEF Total
<1>5. ASSUME NEW i \in 1..(n + k)
      PROVE  At(Q2, R2, i) = At(Q, R, i)
  <2>1. CASE i <= n
    BY <1>1, <1>2, <1>3, <2>1 DEF At
  <2>2. CASE i = n + 1
    <3>1. ~(i <= n) /\ i - n = 1 /\ i <= n + 1
      BY <1>1, <2>2
    <3>2. QED
      BY <1>1, <1>2, <1>3, <2>2, <3>1 DEF At
  <2>3. CASE i > n + 1
    <3>1. /\ ~(i <= n) /\ ~(i <= n + 1)
          /\ i - (n + 1) \in 1..(k - 1) /\ (i - (n + 1)) + 1 = i - n
      BY <1>1, <2>3
    <3>2. R2[i - (n + 1)] = R[(i - (n + 1)) + 1]
      BY <1>3, <3>1
    <3>3. QED
      BY <1>1, <1>2, <3>1, <3>2 DEF At
  <2>4. QED
    BY <1>1, <2>1, <2>2, <2>3
<1>6. ASSUME NEW i \in 1..(n + k), NEW p
      PROVE  Carries(Q, R, a, i, p) <=> Carries(Q2, R2, a, i, p)
  <2>1. /\ i > 2 => i - 2 \in 1..(n + k)
        /\ i > 1 => i - 1 \in 1..(n + k)
    BY <1>1
  <2>2. /\ i > 2 => At(Q2, R2, i - 2) = At(Q, R, i - 2)
        /\ i > 1 => At(Q2, R2, i - 1) = At(Q, R, i - 1)
    BY <1>5, <2>1
  <2>3. QED
    BY <2>2 DEF Carries
<1>7. Backed(Q2, R2, a)
  BY <1>4, <1>5, <1>6 DEF Backed
<1>8. ASSUME Settles(Q, R, a, shows, e)
      PROVE  Settles(Q2, R2, a, shows, e)
  <2>1. CASE /\ shows = e
             /\ \A i \in 1..(n + k) : At(Q, R, i).code # "BTN_TOUCH"
    BY <1>4, <1>5, <2>1 DEF Settles
  <2>2. ASSUME NEW i \in 1..(n + k),
               \A j \in (i + 1)..(n + k) : At(Q, R, j).code # "BTN_TOUCH",
               \/ At(Q, R, i) = TouchKey(0) /\ e = NoPoint
               \/ /\ At(Q, R, i) = TouchKey(1)
                  /\ e \in Points /\ Carries(Q, R, a, i, e)
        PROVE  Settles(Q2, R2, a, shows, e)
    <3>1. \A j \in (i + 1)..(n + k) : At(Q2, R2, j).code # "BTN_TOUCH"
      <4> SUFFICES ASSUME NEW j \in (i + 1)..(n + k)
                   PROVE  At(Q2, R2, j).code # "BTN_TOUCH"
        OBVIOUS
      <4>1. j \in 1..(n + k)
        BY <1>1
      <4>2. QED
        BY <1>5, <2>2, <4>1
    <3>2. QED
      BY <1>4, <1>5, <1>6, <2>2, <3>1 DEF Settles
  <2>3. QED
    BY <1>4, <1>8, <2>1, <2>2 DEF Settles
<1>9. QED
  BY <1>7, <1>8 DEF Q2, R2

LEMMA NonEmpty == ASSUME NEW Q \in Seq(Messages), Q # << >>
                  PROVE  Len(Q) \in Nat /\ Len(Q) >= 1
OBVIOUS

(* A delivered message leaves the pointer with what the rest of the stream *)
(* needs of it (cst816s.cpp:161-187; LVGL's input device).                 *)
After(m, a) == CASE m.code = "ABS_X" -> <<m.value, a[2]>>
                 [] m.code = "ABS_Y" -> <<a[1], m.value>>
                 [] OTHER -> a
Shows(m, a, shows) == IF m.code = "BTN_TOUCH"
                      THEN IF m.value = 1 THEN a ELSE NoPoint
                      ELSE shows

LEMMA DeliverStream ==
  ASSUME NEW Q \in Seq(Messages), NEW R \in Seq(Messages), Q # << >>,
         NEW a, a = <<a[1], a[2]>>, NEW shows, NEW e, Backed(Q, R, a)
  PROVE  LET a2 == After(Head(Q), a)
             s2 == Shows(Head(Q), a, shows)
         IN  /\ Backed(Tail(Q), R, a2)
             /\ Settles(Q, R, a, shows, e) => Settles(Tail(Q), R, a2, s2, e)
             /\ s2 \in Points \cup {NoPoint, shows}
<1> DEFINE Q2 == Tail(Q)
           m == Head(Q)
           a2 == After(m, a)
           s2 == Shows(m, a, shows)
<1>1. PICK n \in Nat, k \in Nat : n = Len(Q) /\ k = Len(R) /\ n >= 1
  <2>1. Len(R) \in Nat
    OBVIOUS
  <2>2. QED
    BY <2>1, NonEmpty
<1>2. /\ Len(Q2) = n - 1
      /\ \A i \in 1..(n - 1) : Q2[i] = Q[i + 1]
      /\ m = Q[1] /\ m \in Messages
  BY <1>1
<1> HIDE DEF Q2, m
<1>3. Total(Q, R) = n + k /\ Total(Q2, R) = (n - 1) + k
  BY <1>1, <1>2 DEF Total
<1>4. At(Q, R, 1) = m
  BY <1>1, <1>2 DEF At
<1>5. ASSUME NEW i \in 1..((n - 1) + k)
      PROVE  At(Q2, R, i) = At(Q, R, i + 1)
  <2>1. CASE i <= n - 1
    <3>1. i \in 1..(n - 1) /\ i + 1 <= n
      BY <1>1, <2>1
    <3>2. QED
      BY <1>1, <1>2, <2>1, <3>1 DEF At
  <2>2. CASE ~(i <= n - 1)
    <3>1. ~(i + 1 <= n) /\ i - (n - 1) = (i + 1) - n
      BY <1>1, <2>2
    <3>2. QED
      BY <1>1, <1>2, <2>2, <3>1 DEF At
  <2>3. QED
    BY <2>1, <2>2
<1>6. ASSUME NEW p, m = AbsX(p)
      PROVE  a2[1] = p /\ a2[2] = a[2]
  BY <1>6 DEF After, AbsX
<1>7. ASSUME NEW p, m = AbsY(p)
      PROVE  a2[1] = a[1] /\ a2[2] = p
  BY <1>7 DEF After, AbsY
<1>8. ASSUME NEW i \in 1..((n - 1) + k), NEW p, Carries(Q, R, a, i + 1, p)
      PROVE  Carries(Q2, R, a2, i, p)
  <2>1. CASE i = 1
    <3>1. a[1] = p[1] /\ m = AbsY(p[2])
      BY <1>4, <1>8, <2>1 DEF Carries
    <3>2. QED
      BY <1>7, <2>1, <3>1 DEF Carries
  <2>2. CASE i = 2
    <3>1. m = AbsX(p[1]) /\ At(Q, R, 2) = AbsY(p[2])
      BY <1>4, <1>8, <2>2 DEF Carries
    <3>2. At(Q2, R, 1) = At(Q, R, 2)
      <4>1. 1 \in 1..((n - 1) + k) /\ 1 + 1 = 2
        BY <1>1, <2>2
      <4>2. At(Q2, R, 1) = At(Q, R, 1 + 1)
        BY <1>5, <4>1
      <4>3. QED
        BY <4>1, <4>2
    <3>3. QED
      BY <1>6, <2>2, <3>1, <3>2 DEF Carries
  <2>3. CASE i > 2
    <3>1. /\ At(Q, R, i - 1) = AbsX(p[1])
          /\ At(Q, R, i) = AbsY(p[2])
      <4>1. i + 1 > 2 /\ i + 1 > 1 /\ (i + 1) - 2 = i - 1 /\ (i + 1) - 1 = i
        BY <1>1, <2>3
      <4>2. QED
        BY <1>8, <4>1 DEF Carries
    <3>2. /\ At(Q2, R, i - 2) = At(Q, R, i - 1)
          /\ At(Q2, R, i - 1) = At(Q, R, i)
      <4>1. /\ i - 2 \in 1..((n - 1) + k) /\ (i - 2) + 1 = i - 1
            /\ i - 1 \in 1..((n - 1) + k) /\ (i - 1) + 1 = i
        BY <1>1, <2>3
      <4>2. At(Q2, R, i - 2) = At(Q, R, (i - 2) + 1)
        BY <1>5, <4>1
      <4>3. At(Q2, R, i - 1) = At(Q, R, (i - 1) + 1)
        BY <1>5, <4>1
      <4>4. QED
        BY <4>1, <4>2, <4>3
    <3>3. QED
      BY <2>3, <3>1, <3>2 DEF Carries
  <2>4. QED
    BY <1>1, <2>1, <2>2, <2>3
<1>9. Backed(Q2, R, a2)
  <2> SUFFICES ASSUME NEW i \in 1..((n - 1) + k), At(Q2, R, i) = TouchKey(1)
               PROVE  \E p \in Points : Carries(Q2, R, a2, i, p)
    BY <1>3 DEF Backed
  <2>1. i + 1 \in 1..(n + k) /\ At(Q, R, i + 1) = TouchKey(1)
    BY <1>1, <1>5
  <2>2. PICK p \in Points : Carries(Q, R, a, i + 1, p)
    BY <1>3, <2>1 DEF Backed
  <2>3. Carries(Q2, R, a2, i, p)
    BY <1>8, <2>2
  <2>4. QED
    BY <2>3
<1>10. ASSUME NEW p \in Points, Carries(Q, R, a, 1, p)
       PROVE  a = p
  BY <1>10 DEF Carries
<1>11. s2 \in Points \cup {NoPoint, shows}
  <2>1. CASE m = TouchKey(1)
    <3>1. PICK p \in Points : Carries(Q, R, a, 1, p)
      BY <1>1, <1>3, <1>4, <2>1 DEF Backed
    <3>2. a = p
      BY <1>10, <3>1
    <3>3. QED
      BY <2>1, <3>2 DEF Shows, TouchKey
  <2>2. CASE m # TouchKey(1)
    <3>1. m.code = "BTN_TOUCH" => m.value # 1
      BY <1>2, <2>2 DEF Messages, AbsX, AbsY, TouchKey, SlideKey
    <3>2. QED
      BY <3>1 DEF Shows
  <2>3. QED
    BY <2>1, <2>2
<1>12. ASSUME Settles(Q, R, a, shows, e)
       PROVE  Settles(Q2, R, a2, s2, e)
  <2>1. CASE /\ shows = e
             /\ \A i \in 1..(n + k) : At(Q, R, i).code # "BTN_TOUCH"
    <3>1. s2 = e
      BY <1>1, <1>4, <2>1 DEF Shows
    <3>2. \A i \in 1..((n - 1) + k) : At(Q2, R, i).code # "BTN_TOUCH"
      <4> SUFFICES ASSUME NEW i \in 1..((n - 1) + k)
                   PROVE  At(Q2, R, i).code # "BTN_TOUCH"
        OBVIOUS
      <4>1. i + 1 \in 1..(n + k)
        BY <1>1
      <4>2. QED
        BY <1>5, <2>1, <4>1
    <3>3. QED
      BY <1>3, <3>1, <3>2 DEF Settles
  <2>2. ASSUME NEW i \in 1..(n + k),
               \A j \in (i + 1)..(n + k) : At(Q, R, j).code # "BTN_TOUCH",
               \/ At(Q, R, i) = TouchKey(0) /\ e = NoPoint
               \/ /\ At(Q, R, i) = TouchKey(1)
                  /\ e \in Points /\ Carries(Q, R, a, i, e)
        PROVE  Settles(Q2, R, a2, s2, e)
    <3>1. CASE i = 1
      <4>1. s2 = e
        BY <1>4, <1>10, <2>2, <3>1 DEF Shows, TouchKey
      <4>2. \A j \in 1..((n - 1) + k) : At(Q2, R, j).code # "BTN_TOUCH"
        <5> SUFFICES ASSUME NEW j \in 1..((n - 1) + k)
                     PROVE  At(Q2, R, j).code # "BTN_TOUCH"
          OBVIOUS
        <5>1. j + 1 \in (i + 1)..(n + k)
          BY <1>1, <3>1
        <5>2. QED
          BY <1>5, <2>2, <5>1
      <4>3. QED
        BY <1>3, <4>1, <4>2 DEF Settles
    <3>2. CASE i > 1
      <4> DEFINE h == i - 1
      <4>1. h \in 1..((n - 1) + k) /\ h + 1 = i
        BY <1>1, <3>2
      <4> HIDE DEF h
      <4>2. At(Q2, R, h) = At(Q, R, i)
        BY <1>5, <4>1
      <4>3. \A j \in (h + 1)..((n - 1) + k) : At(Q2, R, j).code # "BTN_TOUCH"
        <5> SUFFICES ASSUME NEW j \in (h + 1)..((n - 1) + k)
                     PROVE  At(Q2, R, j).code # "BTN_TOUCH"
          OBVIOUS
        <5>1. j \in 1..((n - 1) + k) /\ j + 1 \in (i + 1)..(n + k)
          BY <1>1, <4>1
        <5>2. QED
          BY <1>5, <2>2, <5>1
      <4>4. Carries(Q, R, a, i, e) => Carries(Q2, R, a2, h, e)
        BY <1>8, <4>1
      <4>5. QED
        BY <1>3, <2>2, <4>1, <4>2, <4>3, <4>4 DEF Settles
    <3>3. QED
      BY <1>1, <3>1, <3>2
  <2>3. QED
    BY <1>3, <1>12, <2>1, <2>2 DEF Settles
<1>13. QED
  BY <1>9, <1>11, <1>12 DEF Q2, m

-----------------------------------------------------------------------------
(* The set-up.  How far it is tells what the controller's registers hold   *)
(* (cst816s.cpp:243-285).                                                  *)
SetupAt ==
  \/ /\ setup = << >> /\ caller = "none"
     /\ pm = "active" => config = "ready" \/ deaf
  \/ /\ caller # "none"
     /\ \/ setup = ChipInit /\ config = "reset"
        \/ setup = <<"ChipID", "MotionMask", "IRQControl">>
        \/ setup = <<"MotionMask", "IRQControl">> /\ config # "reset"
        \/ setup = <<"IRQControl">> /\ config \in {"masked", "ready"}

SetupOK == /\ SetupAt
           /\ caller \in {"none", "boot", "resume"}
           /\ pm \in {"active", "suspended"}
           /\ config \in {"reset", "bare", "masked", "ready"}
           /\ deaf \in BOOLEAN
           /\ caller = "resume" => handler = "idle" /\ pm = "suspended"

(* Every step of chip_init, and every way in and out of it, keeps that.    *)
LEMMA SetupSteps ==
  SetupOK /\ (SetupStep \/ SetupFails \/ Suspend \/ Resume) => SetupOK'
<1> SUFFICES ASSUME SetupOK, SetupStep \/ SetupFails \/ Suspend \/ Resume
             PROVE  SetupOK'
  OBVIOUS
<1>1. CASE SetupStep
  <2>1. PICK h, t : /\ h = Head(setup) /\ t = Tail(setup)
                    /\ setup' = t /\ config' = Written(config, h)
    BY <1>1 DEF SetupStep
  <2>2. handler' = handler /\ setup # << >>
    BY <1>1 DEF SetupStep, workVars
  <2>3. CASE setup = <<"IRQControl">> /\ config \in {"masked", "ready"}
    <3>1. h = "IRQControl" /\ t = << >>
      BY <2>1, <2>3
    <3>2. config' = "ready"
      BY <2>1, <2>3, <3>1 DEF Written
    <3>3. SetupEnds("ok")
      BY <1>1, <2>1, <3>1 DEF SetupStep
    <3>4. deaf' \in BOOLEAN
      BY <3>3, Zenon DEF SetupEnds
    <3>5. caller' = "none" /\ pm' \in {"active", "suspended"}
      BY <3>3 DEF SetupEnds, SetupOK
    <3>6. QED
      BY <2>1, <3>1, <3>2, <3>4, <3>5 DEF SetupOK, SetupAt
  <2>4. CASE setup # <<"IRQControl">>
    <3>1. /\ t # << >>
          /\ \/ /\ h = "release" /\ config = "reset"
                /\ t = <<"ChipID", "MotionMask", "IRQControl">>
             \/ /\ h = "ChipID" /\ config # "reset"
                /\ t = <<"MotionMask", "IRQControl">>
             \/ /\ h = "MotionMask" /\ config # "reset"
                /\ t = <<"IRQControl">>
      <4>1. CASE setup = ChipInit /\ config = "reset"
        BY <2>1, <4>1 DEF ChipInit
      <4>2. CASE setup = <<"ChipID", "MotionMask", "IRQControl">>
        BY <1>1, <2>1, <4>2 DEF SetupStep
      <4>3. CASE setup = <<"MotionMask", "IRQControl">> /\ config # "reset"
        BY <2>1, <4>3
      <4>4. QED
        BY <2>2, <2>4, <4>1, <4>2, <4>3 DEF SetupOK, SetupAt
    <3>2. UNCHANGED <<caller, pm, deaf>>
      BY <1>1, <2>1, <3>1 DEF SetupStep
    <3>3. /\ config' \in {"bare", "masked", "ready"}
          /\ h = "MotionMask" => config' \in {"masked", "ready"}
      BY <2>1, <3>1 DEF Written, SetupOK
    <3>4. caller # "none"
      BY <2>2 DEF SetupOK, SetupAt
    <3>5. QED
      BY <2>1, <2>2, <3>1, <3>2, <3>3, <3>4 DEF SetupOK, SetupAt
  <2>5. QED
    BY <2>2, <2>3, <2>4 DEF SetupOK, SetupAt, ChipInit
<1>2. CASE SetupFails
  <2>1. /\ setup' = << >> /\ caller' = "none" /\ setup # << >>
        /\ config' = config /\ handler' = handler
        /\ pm' = pm
    BY <1>2 DEF SetupFails, GiveUp, SetupEnds, workVars
  <2>2. deaf' = (deaf \/ caller = "boot")
    BY <1>2, Zenon DEF SetupFails, GiveUp, SetupEnds
  <2>3. deaf' \in BOOLEAN
    BY <2>2, Zenon
  <2>4. caller = "boot" => deaf'
    BY <2>2, Zenon
  <2>5. caller = "boot" \/ (caller = "resume" /\ pm = "suspended")
    BY <2>1 DEF SetupOK, SetupAt
  <2>6. QED
    BY <2>1, <2>3, <2>4, <2>5 DEF SetupOK, SetupAt
<1>3. CASE Suspend
  <2>1. setup = << >>
    BY <1>3 DEF Suspend, SetupOK, SetupAt
  <2>2. deaf' \in BOOLEAN
    BY <1>3, Zenon DEF Suspend
  <2>3. QED
    BY <1>3, <2>1, <2>2 DEF Suspend, SetupOK, SetupAt, workVars
<1>4. CASE Resume
  <2>1. deaf' = deaf /\ deaf' \in BOOLEAN
    BY <1>4 DEF Resume, SetupOK
  <2>2. QED
    BY <1>4, <2>1 DEF Resume, SetupOK, SetupAt, workVars, ChipInit, NoReset
<1>5. QED
  BY <1>1, <1>2, <1>3, <1>4

-----------------------------------------------------------------------------
(* What is under way between the controller and LVGL.                      *)
StreamOK ==
  /\ chip \in Samples
  /\ queued \in {"yes", "no"}
  /\ handler \in {"idle", "read", "report"}
  /\ reports \in Seq(Messages) /\ input_q \in Seq(Messages)
  /\ Len(input_q) <= QueueLen
  /\ reports # << >> => handler = "report"
  /\ abs \in (Xs \cup {NoPoint[1]}) \X (Ys \cup {NoPoint[2]})
  /\ missed \in BOOLEAN
  /\ pointer \in Points \cup {NoPoint}
  /\ Backed(input_q, reports, abs)
  /\ queued = "no" /\ handler # "read" /\ ~missed
       => Settles(input_q, reports, abs, pointer, Expected(chip))

(* The finger, the interrupt and the read of a sample                      *)
(* (cst816s.cpp:128-160, 209-214).                                         *)
LEMMA ChipSteps ==
  ASSUME StreamOK,
         \/ \E s \in Samples : Finger(s) \/ FingerUnseen(s)
         \/ Begin
         \/ Read
         \/ ReadFails
  PROVE  StreamOK'
<1> USE DEF StreamOK, sinkVars, workVars, chipVars
<1>1. ASSUME NEW s \in Samples, Finger(s)
      PROVE  StreamOK'
  BY <1>1 DEF Finger, Submit
<1>2. ASSUME NEW s \in Samples, FingerUnseen(s)
      PROVE  StreamOK'
  <2>1. missed' /\ missed' \in BOOLEAN
    BY <1>2, Zenon DEF FingerUnseen
  <2>2. QED
    BY <1>2, <2>1 DEF FingerUnseen
<1>3. CASE Begin
  BY <1>3 DEF Begin
<1>4. CASE Read
  <2>1. /\ reports = << >> /\ reports' = ReportsOf(chip)
        /\ handler' = "report"
        /\ UNCHANGED <<chip, queued, input_q, abs, pointer>>
    BY <1>4 DEF Read
  <2>2. /\ ReportsOf(chip) \in Seq(Messages)
        /\ Backed(input_q, ReportsOf(chip), abs)
        /\ Settles(input_q, ReportsOf(chip), abs, pointer, Expected(chip))
    BY <2>1, ReadStream
  <2>3. missed' \in BOOLEAN
    BY <1>4, Zenon DEF Read
  <2>4. QED
    BY <2>1, <2>2, <2>3
<1>5. CASE ReadFails
  <2>1. missed' /\ missed' \in BOOLEAN
    BY <1>5, Zenon DEF ReadFails
  <2>2. QED
    BY <1>5, <2>1 DEF ReadFails
<1>6. QED
  BY <1>1, <1>2, <1>3, <1>4, <1>5

(* The reports on their way to LVGL (cst816s.cpp:161-187).                 *)
LEMMA ReportSteps == ASSUME StreamOK, Report \/ End \/ Deliver
                     PROVE  StreamOK'
<1> USE DEF StreamOK, sinkVars, workVars, chipVars
<1>1. CASE Report
  <2>1. /\ reports # << >> /\ handler = "report" /\ Len(input_q) < QueueLen
        /\ input_q' = Append(input_q, Head(reports))
        /\ reports' = Tail(reports)
        /\ UNCHANGED <<chip, queued, handler, abs, pointer, missed>>
    BY <1>1 DEF Report, Put
  <2>2. /\ Backed(Append(input_q, Head(reports)), Tail(reports), abs)
        /\ Settles(input_q, reports, abs, pointer, Expected(chip))
             => Settles(Append(input_q, Head(reports)), Tail(reports), abs,
                        pointer, Expected(chip))
    BY <2>1, ReportStream
  <2>3. /\ input_q' \in Seq(Messages) /\ reports' \in Seq(Messages)
        /\ Len(input_q') <= QueueLen
    BY <2>1
  <2>4. QED
    BY <2>1, <2>2, <2>3
<1>2. CASE End
  BY <1>2 DEF End
<1>3. CASE Deliver
  <2> DEFINE m == Head(input_q)
             a2 == After(m, abs)
             s2 == Shows(m, abs, pointer)
  <2>1. /\ input_q # << >> /\ input_q' = Tail(input_q)
        /\ abs' = a2 /\ pointer' = s2
        /\ UNCHANGED <<chip, queued, handler, reports, missed>>
    BY <1>3 DEF Deliver, Told, After, Shows
  <2>2. abs = <<abs[1], abs[2]>>
    OBVIOUS
  <2>3. /\ Backed(Tail(input_q), reports, a2)
        /\ Settles(input_q, reports, abs, pointer, Expected(chip))
             => Settles(Tail(input_q), reports, a2, s2, Expected(chip))
        /\ s2 \in Points \cup {NoPoint, pointer}
    BY <2>1, <2>2, DeliverStream
  <2>4. m \in Messages /\ Tail(input_q) \in Seq(Messages)
        /\ Len(Tail(input_q)) <= QueueLen
    BY <2>1
  <2>5. a2 \in (Xs \cup {NoPoint[1]}) \X (Ys \cup {NoPoint[2]})
    BY <2>4 DEF After, Messages, AbsX, AbsY, TouchKey, SlideKey
  <2> HIDE DEF m, a2, s2
  <2>6. QED
    BY <2>1, <2>3, <2>4, <2>5
<1>4. QED
  BY <1>1, <1>2, <1>3

-----------------------------------------------------------------------------
IInv == SetupOK /\ StreamOK

LEMMA InitTouch == Init => IInv
<1> SUFFICES ASSUME Init
             PROVE  IInv
  OBVIOUS
<1>1. SetupOK
  <2>1. deaf \in BOOLEAN
    BY Zenon DEF Init
  <2>2. QED
    BY <2>1 DEF Init, SetupOK, SetupAt, ChipInit, NoReset
<1>2. StreamOK
  <2>1. missed \in BOOLEAN
    BY Zenon DEF Init
  <2>2. chip \in Samples /\ Expected(chip) = NoPoint
    BY DEF Init, Samples, Events, Slides, Expected
  <2>3. Total(<< >>, << >>) = 0
    BY DEF Total
  <2>4. /\ Backed(input_q, reports, abs)
        /\ Settles(input_q, reports, abs, pointer, Expected(chip))
    BY <2>2, <2>3 DEF Init, Backed, Settles
  <2>5. abs \in (Xs \cup {NoPoint[1]}) \X (Ys \cup {NoPoint[2]})
    BY DEF Init
  <2>6. QED
    BY <2>1, <2>2, <2>4, <2>5 DEF Init, StreamOK
<1>3. QED
  BY <1>1, <1>2 DEF IInv

LEMMA NextTouch == IInv /\ [Next]_vars => IInv'
<1> SUFFICES ASSUME IInv, [Next]_vars
             PROVE  IInv'
  OBVIOUS
<1> USE DEF IInv
<1>1. CASE SetupStep \/ SetupFails \/ Suspend \/ Resume
  <2>1. UNCHANGED <<chipVars, workVars, input_q, sinkVars, missed>>
    BY <1>1 DEF SetupStep, SetupFails, Suspend, Resume
  <2>2. StreamOK'
    BY <2>1 DEF StreamOK, chipVars, workVars, sinkVars
  <2>3. QED
    BY <1>1, <2>2, SetupSteps
<1>2. CASE \/ \E s \in Samples : Finger(s) \/ FingerUnseen(s)
           \/ Begin
           \/ Read
           \/ ReadFails
  <2>1. UNCHANGED setupVars /\ (caller = "resume" => handler' = "idle")
    BY <1>2 DEF Finger, FingerUnseen, Begin, Read, ReadFails, workVars,
                SetupOK
  <2>2. SetupOK'
    BY <2>1 DEF SetupOK, SetupAt, setupVars
  <2>3. QED
    BY <1>2, <2>2, ChipSteps
<1>3. CASE Report \/ End \/ Deliver
  <2>1. UNCHANGED setupVars /\ (caller = "resume" => handler' = "idle")
    BY <1>3 DEF Report, End, Deliver, workVars, SetupOK
  <2>2. SetupOK'
    BY <2>1 DEF SetupOK, SetupAt, setupVars
  <2>3. QED
    BY <1>3, <2>2, ReportSteps
<1>4. CASE UNCHANGED vars
  BY <1>4 DEF vars, chipVars, workVars, sinkVars, setupVars, SetupOK, SetupAt,
              StreamOK
<1>5. QED
  BY <1>1, <1>2, <1>3, <1>4 DEF Next, Samples

LEMMA AlwaysIInv == Spec => []IInv
<1>1. QED
  BY InitTouch, NextTouch, PTL DEF Spec

(* chip_init writes to a controller out of its reset, and the work and a   *)
(* resume keep out of each other's way (cst816s.cpp:128-214, 224-285).     *)
THEOREM TouchInvariant == Spec => []TouchInv
<1>1. IInv => TouchInv
  <2> SUFFICES ASSUME IInv
               PROVE  TouchInv
    OBVIOUS
  <2>1. pointer \in (Xs \cup {NoPoint[1]}) \X (Ys \cup {NoPoint[2]})
    BY DEF IInv, StreamOK, Xs, Ys
  <2>2. /\ setup \in {ChipInit, NoReset, <<"MotionMask", "IRQControl">>,
                      <<"IRQControl">>, << >>}
        /\ SetupSound
    <3>1. ChipInit = <<"release", "ChipID", "MotionMask", "IRQControl">>
          /\ NoReset = <<"ChipID", "MotionMask", "IRQControl">>
      BY DEF ChipInit, NoReset
    <3>2. SetupAt
      BY DEF IInv, SetupOK
    <3> QED BY <3>1, <3>2 DEF SetupAt, SetupSound
  <2>3. QED
    BY <2>1, <2>2 DEF IInv, StreamOK, SetupOK, Samples, TouchInv, TypeOK
<1>2. QED
  BY <1>1, AlwaysIInv, PTL

(* No failed resume passes for a controller that is ready                  *)
(* (cst816s.cpp:243-285, 382).                                             *)
THEOREM NoFalseActive == Spec => []ActiveIsReady
<1>1. IInv => ActiveIsReady
  BY DEF IInv, SetupOK, SetupAt, ActiveIsReady
<1>2. QED
  BY <1>1, AlwaysIInv, PTL

(* LVGL is told of touched points only, whatever length the queue has      *)
(* (cst816s.cpp:161-166).                                                  *)
THEOREM PointsAreReal == Spec => []PointIsReal
<1>1. IInv => PointIsReal
  BY DEF IInv, StreamOK, PointIsReal
<1>2. QED
  BY <1>1, AlwaysIInv, PTL

(* When all is handled LVGL knows what the controller knows                *)
(* (cst816s.cpp:128-214).                                                  *)
THEOREM AlwaysCaughtUp == Spec => []CaughtUp
<1>1. IInv => CaughtUp
  <2> SUFFICES ASSUME IInv, Quiet, ~missed
               PROVE  pointer = Expected(chip)
    BY DEF CaughtUp, Expected
  <2>1. input_q = << >> /\ reports = << >>
    BY DEF IInv, StreamOK, Quiet
  <2>2. Settles(<< >>, << >>, abs, pointer, Expected(chip))
    BY <2>1 DEF IInv, StreamOK, Quiet
  <2>3. Total(<< >>, << >>) = 0
    BY DEF Total
  <2>4. QED
    BY <2>2, <2>3 DEF Settles
<1>2. QED
  BY <1>1, AlwaysIInv, PTL
=============================================================================
