--------------------------- MODULE JobLogs_proofs ---------------------------
(***************************************************************************)
(* Theorems about JobLogs: what the rate limiter lets in and what an       *)
(* answer about logs keeps, for any callers, limits, jobs and logs.        *)
(***************************************************************************)
EXTENDS JobLogs, FiniteSetTheorems, SequenceTheorems, WellFoundedInduction, TLAPS

-----------------------------------------------------------------------------
(* Smallest and largest numbers *)

LEMMA LeastNumber ==
  ASSUME NEW T, T \subseteq Nat, T # {}
  PROVE  \E x \in T : \A y \in T : x <= y
<1> DEFINE R == OpToRel(<, Nat)
<1>1. \A x, y \in Nat : y < x => <<y, x>> \in R
  BY DEF OpToRel
<1>2. IsWellFoundedOn(R, Nat)
  BY NatLessThanWellFounded
<1> HIDE DEF R
<1>3. PICK x \in T : \A y \in T : ~(<<y, x>> \in R)
  BY <1>2, WFMin, Zenon
<1>4. \A y \in T : x \in Nat /\ y \in Nat /\ ~(y < x)
  BY <1>1, <1>3
<1>5. \A y \in T : x <= y
  BY <1>4
<1> QED
  BY <1>3, <1>5

LEMMA IsSeqOf ==
  ASSUME NEW S, NEW n \in Nat, NEW f \in [1 .. n -> S]
  PROVE  f \in Seq(S) /\ Len(f) = n
OBVIOUS

-----------------------------------------------------------------------------
(* The rate limiter *)

LEMMA Allowance == Window \in Nat /\ Allowed \in Nat /\ Allowed > 0
BY LimitAssumption DEF Allowed

(* A loop that drops from the left ends somewhere.                         *)
LEMMA DroppingEnds ==
  ASSUME NEW ages \in Seq(Int), NEW limit \in Int
  PROVE  \E m \in 0 .. Len(ages) : /\ \A i \in 1 .. m : ages[i] > limit
                                   /\ m < Len(ages) => ages[m + 1] <= limit
<1> DEFINE T == {m \in 0 .. Len(ages) : m < Len(ages) => ages[m + 1] <= limit}
<1>1. Len(ages) \in Nat /\ \A i \in 1 .. Len(ages) : ages[i] \in Int
  BY LenProperties, ElementOfSeq
<1>2. T \subseteq Nat /\ Len(ages) \in T
  BY <1>1
<1>3. PICK m \in T : \A n \in T : m <= n
  BY <1>2, LeastNumber
<1>4. ASSUME NEW i \in 1 .. m PROVE ages[i] > limit
  <2>1. i - 1 \in 0 .. Len(ages) /\ i - 1 < m /\ i \in 1 .. Len(ages) /\ i - 1 + 1 = i
    BY <1>1
  <2>2. i - 1 \notin T
    <3> SUFFICES ASSUME i - 1 \in T PROVE FALSE
      OBVIOUS
    <3>1. m <= i - 1
      BY <1>3
    <3> QED
      BY <3>1, <2>1, <1>1
  <2>3. ~(ages[i] <= limit)
    BY <2>1, <2>2
  <2> QED
    BY <2>1, <2>3, <1>1
<1> QED
  BY <1>3, <1>4

(* It ends at one place only.                                              *)
LEMMA DroppedIs ==
  ASSUME NEW ages \in Seq(Int), NEW limit \in Int, NEW m \in 0 .. Len(ages),
         \A i \in 1 .. m : ages[i] > limit, m < Len(ages) => ages[m + 1] <= limit
  PROVE  Dropped(ages, limit) = SubSeq(ages, m + 1, Len(ages))
<1> DEFINE Ends(n) == /\ \A i \in 1 .. n : ages[i] > limit
                      /\ n < Len(ages) => ages[n + 1] <= limit
           e == CHOOSE n \in 0 .. Len(ages) : Ends(n)
<1>1. Len(ages) \in Nat /\ \A i \in 1 .. Len(ages) : ages[i] \in Int
  BY LenProperties, ElementOfSeq
<1>2. e \in 0 .. Len(ages) /\ Ends(e)
  <2>1. \E n \in 0 .. Len(ages) : Ends(n)
    OBVIOUS
  <2> HIDE DEF Ends
  <2> QED
    BY <2>1
<1>3. Dropped(ages, limit) = SubSeq(ages, e + 1, Len(ages))
  BY DEF Dropped
<1> HIDE DEF e
<1>4. ~(e < m)
  <2> SUFFICES ASSUME e < m PROVE FALSE
    OBVIOUS
  <2>1. e + 1 \in 1 .. m /\ e + 1 \in 1 .. Len(ages) /\ e < Len(ages)
    BY <1>1, <1>2
  <2>2. ages[e + 1] > limit /\ ages[e + 1] <= limit
    BY <2>1, <1>2
  <2> QED
    BY <2>1, <2>2, <1>1
<1>5. ~(m < e)
  <2> SUFFICES ASSUME m < e PROVE FALSE
    OBVIOUS
  <2>1. m + 1 \in 1 .. e /\ m + 1 \in 1 .. Len(ages) /\ m < Len(ages)
    BY <1>1, <1>2
  <2>2. ages[m + 1] > limit /\ ages[m + 1] <= limit
    BY <2>1, <1>2
  <2> QED
    BY <2>1, <2>2, <1>1
<1>6. e = m
  BY <1>1, <1>2, <1>4, <1>5
<1> QED
  BY <1>3, <1>6

(* The newest timestamps of a bucket, up to a window old, are the ages of  *)
(* what was let in.                                                        *)
Counted(b, a) ==
  /\ b \in Seq(Age) /\ a \in Seq(Age)
  /\ \A i, j \in 1 .. Len(b) : i < j => b[i] >= b[j]
  /\ \A i \in 1 .. Len(a) : a[i] <= Window
  /\ \E n \in 0 .. Len(b) :
       /\ Len(a) = Len(b) - n
       /\ \A i \in 1 .. n : b[i] > Window
       /\ \A i \in 1 .. Len(a) : a[i] = b[n + i]

LimiterInv ==
  /\ bucket \in [Key -> Seq(Age)] /\ admitted \in [Key -> Seq(Age)]
  /\ refused \subseteq Key
  /\ \A k \in Key : /\ Counted(bucket[k], admitted[k])
                    /\ Len(admitted[k]) <= Allowed
                    /\ k \in refused => Len(admitted[k]) = Allowed

LEMMA AgesAreNumbers ==
  /\ Age \subseteq Nat /\ 0 \in Age /\ Seq(Age) \subseteq Seq(Int)
  /\ \A age \in Age : /\ age \in Nat
                      /\ age <= Window \/ age > Window
                      /\ age <= Window => age + 1 \in Age
<1>1. Age \subseteq Int /\ Age \subseteq Nat
  BY Allowance DEF Age
<1>2. Seq(Age) \subseteq Seq(Int)
  BY <1>1, SeqMonotonic
<1> QED
  BY <1>1, <1>2, Allowance DEF Age

(* What is kept of a bucket is what was let in.                            *)
LEMMA KeptIsAdmitted ==
  ASSUME NEW b, NEW a, Counted(b, a)
  PROVE  Recent(b) = a
<1>1. PICK n \in 0 .. Len(b) : /\ Len(a) = Len(b) - n
                               /\ \A i \in 1 .. n : b[i] > Window
                               /\ \A i \in 1 .. Len(a) : a[i] = b[n + i]
  BY DEF Counted
<1>2. /\ b \in Seq(Age) /\ a \in Seq(Age) /\ b \in Seq(Int)
      /\ Len(b) \in Nat /\ Len(a) \in Nat /\ Window \in Int
  BY AgesAreNumbers, Allowance, LenProperties DEF Counted
<1>3. n < Len(b) => b[n + 1] <= Window
  <2> HAVE n < Len(b)
  <2>1. 1 \in 1 .. Len(a)
    BY <1>1, <1>2
  <2>2. a[1] <= Window /\ a[1] = b[n + 1]
    BY <2>1, <1>1 DEF Counted
  <2> QED
    BY <2>2
<1>4. Recent(b) = SubSeq(b, n + 1, Len(b))
  BY <1>1, <1>2, <1>3, DroppedIs DEF Recent
<1>5. /\ SubSeq(b, n + 1, Len(b)) \in Seq(Age)
      /\ Len(SubSeq(b, n + 1, Len(b))) = Len(b) - n
      /\ \A i \in 1 .. Len(b) - n : SubSeq(b, n + 1, Len(b))[i] = b[n + i]
  BY <1>2
<1> QED
  BY <1>1, <1>2, <1>4, <1>5, SeqEqual

(* What was just let in is the newest.                                     *)
LEMMA CountOne ==
  ASSUME NEW a \in Seq(Age), \A i, j \in 1 .. Len(a) : i < j => a[i] >= a[j],
         \A i \in 1 .. Len(a) : a[i] <= Window
  PROVE  /\ Counted(a, a) /\ Counted(Append(a, 0), Append(a, 0))
         /\ Len(Append(a, 0)) = Len(a) + 1
<1>1. Len(a) \in Nat /\ \A i \in 1 .. Len(a) : a[i] \in Age /\ a[i] \in Nat
  BY LenProperties, ElementOfSeq, AgesAreNumbers
<1> DEFINE c == Append(a, 0)
<1>2. /\ c \in Seq(Age) /\ Len(c) = Len(a) + 1
      /\ \A i \in 1 .. Len(a) : c[i] = a[i]
      /\ c[Len(a) + 1] = 0
  BY AgesAreNumbers, AppendProperties
<1> HIDE DEF c
<1>3. ASSUME NEW i \in 1 .. Len(c), NEW j \in 1 .. Len(c), i < j PROVE c[i] >= c[j]
  <2>1. i \in 1 .. Len(a) /\ c[i] = a[i] /\ (j \in 1 .. Len(a) \/ j = Len(a) + 1)
    BY <1>1, <1>2, <1>3
  <2> QED
    BY <2>1, <1>1, <1>2, <1>3
<1>4. \A i \in 1 .. Len(c) : c[i] <= Window
  <2> TAKE i \in 1 .. Len(c)
  <2>1. i \in 1 .. Len(a) \/ i = Len(a) + 1
    BY <1>1, <1>2
  <2> QED
    BY <2>1, <1>2, Allowance
<1>5. Counted(c, c)
  BY <1>1, <1>2, <1>3, <1>4 DEF Counted
<1>6. Counted(a, a)
  BY <1>1 DEF Counted
<1> QED
  BY <1>2, <1>5, <1>6 DEF c

LEMMA AdmittedIsOrdered ==
  ASSUME NEW b, NEW a, Counted(b, a)
  PROVE  /\ a \in Seq(Age) /\ Len(a) \in Nat
         /\ \A i, j \in 1 .. Len(a) : i < j => a[i] >= a[j]
         /\ \A i \in 1 .. Len(a) : a[i] <= Window
<1>1. PICK n \in 0 .. Len(b) : /\ Len(a) = Len(b) - n
                               /\ \A i \in 1 .. Len(a) : a[i] = b[n + i]
  BY DEF Counted
<1>2. Len(b) \in Nat /\ Len(a) \in Nat
  BY LenProperties DEF Counted
<1>3. ASSUME NEW i \in 1 .. Len(a), NEW j \in 1 .. Len(a), i < j PROVE a[i] >= a[j]
  <2>1. n + i \in 1 .. Len(b) /\ n + j \in 1 .. Len(b) /\ n + i < n + j
    BY <1>1, <1>2, <1>3
  <2> QED
    BY <2>1, <1>1 DEF Counted
<1> QED
  BY <1>2, <1>3 DEF Counted

(* A tick ages a bucket and what was let in alike.                         *)
LEMMA TickCounts ==
  ASSUME NEW b, NEW a, Counted(b, a), NEW older,
         \A age \in Age : older[age] = IF age > Window THEN age ELSE age + 1,
         NEW c \in Seq(Age), Len(c) = Len(b), \A i \in 1 .. Len(b) : c[i] = older[b[i]],
         NEW o \in Seq(Age), Len(o) = Len(a), \A i \in 1 .. Len(a) : o[i] = older[a[i]]
  PROVE  Counted(c, Recent(o)) /\ Len(Recent(o)) <= Len(a)
<1>1. PICK n \in 0 .. Len(b) : /\ Len(a) = Len(b) - n
                               /\ \A i \in 1 .. n : b[i] > Window
                               /\ \A i \in 1 .. Len(a) : a[i] = b[n + i]
  BY DEF Counted
<1>2. /\ b \in Seq(Age) /\ a \in Seq(Age)
      /\ Len(b) \in Nat /\ Len(a) \in Nat
      /\ DOMAIN b = 1 .. Len(b) /\ DOMAIN a = 1 .. Len(a)
  BY LenProperties DEF Counted
<1>3. \A i \in 1 .. Len(b) : b[i] \in Age
  BY <1>2, ElementOfSeq
<1>4. \A i \in 1 .. Len(a) : a[i] \in Age
  BY <1>2, ElementOfSeq
<1>5. \A x \in Age : older[x] \in Age /\ (x > Window => older[x] = x /\ older[x] > Window)
  BY AgesAreNumbers
<1>6. \A x, y \in Age : x >= y => older[x] >= older[y]
  <2> SUFFICES ASSUME NEW x \in Age, NEW y \in Age, x >= y PROVE older[x] >= older[y]
    OBVIOUS
  <2>1. /\ older[x] = IF x > Window THEN x ELSE x + 1
        /\ older[y] = IF y > Window THEN y ELSE y + 1
        /\ x \in Nat /\ y \in Nat /\ Window \in Nat /\ x <= Window + 1
    BY AgesAreNumbers, Allowance DEF Age
  <2> QED
    BY ONLY <2>1, x >= y
<1>7. /\ c \in Seq(Age) /\ Len(c) = Len(b) /\ o \in Seq(Age) /\ Len(o) = Len(a)
      /\ o \in Seq(Int) /\ Window \in Int
  BY AgesAreNumbers, Allowance
<1>8. \A i \in 1 .. Len(b) : c[i] = older[b[i]]
  OBVIOUS
<1>9. \A i \in 1 .. Len(a) : o[i] = c[n + i]
  <2> TAKE i \in 1 .. Len(a)
  <2>1. n + i \in 1 .. Len(b)
    BY <1>1, <1>2
  <2>2. a[i] = b[n + i] /\ o[i] = older[a[i]]
    BY <1>1
  <2>3. c[n + i] = older[b[n + i]]
    BY <2>1, <1>8
  <2> QED
    BY <2>2, <2>3
<1>10. \A i, j \in 1 .. Len(c) : i < j => c[i] >= c[j]
  <2> TAKE i, j \in 1 .. Len(c)
  <2> HAVE i < j
  <2>1. b[i] >= b[j] /\ b[i] \in Age /\ b[j] \in Age
    BY <1>3, <1>7 DEF Counted
  <2> QED
    BY <2>1, <1>6, <1>7, <1>8
<1>11. \A i \in 1 .. Len(o) : o[i] \in Age
  BY <1>7, ElementOfSeq
<1>12. PICK m \in 0 .. Len(o) : /\ \A i \in 1 .. m : o[i] > Window
                                /\ m < Len(o) => o[m + 1] <= Window
  BY <1>7, DroppingEnds
<1> DEFINE r == SubSeq(o, m + 1, Len(o))
<1>13. Recent(o) = r
  BY <1>7, <1>12, DroppedIs DEF Recent
<1>14. /\ r \in Seq(Age) /\ Len(r) = Len(o) - m
       /\ \A i \in 1 .. Len(r) : r[i] = o[m + i]
  BY <1>2, <1>7
<1> HIDE DEF r
<1>15. \A i \in 1 .. Len(r) : r[i] = c[n + m + i] /\ r[i] <= Window
  <2> TAKE i \in 1 .. Len(r)
  <2>1. m + i \in 1 .. Len(o) /\ m + 1 \in 1 .. Len(o) /\ m < Len(o)
    BY <1>2, <1>7, <1>12, <1>14
  <2>2. r[i] = o[m + i] /\ o[m + i] = c[n + (m + i)] /\ n + (m + i) = n + m + i
    BY <2>1, <1>2, <1>7, <1>9, <1>14
  <2>3. o[m + 1] = c[n + (m + 1)]
    BY <2>1, <1>7, <1>9
  <2>4. /\ n + (m + 1) \in 1 .. Len(c) /\ n + (m + i) \in 1 .. Len(c)
        /\ i = 1 \/ n + (m + 1) < n + (m + i)
    BY <2>1, <1>1, <1>2, <1>7
  <2>5. o[m + 1] >= o[m + i]
    BY <2>1, <2>2, <2>3, <2>4, <1>10, <1>11, AgesAreNumbers
  <2>6. o[m + 1] \in Nat /\ o[m + i] \in Nat /\ o[m + 1] <= Window
    BY <2>1, <1>11, <1>12, AgesAreNumbers
  <2> QED
    BY <2>2, <2>5, <2>6, Allowance
<1>16. \A i \in 1 .. n + m : c[i] > Window
  <2> TAKE i \in 1 .. n + m
  <2>1. i \in 1 .. n \/ i - n \in 1 .. m
    BY <1>2
  <2>2. ASSUME i \in 1 .. n PROVE c[i] > Window
    <3>1. i \in 1 .. Len(b) /\ b[i] > Window /\ b[i] \in Age
      BY <2>2, <1>1, <1>2, <1>3
    <3> QED
      BY <3>1, <1>5, <1>8
  <2>3. ASSUME i - n \in 1 .. m PROVE c[i] > Window
    <3>1. i - n \in 1 .. Len(a) /\ n + (i - n) = i
      BY <2>3, <1>2, <1>7, <1>12
    <3>2. o[i - n] = c[n + (i - n)] /\ o[i - n] > Window
      BY <2>3, <3>1, <1>9, <1>12
    <3> QED
      BY <3>1, <3>2
  <2> QED
    BY <2>1, <2>2, <2>3
<1>17. n + m \in 0 .. Len(c) /\ Len(r) = Len(c) - (n + m) /\ Len(r) <= Len(a)
  BY <1>1, <1>2, <1>7, <1>12, <1>14
<1>18. \E k \in 0 .. Len(c) : /\ Len(r) = Len(c) - k
                              /\ \A i \in 1 .. k : c[i] > Window
                              /\ \A i \in 1 .. Len(r) : r[i] = c[k + i]
  <2> DEFINE k == n + m
  <2>1. /\ k \in 0 .. Len(c) /\ Len(r) = Len(c) - k
        /\ \A i \in 1 .. k : c[i] > Window
        /\ \A i \in 1 .. Len(r) : r[i] = c[k + i]
    BY <1>15, <1>16, <1>17
  <2> HIDE DEF k
  <2> QED
    BY <2>1
<1>19. Counted(c, r)
  BY <1>7, <1>10, <1>14, <1>15, <1>18 DEF Counted
<1> QED
  BY <1>13, <1>17, <1>19

(* The steps of the limiter keep LimiterInv. *)
LEMMA LimiterStarts == LimiterInit => LimiterInv
<1> SUFFICES ASSUME LimiterInit PROVE LimiterInv
  OBVIOUS
<1>1. <<>> \in Seq(Age) /\ Len(<<>>) = 0
  OBVIOUS
<1>2. Counted(<<>>, <<>>)
  BY <1>1 DEF Counted
<1> QED
  BY <1>1, <1>2, Allowance DEF LimiterInit, LimiterInv

LEMMA KeptOf ==
  ASSUME LimiterInv, NEW k \in Key
  PROVE  /\ Kept(k) = admitted[k]
         /\ Counted(Kept(k), Kept(k)) /\ Counted(Append(Kept(k), 0), Append(Kept(k), 0))
         /\ Len(Append(Kept(k), 0)) = Len(Kept(k)) + 1 /\ Len(Kept(k)) \in Nat
<1>1. Counted(bucket[k], admitted[k])
  BY DEF LimiterInv
<1>2. Kept(k) = admitted[k]
  BY <1>1, KeptIsAdmitted DEF Kept
<1> QED
  BY <1>1, <1>2, AdmittedIsOrdered, CountOne

LEMMA RequestCounts ==
  ASSUME LimiterInv, NEW k \in Key, Admit(k) \/ Refuse(k)
  PROVE  LimiterInv'
<1> DEFINE a == Kept(k)
           c == Append(Kept(k), 0)
<1>1. /\ a = admitted[k] /\ Counted(a, a) /\ Counted(c, c) /\ Len(c) = Len(a) + 1 /\ Len(a) \in Nat
  BY KeptOf
<1>2. a \in Seq(Age) /\ c \in Seq(Age)
  BY <1>1 DEF Counted
<1>3. CASE Admit(k)
  <2>1. /\ bucket' = [bucket EXCEPT ![k] = c] /\ admitted' = [admitted EXCEPT ![k] = c]
        /\ refused' = {} /\ Len(a) < Allowed
    BY <1>1, <1>3 DEF Admit, LimiterInv
  <2> HIDE DEF a, c
  <2> QED
    BY <2>1, <1>1, <1>2, Allowance DEF LimiterInv
<1>4. CASE Refuse(k)
  <2>1. /\ bucket' = [bucket EXCEPT ![k] = a] /\ admitted' = admitted
        /\ refused' = {k} /\ Len(a) >= Allowed
    BY <1>4 DEF Refuse
  <2>2. Len(a) = Allowed
    BY <2>1, <1>1, Allowance DEF LimiterInv
  <2> HIDE DEF a, c
  <2> QED
    BY <2>1, <2>2, <1>1, <1>2, Allowance DEF LimiterInv
<1> QED
  BY <1>3, <1>4

LEMMA TickKeepsCounts ==
  ASSUME LimiterInv, Tick
  PROVE  LimiterInv'
<1> DEFINE older == [age \in Age |-> IF age > Window THEN age ELSE age + 1]
           c(k) == [i \in DOMAIN bucket[k] |-> older[bucket[k][i]]]
           o(k) == [i \in DOMAIN admitted[k] |-> older[admitted[k][i]]]
<1>1. \A k \in Key : /\ bucket[k] \in Seq(Age) /\ admitted[k] \in Seq(Age)
                     /\ DOMAIN bucket[k] = 1 .. Len(bucket[k]) /\ Len(bucket[k]) \in Nat
                     /\ DOMAIN admitted[k] = 1 .. Len(admitted[k]) /\ Len(admitted[k]) \in Nat
  BY LenProperties DEF LimiterInv
<1>2. \A k \in Key : /\ \A i \in DOMAIN bucket[k] : bucket[k][i] \in Age
                     /\ \A i \in DOMAIN admitted[k] : admitted[k][i] \in Age
  BY <1>1, ElementOfSeq
<1>3. /\ bucket' = [k \in Key |-> c(k)]
      /\ admitted' = [k \in Key |-> Recent(o(k))]
      /\ refused' = {}
  BY <1>2 DEF Tick
<1>4. \A x \in Age : older[x] \in Age
  BY AgesAreNumbers
<1>5. ASSUME NEW k \in Key
      PROVE  /\ Counted(c(k), Recent(o(k))) /\ Len(Recent(o(k))) <= Len(admitted[k])
             /\ c(k) \in Seq(Age) /\ Recent(o(k)) \in Seq(Age) /\ Len(Recent(o(k))) \in Nat
  <2> DEFINE b == bucket[k]
             a == admitted[k]
  <2>1. c(k) \in [1 .. Len(b) -> Age] /\ o(k) \in [1 .. Len(a) -> Age]
    BY <1>1, <1>2, <1>4
  <2>2. /\ \A i \in 1 .. Len(b) : c(k)[i] = older[b[i]]
        /\ \A i \in 1 .. Len(a) : o(k)[i] = older[a[i]]
    BY <1>1
  <2>3. Counted(b, a)
    BY DEF LimiterInv
  <2>4. \A age \in Age : older[age] = IF age > Window THEN age ELSE age + 1
    OBVIOUS
  <2> HIDE DEF c, o, older
  <2>5. /\ c(k) \in Seq(Age) /\ Len(c(k)) = Len(b)
        /\ o(k) \in Seq(Age) /\ Len(o(k)) = Len(a)
    BY <2>1, <1>1, IsSeqOf
  <2>6. Counted(c(k), Recent(o(k))) /\ Len(Recent(o(k))) <= Len(a)
    BY ONLY <2>2, <2>3, <2>4, <2>5, TickCounts
  <2>7. c(k) \in Seq(Age) /\ Recent(o(k)) \in Seq(Age) /\ Len(Recent(o(k))) \in Nat
    BY <2>6, LenProperties DEF Counted
  <2> QED
    BY <2>6, <2>7
<1> HIDE DEF c, o
<1>6. \A k \in Key : Len(Recent(o(k))) <= Allowed
  BY <1>1, <1>5, Allowance DEF LimiterInv
<1> QED
  BY <1>3, <1>5, <1>6 DEF LimiterInv

LEMMA LimitFollows == LimiterInv => LimitPerWindow
<1> SUFFICES ASSUME LimiterInv, NEW k \in Key
             PROVE  LET inWindow == {i \in DOMAIN admitted[k] : admitted[k][i] <= Window}
                    IN  /\ Cardinality(inWindow) <= Allowed
                        /\ k \in refused => Cardinality(inWindow) = Allowed
  BY DEF LimitPerWindow
<1>1. Counted(bucket[k], admitted[k])
  BY DEF LimiterInv
<1>2. /\ admitted[k] \in Seq(Age) /\ Len(admitted[k]) \in Nat
      /\ \A i \in 1 .. Len(admitted[k]) : admitted[k][i] <= Window
  BY <1>1, AdmittedIsOrdered
<1>3. DOMAIN admitted[k] = 1 .. Len(admitted[k])
  BY <1>2, LenProperties
<1>4. {i \in DOMAIN admitted[k] : admitted[k][i] <= Window} = 1 .. Len(admitted[k])
  BY <1>2, <1>3
<1>5. Cardinality(1 .. Len(admitted[k])) = Len(admitted[k])
  BY <1>2, FS_Interval
<1> QED
  BY <1>4, <1>5 DEF LimiterInv

-----------------------------------------------------------------------------
(* What is cut out of a log *)

LEMMA SmallestOf ==
  ASSUME NEW S, S \subseteq Nat, S # {}
  PROVE  Min(S) \in S /\ \A y \in S : Min(S) <= y
<1>1. \E x \in S : \A y \in S : x <= y
  BY LeastNumber
<1> QED
  BY <1>1 DEF Min

LEMMA LargestOf ==
  ASSUME NEW n \in Nat, NEW S, S \subseteq 1 .. n, S # {}
  PROVE  Max(S) \in S /\ \A y \in S : Max(S) >= y
<1> DEFINE T == {n - y : y \in S}
<1>1. \A y \in S : y \in 1 .. n
  OBVIOUS
<1>2. \A y \in S : y \in Nat /\ n - y \in Nat
  BY <1>1
<1>3. T \subseteq Nat /\ T # {}
  BY <1>2
<1>4. PICK z \in T : \A w \in T : z <= w
  BY <1>3, LeastNumber
<1>5. PICK x \in S : z = n - x
  BY <1>4
<1>6. \A y \in S : x >= y
  <2> TAKE y \in S
  <2>1. n - y \in T
    OBVIOUS
  <2>2. n - x <= n - y
    BY <2>1, <1>4, <1>5
  <2> QED
    BY <2>2, <1>2
<1> QED
  BY <1>6 DEF Max

LEMMA OfTwo ==
  ASSUME NEW x \in Int, NEW y \in Int
  PROVE  /\ Min({x, y}) = IF x <= y THEN x ELSE y
         /\ Max({x, y}) = IF x >= y THEN x ELSE y
<1>1. Min({x, y}) = IF x <= y THEN x ELSE y
  <2> DEFINE m == IF x <= y THEN x ELSE y
  <2>1. m \in {x, y} /\ \A z \in {x, y} : m <= z
    OBVIOUS
  <2>2. \A w \in {x, y} : (\A z \in {x, y} : w <= z) => w = m
    OBVIOUS
  <2> HIDE DEF m
  <2> QED
    BY <2>1, <2>2 DEF Min
<1>2. Max({x, y}) = IF x >= y THEN x ELSE y
  <2> DEFINE m == IF x >= y THEN x ELSE y
  <2>1. m \in {x, y} /\ \A z \in {x, y} : m >= z
    OBVIOUS
  <2>2. \A w \in {x, y} : (\A z \in {x, y} : w >= z) => w = m
    OBVIOUS
  <2> HIDE DEF m
  <2> QED
    BY <2>1, <2>2 DEF Max
<1> QED
  BY <1>1, <1>2

(* The first lines of a log, and what is left when there are no more.      *)
LEMMA FirstOf ==
  ASSUME NEW s \in Seq(Line), NEW n \in Nat
  PROVE  /\ First(s, n) \in Seq(Line)
         /\ Len(First(s, n)) = IF n < Len(s) THEN n ELSE Len(s)
         /\ \A i \in 1 .. Len(First(s, n)) : First(s, n)[i] = s[i]
         /\ Len(s) <= n => First(s, n) = s
<1> DEFINE m == IF n < Len(s) THEN n ELSE Len(s)
<1>1. Len(s) \in Nat /\ m \in 0 .. Len(s) /\ First(s, n) = SubSeq(s, 1, m)
  BY LenProperties DEF First
<1> HIDE DEF m
<1>2. /\ SubSeq(s, 1, m) \in Seq(Line) /\ Len(SubSeq(s, 1, m)) = m
      /\ \A i \in 1 .. m : SubSeq(s, 1, m)[i] = s[i]
  BY <1>1
<1>3. Len(s) <= n => m = Len(s)
  BY <1>1 DEF m
<1>4. Len(s) <= n => First(s, n) = s
  BY <1>1, <1>2, <1>3, SeqEqual
<1> QED
  BY <1>1, <1>2, <1>4 DEF m

LEMMA LastOf ==
  ASSUME NEW s \in Seq(Line), NEW n \in Nat, Len(s) <= n
  PROVE  Last(s, n) = s
<1>1. Len(s) \in Nat /\ Last(s, n) = SubSeq(s, 1, Len(s))
  <2>1. Len(s) \in Nat
    BY LenProperties
  <2>2. ~(n < Len(s))
    BY <2>1
  <2> QED
    BY <2>1, <2>2 DEF Last
<1>2. /\ SubSeq(s, 1, Len(s)) \in Seq(Line) /\ Len(SubSeq(s, 1, Len(s))) = Len(s)
      /\ \A i \in 1 .. Len(s) : SubSeq(s, 1, Len(s))[i] = s[i]
  BY <1>1
<1> QED
  BY <1>1, <1>2, SeqEqual

(* What fits is not cut.                                                   *)
LEMMA FitsUncut ==
  \A s, n : ~(Bytes(s) > n) => Clip(s, n) = s
BY DEF Clip

(* A log that nothing was trimmed off is whole.                            *)
LEMMA UntrimmedIsWhole ==
  ASSUME NEW log \in Seq(Line), NEW maxLines \in Nat, ~Trim(log, maxLines).truncated
  PROVE  Trim(log, maxLines).excerpt = log /\ Trim(log, maxLines).last = log
<1> DEFINE clipped == Clip(log, MaxBytes)
<1>1. /\ Trim(log, maxLines).excerpt = First(clipped, maxLines)
      /\ Trim(log, maxLines).last = Last(clipped, maxLines)
      /\ Trim(log, maxLines).truncated = (Bytes(log) > MaxBytes \/ Len(clipped) > maxLines)
  BY DEF Trim
<1> HIDE DEF clipped
<1>2. Len(log) \in Nat
  BY LenProperties
<1>3. ~(Bytes(log) > MaxBytes) /\ ~(Len(clipped) > maxLines)
  BY <1>1
<1>4. clipped = log
  BY <1>3, FitsUncut DEF clipped
<1>5. Len(log) <= maxLines
  BY <1>2, <1>3, <1>4
<1> QED
  BY <1>1, <1>4, <1>5, FirstOf, LastOf

(* A part of a log that has all lines of a kind has as many of them.       *)
LEMMA PartKeepsLines ==
  ASSUME NEW log \in Seq(Line), NEW kind, NEW a \in Nat, NEW b \in Nat, a >= 1, b <= Len(log),
         Lines(log, kind) \subseteq a .. b, a <= b
  PROVE  Cardinality(Lines(SubSeq(log, a, b), kind)) = Cardinality(Lines(log, kind))
<1> DEFINE part == SubSeq(log, a, b)
           S == Lines(log, kind)
           T == Lines(part, kind)
           f == [i \in S |-> i - a + 1]
<1>1. Len(log) \in Nat /\ DOMAIN log = 1 .. Len(log)
  BY LenProperties
<1>2. /\ part \in Seq(Line) /\ Len(part) = b - a + 1
      /\ \A i \in 1 .. b - a + 1 : part[i] = log[a + i - 1]
  BY <1>1
<1>3. DOMAIN part = 1 .. b - a + 1
  BY <1>2, LenProperties
<1> HIDE DEF part
<1>4. /\ \A i : i \in S <=> i \in 1 .. Len(log) /\ log[i].kind = kind
      /\ \A i : i \in T <=> i \in 1 .. b - a + 1 /\ part[i].kind = kind
  BY <1>1, <1>3 DEF Lines
<1>5. S \subseteq a .. b
  OBVIOUS
<1>6. ASSUME NEW i \in S PROVE i - a + 1 \in T /\ i \in Nat
  <2>1. i \in a .. b /\ i - a + 1 \in 1 .. b - a + 1 /\ a + (i - a + 1) - 1 = i
    BY <1>5
  <2>2. part[i - a + 1] = log[i]
    BY <2>1, <1>2
  <2> QED
    BY <2>1, <2>2, <1>4
<1>7. ASSUME NEW j \in T PROVE j \in Nat /\ a + j - 1 \in S /\ a + j - 1 - a + 1 = j
  <2>1. j \in 1 .. b - a + 1
    BY <1>4
  <2>2. a + j - 1 \in 1 .. Len(log) /\ part[j] = log[a + j - 1]
    BY <2>1, <1>1, <1>2
  <2> QED
    BY <2>1, <2>2, <1>4
<1>8. IsFiniteSet(S)
  <2>1. IsFiniteSet(a .. b)
    BY FS_Interval
  <2> QED
    BY <2>1, <1>5, FS_Subset
<1> HIDE DEF S, T
<1>9. f \in [S -> T] /\ \A i \in S : f[i] = i - a + 1
  BY <1>6
<1> HIDE DEF f
<1>10. f \in Injection(S, T)
  <2>1. \A i, j \in S : f[i] = f[j] => i = j
    BY <1>6, <1>9
  <2> QED
    BY <2>1, <1>9 DEF Injection, IsInjective
<1>11. f \in Surjection(S, T)
  <2>1. \A j \in T : \E i \in S : f[i] = j
    BY <1>7, <1>9
  <2> QED
    BY <2>1, <1>9 DEF Surjection
<1>12. Cardinality(T) = Cardinality(S)
  BY <1>8, <1>10, <1>11, FS_Surjection
<1> QED
  BY <1>12 DEF S, T, part

(* What is cut out for a step has every line that names it.                *)
LEMMA StepLogKeepsSteps ==
  ASSUME NEW log \in Seq(Line)
  PROVE  /\ StepLog(log) \in Seq(Line)
         /\ Cardinality(Lines(StepLog(log), "step")) = Cardinality(Lines(log, "step"))
<1> DEFINE named == Lines(log, "step")
<1>1. Len(log) \in Nat /\ named \subseteq 1 .. Len(log)
  BY LenProperties DEF Lines
<1>2. CASE named = {}
  BY <1>2 DEF StepLog
<1>3. CASE named # {}
  <2> DEFINE low == Min(named)
             high == Max(named)
             a == Max({1, low - StepLead})
             b == Min({high + StepRest - 1, Len(log)})
  <2>1. StepLog(log) = SubSeq(log, a, b)
    BY <1>3 DEF StepLog
  <2>2. /\ low \in named /\ \A i \in named : low <= i
        /\ high \in named /\ \A i \in named : high >= i
    BY <1>1, <1>3, SmallestOf, LargestOf
  <2> HIDE DEF low, high
  <2>3. low \in 1 .. Len(log) /\ high \in 1 .. Len(log) /\ low <= high
    BY <2>2, <1>1
  <2>4. a = IF 1 >= low - StepLead THEN 1 ELSE low - StepLead
    <3> DEFINE x == low - StepLead
    <3>1. x \in Int /\ 1 \in Int
      BY <2>3, <1>1, LogAssumption
    <3> HIDE DEF x
    <3>2. Max({1, x}) = IF 1 >= x THEN 1 ELSE x
      BY <3>1, OfTwo
    <3> QED
      BY <3>2 DEF x
  <2>5. b = IF high + StepRest - 1 <= Len(log) THEN high + StepRest - 1 ELSE Len(log)
    <3> DEFINE y == high + StepRest - 1
    <3>1. y \in Int /\ Len(log) \in Int
      BY <2>3, <1>1, LogAssumption
    <3> HIDE DEF y
    <3>2. Min({y, Len(log)}) = IF y <= Len(log) THEN y ELSE Len(log)
      BY <3>1, OfTwo
    <3> QED
      BY <3>2 DEF y
  <2> HIDE DEF a, b
  <2>6. a \in Nat /\ b \in Nat /\ 1 <= a /\ a <= low /\ high <= b /\ b <= Len(log)
    BY <2>3, <2>4, <2>5, <1>1, LogAssumption
  <2>7. \A i \in named : i \in a .. b
    BY <2>2, <2>3, <2>6, <1>1
  <2>8. SubSeq(log, a, b) \in Seq(Line)
    BY <2>3, <2>6, <1>1
  <2>9. a <= b
    BY <2>3, <2>6
  <2>10. Cardinality(Lines(SubSeq(log, a, b), "step")) = Cardinality(Lines(log, "step"))
    BY <2>6, <2>7, <2>9, PartKeepsLines
  <2> QED
    BY <2>1, <2>8, <2>10
<1> QED
  BY <1>2, <1>3

(* The first error of a log is shown unless bytes were cut.                *)
LEMMA ErrorIsShown ==
  ASSUME NEW log \in Seq(Line), NEW maxLines \in Nat, maxLines > Lead,
         Lines(log, "error") # {}, ~FailedLog(log, maxLines).truncated
  PROVE  Lines(FailedLog(log, maxLines).excerpt, "error") # {}
<1> DEFINE errors == Lines(log, "error")
           m == Min(errors)
           a == Max({1, m - Lead})
           b == Min({Len(log), m + Rest})
           part == SubSeq(log, a, b)
           kept == First(part, maxLines)
           last == Last(log, Min({TailLines, maxLines}))
<1>1. /\ Len(log) \in Nat /\ Lead \in Nat /\ Rest \in Nat
      /\ errors \subseteq 1 .. Len(log)
  BY LenProperties, LogAssumption DEF Lines
<1>2. FailedLog(log, maxLines).excerpt = kept
  <2>1. /\ FailedLog(log, maxLines).excerpt = Clip(kept, MaxBytes)
        /\ FailedLog(log, maxLines).truncated = (Bytes(kept) > MaxBytes \/ Bytes(last) > TailBytes)
    BY DEF FailedLog, Around
  <2> HIDE DEF kept, last
  <2>2. ~(Bytes(kept) > MaxBytes)
    BY <2>1
  <2> QED
    BY <2>1, <2>2, FitsUncut
<1> HIDE DEF last
<1>3. m \in errors
  BY <1>1, SmallestOf
<1>4. m \in 1 .. Len(log) /\ log[m].kind = "error"
  BY <1>1, <1>3 DEF Lines
<1> HIDE DEF m
<1>5. /\ a = IF 1 >= m - Lead THEN 1 ELSE m - Lead
      /\ b = IF Len(log) <= m + Rest THEN Len(log) ELSE m + Rest
  <2> DEFINE x == m - Lead
  <2>1. x \in Int /\ 1 \in Int /\ m + Rest \in Int
    BY <1>1, <1>4
  <2>2. b = IF Len(log) <= m + Rest THEN Len(log) ELSE m + Rest
    BY <2>1, <1>1, OfTwo
  <2> HIDE DEF x
  <2>3. Max({1, x}) = IF 1 >= x THEN 1 ELSE x
    BY <2>1, OfTwo
  <2> QED
    BY <2>2, <2>3 DEF x
<1> HIDE DEF a, b
<1>6. /\ a \in Nat /\ b \in Nat /\ 1 <= a /\ a <= m /\ m <= b /\ b <= Len(log)
      /\ m - a <= Lead
  BY <1>1, <1>4, <1>5
<1> DEFINE i == m - a + 1
<1>7. /\ i \in Nat /\ 1 <= i /\ i <= b - a + 1 /\ i <= maxLines
      /\ a + i - 1 = m
  BY <1>1, <1>4, <1>6
<1> HIDE DEF i
<1>8. /\ part \in Seq(Line) /\ Len(part) = b - a + 1
      /\ \A j \in 1 .. b - a + 1 : part[j] = log[a + j - 1]
  <2>1. a \in 1 .. Len(log) /\ b \in 1 .. Len(log) /\ a <= b
    BY <1>1, <1>4, <1>6
  <2> QED
    BY <2>1, <1>1
<1>9. part[i].kind = "error"
  BY <1>4, <1>6, <1>7, <1>8
<1> HIDE DEF part
<1>10. kept \in Seq(Line) /\ i \in 1 .. Len(kept) /\ kept[i] = part[i] /\ Len(kept) \in Nat
  <2>1. /\ kept \in Seq(Line) /\ Len(kept) = IF maxLines < Len(part) THEN maxLines ELSE Len(part)
        /\ \A j \in 1 .. Len(kept) : kept[j] = part[j]
    BY <1>8, FirstOf
  <2>2. i \in 1 .. Len(kept) /\ Len(kept) \in Nat
    BY <2>1, <1>6, <1>7, <1>8
  <2> QED
    BY <2>1, <2>2
<1> HIDE DEF kept
<1>11. i \in Lines(kept, "error")
  BY <1>9, <1>10, LenProperties DEF Lines
<1> QED
  BY <1>2, <1>11

-----------------------------------------------------------------------------
(* The first of some jobs *)

(* How many numbers of a set are up to one is the place of that one.       *)
LEMMA Places ==
  ASSUME NEW S, S \subseteq Nat, IsFiniteSet(S)
  PROVE  LET Place(j) == Cardinality({i \in S : i <= j})
         IN  /\ \A j \in S : Place(j) \in 1 .. Cardinality(S)
             /\ \A i, j \in S : Place(i) = Place(j) => i = j
             /\ \A n \in 1 .. Cardinality(S) : \E j \in S : Place(j) = n
<1> DEFINE below == [j \in S |-> {i \in S : i <= j}]
           Place(j) == Cardinality({i \in S : i <= j})
           N == Cardinality(S)
           f == [j \in S |-> Place(j)]
<1>1. N \in Nat
  BY FS_CardinalityType
<1>2. /\ \A j \in S : below[j] \subseteq S /\ Cardinality(below[j]) = Place(j)
      /\ \A i, j \in S : i \in below[j] <=> i <= j
  OBVIOUS
<1>3. \A j \in S : f[j] = Place(j)
  OBVIOUS
<1> HIDE DEF below, Place
<1>4. \A i, j, k \in S : /\ j <= j /\ (i <= j \/ j <= i)
                         /\ i <= j /\ j <= i => i = j
                         /\ i <= j /\ j <= k => i <= k
  OBVIOUS
<1>5. \A j \in S : Place(j) \in 1 .. N
  <2> TAKE j \in S
  <2>1. IsFiniteSet(below[j]) /\ Cardinality(below[j]) <= N
    BY <1>2, FS_Subset
  <2>2. Cardinality(below[j]) \in Nat /\ Cardinality(below[j]) # 0
    BY <2>1, <1>2, <1>4, FS_CardinalityType, FS_EmptySet
  <2> QED
    BY <2>1, <2>2, <1>1, <1>2
<1>6. ASSUME NEW i \in S, NEW j \in S, i <= j, i # j PROVE Place(i) # Place(j)
  <2>1. below[i] \subseteq below[j] /\ j \in below[j] /\ j \notin below[i]
    BY <1>2, <1>4, <1>6
  <2>2. IsFiniteSet(below[j])
    BY <1>2, FS_Subset
  <2>3. Cardinality(below[i]) # Cardinality(below[j])
    BY <2>1, <2>2, FS_Subset
  <2> QED
    BY <2>3, <1>2
<1>7. \A i, j \in S : Place(i) = Place(j) => i = j
  BY <1>4, <1>6
<1>8. f \in Injection(S, 1 .. N)
  BY <1>3, <1>5, <1>7 DEF Injection, IsInjective
<1>9. IsFiniteSet(1 .. N) /\ Cardinality(1 .. N) = N
  BY <1>1, FS_Interval
<1>10. f \in Surjection(S, 1 .. N)
  BY <1>8, <1>9, FS_Injection
<1>11. \A n \in 1 .. N : \E j \in S : Place(j) = n
  BY <1>3, <1>10 DEF Surjection
<1> QED
  BY <1>5, <1>7, <1>11 DEF Place

LEMMA FirstJobsCount ==
  ASSUME NEW S, S \subseteq Nat, IsFiniteSet(S), NEW n \in Nat
  PROVE  /\ FirstJobs(S, n) \subseteq S
         /\ Cardinality(FirstJobs(S, n)) = Min({n, Cardinality(S)})
<1> DEFINE Place(j) == Cardinality({i \in S : i <= j})
           N == Cardinality(S)
           F == FirstJobs(S, n)
           m == IF n <= N THEN n ELSE N
           f == [j \in F |-> Place(j)]
<1>1. N \in Nat /\ m \in Nat
  BY FS_CardinalityType
<1>2. F = {j \in S : Place(j) <= n}
  BY DEF FirstJobs
<1>3. /\ \A j \in S : Place(j) \in 1 .. N
      /\ \A i, j \in S : Place(i) = Place(j) => i = j
      /\ \A k \in 1 .. N : \E j \in S : Place(j) = k
  BY Places
<1> HIDE DEF Place, F
<1>4. F \subseteq S /\ \A j \in F : Place(j) \in 1 .. m
  BY <1>1, <1>2, <1>3
<1>5. \A j \in F : f[j] = Place(j)
  OBVIOUS
<1>6. f \in [F -> 1 .. m]
  BY <1>4
<1> HIDE DEF f
<1>7. \A k \in 1 .. m : \E j \in F : f[j] = k
  <2> TAKE k \in 1 .. m
  <2>1. k \in 1 .. N /\ k <= n
    BY <1>1
  <2>2. PICK j \in S : Place(j) = k
    BY <2>1, <1>3
  <2> QED
    BY <2>1, <2>2, <1>2, <1>5
<1>8. f \in Injection(F, 1 .. m) /\ f \in Surjection(F, 1 .. m)
  BY <1>3, <1>4, <1>5, <1>6, <1>7 DEF Injection, IsInjective, Surjection
<1>9. IsFiniteSet(F)
  BY <1>4, FS_Subset
<1>10. Cardinality(1 .. m) = m
  <2> HIDE DEF m
  <2> QED
    BY <1>1, FS_Interval
<1>11. Cardinality(F) = m
  BY <1>8, <1>9, <1>10, FS_Surjection
<1>12. Min({n, N}) = m
  BY <1>1, OfTwo
<1> QED
  BY <1>4, <1>11, <1>12 DEF F

-----------------------------------------------------------------------------
(* The inductive invariant *)

JobsOf(entries) == {e.job : e \in entries}

(* What is fetched and what is left to fetch make up what was listed.      *)
RequestOK ==
  /\ pc \in {"idle", "list_all", "list_failed", "fetch_all", "fetch_failed", "fetch_job"}
  /\ due \subseteq listed /\ listed \subseteq Page
  /\ got \subseteq [job : listed, there : BOOLEAN] /\ IsFiniteSet(got)
  /\ pc \notin {"fetch_all", "fetch_failed"} => got = {}
  /\ pc = "fetch_all" => listed = Page /\ due \cup JobsOf(got) = Page
  /\ pc = "fetch_failed" => /\ due \cup JobsOf(got) = FirstJobs(listed, MaxFailed)
                            /\ \A e \in got : e.there

JobsOK == job \in [Page -> [end : {"none", "success", "failure"}, log : BOOLEAN]]

AnswerOK == WholeOrTruncated /\ FailedLogsAreThere /\ UntruncatedIsWhole

IInv == LimiterInv /\ JobsOK /\ RequestOK /\ AnswerOK

LEMMA JobsAreNumbers ==
  /\ Page \subseteq Job /\ Page \subseteq Nat /\ 0 \notin Page /\ IsFiniteSet(Page) /\ MaxFailed \in Nat
  /\ \A S : S \subseteq Page => IsFiniteSet(S) /\ S \subseteq Nat
<1>1. Job \subseteq Nat /\ 0 \notin Job /\ IsFiniteSet(Job)
  BY JobAssumption, FS_Interval DEF Job
<1>2. Page \subseteq Job
  BY DEF Page
<1> QED
  BY <1>1, <1>2, JobAssumption, FS_Subset

LEMMA SilentIsOK == answer = Silent => AnswerOK
BY DEF Silent, AnswerOK, WholeOrTruncated, FailedLogsAreThere, UntruncatedIsWhole

LEMMA SilentNext == answer' = Silent => AnswerOK'
BY DEF Silent, AnswerOK, WholeOrTruncated, FailedLogsAreThere, UntruncatedIsWhole

LEMMA LogsAreSequences == \A log \in Logs : log \in Seq(Line)
BY JobAssumption

(* The steps that answer a request end it.                                 *)
LEMMA AnswerEnds ==
  ASSUME NEW what, Answer(what)
  PROVE  RequestOK'
BY FS_EmptySet DEF Answer, RequestOK

LEMMA RequestUnchanged == RequestOK /\ UNCHANGED request => RequestOK'
BY DEF RequestOK, request, JobsOf, FirstJobs

LEMMA LimiterUnchanged == LimiterInv /\ UNCHANGED limiter => LimiterInv'
BY DEF LimiterInv, limiter

LEMMA JobsUnchanged == JobsOK /\ UNCHANGED job => JobsOK'
BY DEF JobsOK

-----------------------------------------------------------------------------
(* Every step keeps the invariant *)

LEMMA AskKeeps ==
  ASSUME IInv, NEW k \in Key, NEW where \in {"list_all", "list_failed", "fetch_job"}, Ask(k, where)
  PROVE  IInv'
<1>1. LimiterInv'
  BY RequestCounts DEF Ask, IInv
<1>2. JobsOK'
  BY JobsUnchanged DEF Ask, IInv
<1>3. AnswerOK'
  BY SilentNext DEF Ask, Await
<1>4. pc = "idle" /\ pc' \in {where, "idle"} /\ UNCHANGED <<due, got, listed>>
  BY DEF Ask, Await
<1>5. RequestOK'
  BY <1>4 DEF IInv, RequestOK
<1> QED
  BY <1>1, <1>2, <1>3, <1>5 DEF IInv

LEMMA OtherRequestKeeps ==
  ASSUME IInv, NEW k \in Key, OtherRequest(k)
  PROVE  IInv'
<1>1. LimiterInv'
  BY RequestCounts DEF OtherRequest, IInv
<1> QED
  BY <1>1, JobsUnchanged, RequestUnchanged, SilentNext DEF OtherRequest, IInv

LEMMA GivingUpKeeps ==
  ASSUME IInv, ForgeFails \/ NothingMatches
  PROVE  IInv'
<1>1. Answer(Silent) /\ UNCHANGED <<limiter, job>>
  BY DEF ForgeFails, NothingMatches
<1>2. AnswerOK' /\ RequestOK'
  BY <1>1, AnswerEnds, SilentNext DEF Answer
<1> QED
  BY <1>1, <1>2, LimiterUnchanged, JobsUnchanged DEF IInv

LEMMA ListAllKeeps ==
  ASSUME IInv, ListAll
  PROVE  IInv'
<1>1. /\ pc = "list_all" /\ pc' = "fetch_all" /\ due' = Page /\ listed' = Page
      /\ answer' = Silent /\ got' = got /\ UNCHANGED <<limiter, job>>
  BY DEF ListAll, Await
<1>2. got' = {}
  BY <1>1 DEF IInv, RequestOK
<1>3. RequestOK'
  BY <1>1, <1>2, FS_EmptySet DEF RequestOK, JobsOf
<1> QED
  BY <1>1, <1>3, SilentNext, LimiterUnchanged, JobsUnchanged DEF IInv

LEMMA ListFailedKeeps ==
  ASSUME IInv, NEW named, ListFailed(named)
  PROVE  IInv'
<1> DEFINE jobs == Matching(named)
<1>1. /\ pc = "list_failed" /\ pc' = "fetch_failed"
      /\ due' = FirstJobs(jobs, MaxFailed) /\ listed' = jobs
      /\ answer' = Silent /\ got' = got /\ UNCHANGED <<limiter, job>>
  BY DEF ListFailed, Await
<1>2. got' = {}
  BY <1>1 DEF IInv, RequestOK
<1>3. jobs \subseteq Page /\ FirstJobs(jobs, MaxFailed) \subseteq jobs
  BY DEF Matching, FirstJobs
<1> HIDE DEF jobs
<1>4. FirstJobs(jobs, MaxFailed) = FirstJobs(listed, MaxFailed)'
  BY <1>1 DEF FirstJobs
<1>5. JobsOf(got)' = {}
  BY <1>2 DEF JobsOf
<1>6. RequestOK'
  BY <1>1, <1>2, <1>3, <1>4, <1>5, FS_EmptySet DEF RequestOK
<1> QED
  BY <1>1, <1>6, SilentNext, LimiterUnchanged, JobsUnchanged DEF IInv

LEMMA FetchKeeps ==
  ASSUME IInv, NEW j \in Page, Fetch(j)
  PROVE  IInv'
<1>1. pc \in {"fetch_all", "fetch_failed"} /\ j \in due /\ UNCHANGED <<limiter, job>>
  BY DEF Fetch, IsNext
<1>2. CASE ~(pc = "fetch_all" \/ job[j].log)
  <2>1. Answer(Silent)
    BY <1>2 DEF Fetch
  <2>2. AnswerOK' /\ RequestOK'
    BY <2>1, AnswerEnds, SilentNext DEF Answer
  <2> QED
    BY <2>2, <1>1, LimiterUnchanged, JobsUnchanged DEF IInv
<1>3. CASE pc = "fetch_all" \/ job[j].log
  <2> DEFINE e == [job |-> j, there |-> job[j].log]
  <2>1. /\ due' = due \ {j} /\ got' = got \cup {e} /\ pc' = pc /\ listed' = listed
        /\ answer' = Silent
    BY <1>3 DEF Fetch, Await
  <2>2. job[j].log \in BOOLEAN
    BY DEF IInv, JobsOK
  <2>3. e.job = j /\ e.there = job[j].log /\ e \in [job : listed, there : BOOLEAN]
    BY <1>1, <2>2 DEF IInv, RequestOK
  <2> HIDE DEF e
  <2>4. due' \cup JobsOf(got') = due \cup JobsOf(got)
    BY <1>1, <2>1, <2>3 DEF JobsOf
  <2>5. IsFiniteSet(got')
    BY <2>1, FS_AddElement DEF IInv, RequestOK
  <2>6. pc = "fetch_failed" => \A f \in got' : f.there
    BY <1>3, <2>1, <2>3 DEF IInv, RequestOK
  <2>7. RequestOK'
    BY <1>1, <2>1, <2>3, <2>4, <2>5, <2>6 DEF IInv, RequestOK, JobsOf, FirstJobs
  <2> QED
    BY <1>1, <2>1, <2>7, SilentNext, LimiterUnchanged, JobsUnchanged DEF IInv
<1> QED
  BY <1>2, <1>3

(* An archive that was not cut has what is text.                           *)
LEMMA UncutHasTexts ==
  ASSUME NEW entries, IsFiniteSet(entries), NEW texts, texts \subseteq entries, NEW n \in Nat,
         ~\E e \in entries : FilesBefore(e, texts) >= n
  PROVE  {e \in texts : FilesBefore(e, texts) < n} = texts
<1>1. ASSUME NEW e \in texts PROVE FilesBefore(e, texts) < n
  <2>1. ~(FilesBefore(e, texts) >= n)
    OBVIOUS
  <2>2. FilesBefore(e, texts) \in Nat
    <3> DEFINE before == {f \in texts : Earlier(f, e)}
    <3>1. before \subseteq entries /\ FilesBefore(e, texts) = Cardinality(before)
      BY DEF FilesBefore
    <3> HIDE DEF before
    <3> QED
      BY <3>1, FS_Subset, FS_CardinalityType
  <2> QED
    BY <2>1, <2>2
<1> QED
  BY <1>1

(* An archive that was not cut is whole.                                   *)
LEMMA ArchiveIsWhole ==
  ASSUME IInv, NEW asked \in SUBSET ({0} \cup Job), NEW maxFiles \in Nat, AnswerAll(asked, maxFiles)
  PROVE  WholeOrTruncated'
<1> DEFINE manifest == [job |-> 0, there |-> \A e \in got : e.there]
           entries == {e \in Archive : e.job \in asked}
           texts == {e \in entries : IsText(e)}
           files == {e \in texts : FilesBefore(e, texts) < maxFiles}
<1>1. /\ pc = "fetch_all" /\ due = {}
      /\ answer'.truncated = \E e \in entries : FilesBefore(e, texts) >= maxFiles
      /\ answer'.files = files /\ answer'.asked = asked
  BY DEF AnswerAll, Answer, Silent
<1>2. /\ JobsOf(got) = Page /\ IsFiniteSet(got) /\ 0 \notin Binary
      /\ \A e \in got : e.job \in Page /\ e.there \in BOOLEAN
  BY <1>1, JobAssumption DEF IInv, RequestOK
<1>3. /\ Archive = got \cup {manifest}
      /\ manifest.job = 0 /\ manifest.there = \A e \in got : e.there
  BY DEF Archive
<1> HIDE DEF manifest
<1>4. IsFiniteSet(entries)
  <2>1. IsFiniteSet(Archive)
    BY <1>2, <1>3, FS_AddElement
  <2>2. entries \subseteq Archive
    OBVIOUS
  <2> HIDE DEF entries
  <2> QED
    BY <2>1, <2>2, FS_Subset
<1>5. (asked \ Binary) \cap ({0} \cup Page) \subseteq JobsOf(texts)
  <2> SUFFICES ASSUME NEW j \in asked, j \notin Binary, j = 0 \/ j \in Page
               PROVE  \E e \in texts : e.job = j
    BY DEF JobsOf
  <2>1. CASE j = 0
    BY <2>1, <1>2, <1>3 DEF IsText
  <2>2. CASE j \in Page
    <3>1. PICK e \in got : e.job = j
      BY <2>2, <1>2 DEF JobsOf
    <3> QED
      BY <3>1, <1>3 DEF IsText
  <2> QED
    BY <2>1, <2>2
<1>6. ASSUME NEW e \in texts, e.job = 0, e.there \/ Page \subseteq asked
      PROVE  e.there = \A f \in texts : f.job # 0 => f.there
  <2>1. e = manifest
    BY <1>2, <1>3, <1>6, JobsAreNumbers
  <2>2. \A f \in texts : f.job # 0 => f \in got
    BY <1>3
  <2>3. Page \subseteq asked => \A f \in got : f.there \/ (f \in texts /\ f.job # 0)
    BY <1>2, <1>3, JobsAreNumbers DEF IsText
  <2>4. e.there = \A f \in got : f.there
    BY <2>1, <1>3
  <2> QED
    BY <2>2, <2>3, <2>4, <1>6
<1>7. texts \subseteq entries
  OBVIOUS
<1> HIDE DEF entries, texts
<1>8. ASSUME ~answer'.truncated PROVE answer'.files = texts
  <2>1. ~\E e \in entries : FilesBefore(e, texts) >= maxFiles
    BY <1>1, <1>8
  <2> QED
    BY <2>1, <1>1, <1>4, <1>7, UncutHasTexts
<1>9. ~answer'.truncated =>
        /\ (answer'.asked \ Binary) \cap ({0} \cup Page) \subseteq JobsOf(answer'.files)
        /\ \A e \in answer'.files : e.job = 0 /\ (e.there \/ Page \subseteq answer'.asked) =>
             e.there = \A f \in answer'.files : f.job # 0 => f.there
  <2> HIDE DEF files
  <2> QED
    BY <1>1, <1>5, <1>6, <1>8
<1> QED
  BY <1>9 DEF WholeOrTruncated, JobsOf

LEMMA AnswerAllKeeps ==
  ASSUME IInv, NEW asked \in SUBSET ({0} \cup Job), NEW maxFiles \in 1 .. MaxFiles, AnswerAll(asked, maxFiles)
  PROVE  IInv'
<1>1. WholeOrTruncated'
  <2>1. maxFiles \in Nat
    BY JobAssumption
  <2> QED
    BY <2>1, ArchiveIsWhole
<1>2. answer'.kind = "all" /\ RequestOK' /\ UNCHANGED <<limiter, job>>
  BY AnswerEnds DEF AnswerAll, Answer, Silent
<1>3. FailedLogsAreThere' /\ UntruncatedIsWhole'
  BY <1>2 DEF FailedLogsAreThere, UntruncatedIsWhole
<1> QED
  BY <1>1, <1>2, <1>3, LimiterUnchanged, JobsUnchanged DEF IInv, AnswerOK

LEMMA AnswerFailedKeeps ==
  ASSUME IInv, NEW log \in Logs, NEW maxLines \in 1 .. MaxLines, AnswerFailed(log, maxLines)
  PROVE  IInv'
<1>1. /\ pc = "fetch_failed" /\ due = {} /\ answer'.kind = "failed"
      /\ answer'.files = got /\ answer'.asked = listed
      /\ RequestOK' /\ UNCHANGED <<limiter, job>>
  BY AnswerEnds DEF AnswerFailed, Answer, Silent
<1>2. JobsOf(got) = FirstJobs(listed, MaxFailed) /\ \A e \in got : e.there
  BY <1>1 DEF IInv, RequestOK
<1>3. listed \subseteq Nat /\ IsFiniteSet(listed)
  BY JobsAreNumbers DEF IInv, RequestOK
<1>4. /\ JobsOf(got) \subseteq listed
      /\ Cardinality(JobsOf(got)) = Min({MaxFailed, Cardinality(listed)})
  BY <1>2, <1>3, JobsAreNumbers, FirstJobsCount
<1>5. JobsOf(got) \cap listed = JobsOf(got)
  BY <1>4
<1>6. /\ \A e \in answer'.files : e.there
      /\ Cardinality(JobsOf(answer'.files) \cap answer'.asked)
           = Min({MaxFailed, Cardinality(answer'.asked)})
  BY <1>1, <1>2, <1>4, <1>5
<1>7. FailedLogsAreThere'
  BY <1>6 DEF FailedLogsAreThere, JobsOf
<1>8. WholeOrTruncated' /\ UntruncatedIsWhole'
  BY <1>1 DEF WholeOrTruncated, UntruncatedIsWhole
<1> QED
  BY <1>1, <1>7, <1>8, LimiterUnchanged, JobsUnchanged DEF IInv, AnswerOK

LEMMA AnswerJobKeeps ==
  ASSUME IInv, NEW log \in Logs, NEW maxLines \in 1 .. MaxLines, NEW ofStep \in BOOLEAN,
         AnswerJob(log, maxLines, ofStep)
  PROVE  IInv'
<1>1. /\ answer'.kind = IF ofStep THEN "step" ELSE "job"
      /\ answer'.log = log
      /\ answer'.cut = Trim(IF ofStep THEN StepLog(log) ELSE log, maxLines)
      /\ RequestOK' /\ UNCHANGED <<limiter, job>>
  BY AnswerEnds DEF AnswerJob, Answer, Silent
<1>2. WholeOrTruncated' /\ FailedLogsAreThere'
  BY <1>1 DEF WholeOrTruncated, FailedLogsAreThere
<1>3. log \in Seq(Line) /\ maxLines \in Nat
  BY LogsAreSequences, JobAssumption
<1>4. UntruncatedIsWhole'
  BY <1>1, <1>3, UntrimmedIsWhole DEF UntruncatedIsWhole
<1> QED
  BY <1>1, <1>2, <1>4, LimiterUnchanged, JobsUnchanged DEF IInv, AnswerOK

LEMMA RunMovesKeep ==
  ASSUME IInv, NEW j \in Page, JobEnds(j) \/ LogChanges(j)
  PROVE  IInv'
<1>1. answer' = Silent /\ UNCHANGED <<limiter, request>>
  BY DEF JobEnds, LogChanges
<1>2. CASE JobEnds(j)
  <2>1. PICK end \in {"success", "failure"} : job' = [job EXCEPT ![j].end = end]
    BY <1>2 DEF JobEnds
  <2> QED
    BY <2>1, <1>1, SilentNext, LimiterUnchanged, RequestUnchanged DEF IInv, JobsOK
<1>3. CASE LogChanges(j)
  <2>1. job' = [job EXCEPT ![j].log = ~@]
    BY <1>3 DEF LogChanges
  <2>2. JobsOK'
    BY <2>1 DEF IInv, JobsOK
  <2> QED
    BY <2>2, <1>1, SilentNext, LimiterUnchanged, RequestUnchanged DEF IInv
<1> QED
  BY <1>2, <1>3

LEMMA MinuteKeeps ==
  ASSUME IInv, Minute
  PROVE  IInv'
BY TickKeepsCounts, SilentNext, JobsUnchanged, RequestUnchanged DEF Minute, IInv

LEMMA StutterKeeps ==
  ASSUME IInv, UNCHANGED vars
  PROVE  IInv'
<1>1. UNCHANGED <<limiter, job, request, answer>>
  BY DEF vars
<1>2. AnswerOK'
  BY <1>1 DEF IInv, AnswerOK, WholeOrTruncated, FailedLogsAreThere, UntruncatedIsWhole
<1> QED
  BY <1>1, <1>2, LimiterUnchanged, JobsUnchanged, RequestUnchanged DEF IInv

LEMMA InitEstablishes == Init => IInv
<1> SUFFICES ASSUME Init PROVE IInv
  OBVIOUS
<1>1. JobsOK
  BY DEF Init, JobsOK
<1>2. RequestOK
  BY FS_EmptySet DEF Init, RequestOK
<1>3. AnswerOK
  BY SilentIsOK DEF Init
<1> QED
  BY <1>1, <1>2, <1>3, LimiterStarts DEF Init, IInv

LEMMA NextKeeps == IInv /\ [Next]_vars => IInv'
<1> SUFFICES ASSUME IInv, [Next]_vars PROVE IInv'
  OBVIOUS
<1>1. ASSUME NEW k \in Key,
             Ask(k, "list_all") \/ Ask(k, "list_failed") \/ Ask(k, "fetch_job") \/ OtherRequest(k)
      PROVE  IInv'
  BY <1>1, AskKeeps, OtherRequestKeeps
<1>2. ASSUME NEW log \in Logs, NEW maxLines \in 1 .. MaxLines,
             AnswerFailed(log, maxLines) \/ AnswerJob(log, maxLines, TRUE) \/ AnswerJob(log, maxLines, FALSE)
      PROVE  IInv'
  BY <1>2, AnswerFailedKeeps, AnswerJobKeeps
<1>3. ASSUME NEW named \in {0} \cup Job, ListFailed(named) PROVE IInv'
  BY <1>3, ListFailedKeeps
<1>4. ASSUME NEW asked \in SUBSET ({0} \cup Job), NEW maxFiles \in 1 .. MaxFiles, AnswerAll(asked, maxFiles)
      PROVE  IInv'
  BY <1>4, AnswerAllKeeps
<1>5. ASSUME NEW j \in Page, Fetch(j) \/ JobEnds(j) \/ LogChanges(j) PROVE IInv'
  BY <1>5, FetchKeeps, RunMovesKeep
<1>6. CASE ForgeFails \/ ListAll \/ NothingMatches
  BY <1>6, GivingUpKeeps, ListAllKeeps
<1>7. CASE Minute
  BY <1>7, MinuteKeeps
<1>8. CASE UNCHANGED vars
  BY <1>8, StutterKeeps
<1> QED
  BY <1>1, <1>2, <1>3, <1>4, <1>5, <1>6, <1>7, <1>8 DEF Next

LEMMA Inductive == Spec => []IInv
BY InitEstablishes, NextKeeps, PTL DEF Spec

-----------------------------------------------------------------------------
(* Theorems *)

(* However requests are spread over time, a key is let in at most as often *)
(* as its limit within any window, and refused only when the window was    *)
(* full (enforce_rate_limit).                                              *)
THEOREM LimitHolds == Spec => []LimitPerWindow
<1>1. IInv => LimitPerWindow
  BY LimitFollows DEF IInv
<1> QED
  BY <1>1, Inductive, PTL

(* An archive answered without "truncated" has what was asked for of the   *)
(* listed page, but for logs that are not text, and its manifest tells     *)
(* whether a log of the page was missing (download_run_logs, get_run_log). *)
THEOREM ArchivesAreWhole == Spec => []WholeOrTruncated
<1>1. IInv => WholeOrTruncated
  BY DEF IInv, AnswerOK
<1> QED
  BY <1>1, Inductive, PTL

(* No failed job of the listed page, of those that are fetched, is missing *)
(* from an answer (get_failed_ci_log).                                     *)
THEOREM FailedJobsAreAnswered == Spec => []FailedLogsAreThere
<1>1. IInv => FailedLogsAreThere
  BY DEF IInv, AnswerOK
<1> QED
  BY <1>1, Inductive, PTL

(* The whole log of a job (get_job_log, no step named) is answered with    *)
(* neither its lines nor its bytes cut, or marked as truncated (_trim_log). *)
THEOREM CutsAreTold == Spec => []UntruncatedIsWhole
<1>1. IInv => UntruncatedIsWhole
  BY DEF IInv, AnswerOK
<1> QED
  BY <1>1, Inductive, PTL

(* What a log was cut for is in what was cut out, or the answer is marked  *)
(* as truncated: all lines that name a step (_extract_step_log), and, if   *)
(* more lines than the lead were asked for, an error of a log that has one *)
(* (parse_failed_log).                                                     *)
THEOREM SearchedIsShown == Spec => []LookedForIsShown
<1>1. Init => LookedForIsShown
  BY DEF Init, Silent, LookedForIsShown
<1>2. LookedForIsShown /\ [Next]_vars => LookedForIsShown'
  <2> SUFFICES ASSUME LookedForIsShown, [Next]_vars PROVE LookedForIsShown'
    OBVIOUS
  <2>1. ASSUME NEW log \in Logs, NEW maxLines \in 1 .. MaxLines, AnswerFailed(log, maxLines)
        PROVE  LookedForIsShown'
    <3>1. /\ answer'.kind = "failed" /\ answer'.log = log /\ answer'.lines = maxLines
          /\ answer'.cut = FailedLog(log, maxLines)
      BY <2>1 DEF AnswerFailed, Answer, Silent
    <3>2. log \in Seq(Line) /\ maxLines \in Nat
      BY LogsAreSequences, JobAssumption
    <3>3. ~FailedLog(log, maxLines).truncated /\ maxLines > Lead /\ Lines(log, "error") # {} =>
            Lines(FailedLog(log, maxLines).excerpt, "error") # {}
      BY <3>2, ErrorIsShown
    <3> QED
      BY <3>1, <3>3 DEF LookedForIsShown, Lines
  <2>2. ASSUME NEW log \in Logs, NEW maxLines \in 1 .. MaxLines, NEW ofStep \in BOOLEAN,
               AnswerJob(log, maxLines, ofStep)
        PROVE  LookedForIsShown'
    <3>1. /\ answer'.kind = IF ofStep THEN "step" ELSE "job"
          /\ answer'.log = log
          /\ answer'.cut = Trim(IF ofStep THEN StepLog(log) ELSE log, maxLines)
      BY <2>2 DEF AnswerJob, Answer, Silent
    <3>2. log \in Seq(Line) /\ maxLines \in Nat
      BY LogsAreSequences, JobAssumption
    <3>3. /\ StepLog(log) \in Seq(Line)
          /\ Cardinality(Lines(StepLog(log), "step")) = Cardinality(Lines(log, "step"))
      BY <3>2, StepLogKeepsSteps
    <3>4. ASSUME ofStep, ~answer'.cut.truncated PROVE answer'.cut.excerpt = StepLog(log)
      BY <3>1, <3>2, <3>3, <3>4, UntrimmedIsWhole
    <3> QED
      BY <3>1, <3>3, <3>4 DEF LookedForIsShown, Lines
  <2>3. ASSUME answer' = Silent \/ answer'.kind = "all" PROVE LookedForIsShown'
    BY <2>3 DEF Silent, LookedForIsShown
  <2>4. ASSUME UNCHANGED vars PROVE LookedForIsShown'
    BY <2>4 DEF vars, LookedForIsShown, Lines
  <2>5. ASSUME NEW asked, NEW maxFiles, AnswerAll(asked, maxFiles) PROVE answer'.kind = "all"
    BY <2>5 DEF AnswerAll, Answer, Silent
  <2>6. ASSUME NEW k, Ask(k, "list_all") \/ Ask(k, "list_failed") \/ Ask(k, "fetch_job") \/ OtherRequest(k)
        PROVE  answer' = Silent
    BY <2>6 DEF Ask, OtherRequest, Await
  <2>7. ASSUME NEW j, Fetch(j) \/ JobEnds(j) \/ LogChanges(j) PROVE answer' = Silent
    BY <2>7 DEF Fetch, JobEnds, LogChanges, Await, Answer
  <2>8. ASSUME NEW named, ListFailed(named) PROVE answer' = Silent
    BY <2>8 DEF ListFailed, Await
  <2>9. ForgeFails \/ ListAll \/ NothingMatches \/ Minute => answer' = Silent
    BY DEF ForgeFails, ListAll, NothingMatches, Minute, Await, Answer
  <2> QED
    BY <2>1, <2>2, <2>3, <2>4, <2>5, <2>6, <2>7, <2>8, <2>9 DEF Next
<1> QED
  BY <1>1, <1>2, PTL DEF Spec
=============================================================================
