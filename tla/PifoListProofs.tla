--------------------------- MODULE PifoListProofs ---------------------------
(***************************************************************************)
(* What the list operations of the PIFO do to the set of applications in   *)
(* it, for lists of any length.                                            *)
(***************************************************************************)
EXTENDS PifoList, Integers, TLAPS

(* The applications in a list, and whether each is there once. *)
Apps(s) == {s[k].app : k \in DOMAIN s}
Distinct(s) == \A j, k \in DOMAIN s : s[j].app = s[k].app => j = k

(* The application in a slot. *)
SlotApps(slot) == {slot[k].app : k \in DOMAIN slot}

(* A set of naturals has a least element. The lemmas take it as a         *)
(* hypothesis: the modules with the theorems discharge it, where the       *)
(* library on well-founded relations, whose statements slow every other    *)
(* leaf down, is in reach.                                                 *)
LeastExists ==
  \A T \in SUBSET Nat : T # {} => \E x \in T : \A y \in T : x <= y

(* Leaves may take longer than the default limit among so many facts. *)
USE SMTT(30)

(* Sequences, element by element. *)
LEMMA ListLen ==
  ASSUME NEW S, NEW seq \in Seq(S)
  PROVE  /\ Len(seq) \in Nat
         /\ DOMAIN seq = 1..Len(seq)
         /\ \A i \in 1..Len(seq) : seq[i] \in S
OBVIOUS

LEMMA ListConcat ==
  ASSUME NEW S, NEW s1 \in Seq(S), NEW s2 \in Seq(S)
  PROVE  /\ s1 \o s2 \in Seq(S)
         /\ Len(s1 \o s2) = Len(s1) + Len(s2)
         /\ \A i \in 1 .. Len(s1) + Len(s2) : (s1 \o s2)[i] =
                     IF i <= Len(s1) THEN s1[i] ELSE s2[i - Len(s1)]
OBVIOUS

LEMMA ListSubSeq ==
  ASSUME NEW S, NEW s \in Seq(S), NEW m \in 1..(Len(s)+1), NEW n \in 0..Len(s)
  PROVE  /\ SubSeq(s, m, n) \in Seq(S)
         /\ Len(SubSeq(s, m, n)) = IF m <= n THEN n - m + 1 ELSE 0
         /\ \A i \in 1..(n - m + 1) : SubSeq(s, m, n)[i] = s[m + i - 1]
OBVIOUS

(* InsertAt, element by element. *)
LEMMA InsertAtElements ==
  ASSUME NEW D, NEW s \in Seq(D), NEW i \in 1..(Len(s)+1), NEW e \in D
  PROVE  /\ InsertAt(s, i, e) \in Seq(D)
         /\ Len(InsertAt(s, i, e)) = Len(s) + 1
         /\ \A k \in 1..(Len(s)+1) : InsertAt(s, i, e)[k] =
              IF k < i THEN s[k] ELSE IF k = i THEN e ELSE s[k-1]
<1> DEFINE n == Len(s)
           l == SubSeq(s, 1, i-1)
           r == SubSeq(s, i, n)
           m == l \o <<e>>
<1>1. n \in Nat /\ i \in Nat /\ 1 <= i /\ i <= n + 1 /\ \A k \in 1..n : s[k] \in D
  BY ListLen
<1>2. /\ l \in Seq(D) /\ Len(l) = i - 1
      /\ \A k \in 1..(i-1) : l[k] = s[k]
  <2>1. \A k \in 1..(i-1) : s[k] \in D  BY <1>1
  <2> QED  BY <1>1, <2>1, ListSubSeq
<1>3. /\ r \in Seq(D) /\ Len(r) = n - i + 1
      /\ \A k \in 1..(n-i+1) : r[k] = s[i+k-1]
  <2>1. \A k \in i..n : s[k] \in D  BY <1>1
  <2> QED  BY <1>1, <2>1, ListSubSeq
<1>4. /\ m \in Seq(D) /\ Len(m) = i
      /\ \A k \in 1..i : m[k] = IF k < i THEN s[k] ELSE e
  <2> HIDE DEF l
  <2>1. <<e>> \in Seq(D) /\ Len(<<e>>) = 1 /\ <<e>>[1] = e  OBVIOUS
  <2>2. /\ m \in Seq(D) /\ Len(m) = Len(l) + 1
        /\ \A k \in 1..(Len(l)+1) : m[k] = IF k <= Len(l) THEN l[k] ELSE <<e>>[k - Len(l)]
    BY <1>2, <2>1, ListConcat
  <2>3. \A k \in 1..i : m[k] = IF k < i THEN s[k] ELSE e
    <3> TAKE k \in 1..i
    <3>1. CASE k < i  BY <1>1, <1>2, <2>2, <3>1
    <3>2. CASE k = i
      <4>1. k - Len(l) = 1 /\ ~(k <= Len(l)) /\ k \in 1..(Len(l)+1)  BY <1>1, <1>2, <3>2
      <4>2. m[k] = <<e>>[1]  BY <2>2, <4>1
      <4>3. m[k] = e  BY <2>1, <4>2, Zenon
      <4>4. ~(k < i)  BY <1>1, <3>2
      <4> QED  BY <4>3, <4>4, Zenon
    <3>3. k < i \/ k = i  BY <1>1
    <3> QED  BY <3>1, <3>2, <3>3, Zenon
  <2> QED  BY <1>1, <1>2, <2>2, <2>3
<1>5. InsertAt(s, i, e) = m \o r
  BY DEF InsertAt
<1> HIDE DEF m, r, l
<1>6. /\ m \o r \in Seq(D) /\ Len(m \o r) = i + (n - i + 1)
      /\ \A k \in 1..(i + (n - i + 1)) : (m \o r)[k] = IF k <= i THEN m[k] ELSE r[k - i]
  BY <1>3, <1>4, ListConcat
<1>7. i + (n - i + 1) = n + 1  BY <1>1
<1>8. \A k \in 1..(n+1) : (m \o r)[k] = IF k < i THEN s[k] ELSE IF k = i THEN e ELSE s[k-1]
  <2> TAKE k \in 1..(n+1)
  <2>1. CASE k <= i  BY <1>1, <1>4, <1>6, <1>7, <2>1
  <2>2. CASE k > i
    <3>1. k - i \in 1..(n-i+1) /\ i + (k - i) - 1 = k - 1  BY <1>1, <2>2
    <3>2. r[k-i] = s[k-1]  BY <1>3, <3>1
    <3> QED  BY <1>1, <1>6, <1>7, <2>2, <3>2
  <2>3. k <= i \/ k > i  BY <1>1
  <2> QED  BY <2>1, <2>2, <2>3, Zenon
<1> QED  BY <1>5, <1>6, <1>7, <1>8

(* RemoveAt, element by element. *)
LEMMA RemoveAtElements ==
  ASSUME NEW D, NEW s \in Seq(D), NEW i \in 1..Len(s)
  PROVE  /\ RemoveAt(s, i) \in Seq(D)
         /\ Len(RemoveAt(s, i)) = Len(s) - 1
         /\ \A k \in 1..(Len(s)-1) :
              RemoveAt(s, i)[k] = IF k < i THEN s[k] ELSE s[k+1]
<1> DEFINE n == Len(s)
           l == SubSeq(s, 1, i-1)
           r == SubSeq(s, i+1, n)
<1>1. n \in Nat /\ i \in Nat /\ 1 <= i /\ i <= n /\ \A k \in 1..n : s[k] \in D
  BY ListLen
<1>2. /\ l \in Seq(D) /\ Len(l) = i - 1
      /\ \A k \in 1..(i-1) : l[k] = s[k]
  <2>1. \A k \in 1..(i-1) : s[k] \in D  BY <1>1
  <2> QED  BY <1>1, <2>1, ListSubSeq
<1>3. /\ r \in Seq(D) /\ Len(r) = n - i
      /\ \A k \in 1..(n-i) : r[k] = s[i+k]
  <2>1. \A k \in (i+1)..n : s[k] \in D  BY <1>1
  <2>2. n - (i+1) + 1 = n - i /\ i + 1 \in Int /\ \A k \in 1..(n-i) : (i+1) + k - 1 = i + k
    BY <1>1
  <2>3. /\ r \in Seq(D) /\ Len(r) = IF i+1 <= n THEN n - (i+1) + 1 ELSE 0
        /\ \A k \in 1..(n-(i+1)+1) : r[k] = s[(i+1)+k-1]
    BY <1>1, <2>1, <2>2, ListSubSeq
  <2> HIDE DEF n, r
  <2>4. Len(r) = n - i
    <3>1. CASE i+1 <= n  BY <2>2, <2>3, <3>1
    <3>2. CASE ~(i+1 <= n)
      <4>1. n - i = 0  BY <1>1, <3>2
      <4> QED  BY <2>3, <3>2, <4>1
    <3> QED  BY <3>1, <3>2
  <2>5. ASSUME NEW k \in 1..(n-i) PROVE r[k] = s[i+k]
    <3>1. k \in 1..(n-(i+1)+1) /\ (i+1) + k - 1 = i + k  BY <2>2
    <3>2. r[k] = s[(i+1)+k-1]  BY <2>3, <3>1
    <3> QED  BY <3>1, <3>2
  <2> QED  BY <2>3, <2>4, <2>5
<1>4. RemoveAt(s, i) = l \o r
  BY DEF RemoveAt
<1> HIDE DEF r, l
<1>5. /\ l \o r \in Seq(D) /\ Len(l \o r) = Len(l) + Len(r)
      /\ \A k \in 1..(Len(l) + Len(r)) :
           (l \o r)[k] = IF k <= Len(l) THEN l[k] ELSE r[k - Len(l)]
  BY ZenonT(30), <1>2, <1>3, ListConcat
<1>6. Len(l) = i - 1 /\ Len(l) + Len(r) = n - 1  BY <1>1, <1>2, <1>3
<1>7. \A k \in 1..(n-1) : (l \o r)[k] = IF k < i THEN s[k] ELSE s[k+1]
  <2> TAKE k \in 1..(n-1)
  <2>1. CASE k < i  BY <1>1, <1>2, <1>5, <1>6, <2>1
  <2>2. CASE k >= i
    <3>1. k - (i-1) \in 1..(n-i) /\ i + (k - (i - 1)) = k + 1  BY <1>1, <2>2
    <3>2. r[k-(i-1)] = s[k+1]  BY <1>3, <3>1
    <3> QED  BY <1>1, <1>5, <1>6, <2>2, <3>2
  <2>3. k < i \/ k >= i  BY <1>1
  <2> QED  BY <2>1, <2>2, <2>3, Zenon
<1> QED  BY <1>4, <1>5, <1>6, <1>7

(* PushIdx is a position of the list or the one after its end. *)
LEMMA PushIdxRange ==
  ASSUME LeastExists, NEW s \in Seq(Desc), NEW e \in Desc
  PROVE  PushIdx(s, e) \in 1..(Len(s)+1)
<1> DEFINE n == Len(s)
           Behind == {i \in 1..n : s[i].prio > e.prio}
           Fits(i) == /\ \A j \in 1..(i - 1) : s[j].prio <= e.prio
                      /\ i <= n => s[i].prio > e.prio
<1>1. n \in Nat /\ e.prio \in Nat /\ \A i \in 1..n : s[i].prio \in Nat
  <2>1. n \in Nat /\ \A i \in 1..n : s[i] \in Desc
    BY ListLen
  <2>2. \A d \in Desc : d.prio \in Nat
    BY ZenonT(30), DescriptorAssumption DEF Desc
  <2> QED  BY <2>1, <2>2
<1>2. \E i \in 1..(n+1) : Fits(i)
  <2>1. CASE Behind = {}
    <3>1. Fits(n + 1)
      BY <1>1, <2>1
    <3> QED  BY <1>1, <3>1
  <2>2. CASE Behind # {}
    <3>1. Behind \subseteq Nat
      OBVIOUS
    <3> HIDE DEF Behind
    <3>2. PICK i \in Behind : \A j \in Behind : i <= j
      BY ZenonT(30), <2>2, <3>1 DEF LeastExists
    <3>3. Fits(i)
      BY <1>1, <3>2 DEF Behind
    <3> QED  BY <1>1, <3>2, <3>3 DEF Behind
  <2> QED  BY <2>1, <2>2
<1>3. PushIdx(s, e) = CHOOSE i \in 1..(n+1) : Fits(i)
  BY DEF PushIdx
<1> HIDE DEF Fits
<1> QED  BY <1>2, <1>3

(* A slot holds at most one application. *)
LEMMA SlotAppsOf ==
  ASSUME NEW slot \in Slot(Desc)
  PROVE  /\ slot = <<>> => SlotApps(slot) = {} /\ Len(slot) = 0
         /\ slot # <<>> => /\ SlotApps(slot) = {slot[1].app}
                          /\ Len(slot) = 1
                          /\ slot[1] \in Desc
<1>1. CASE slot = <<>>
  BY <1>1 DEF SlotApps
<1>2. CASE slot # <<>>
  <2>1. PICK d \in Desc : slot = <<d>>  BY <1>2 DEF Slot
  <2>2. DOMAIN slot = {1} /\ slot[1] = d /\ Len(slot) = 1  BY <2>1
  <2> QED  BY <1>2, <2>2 DEF SlotApps
<1> QED  BY <1>1, <1>2

(* Inserting an application that is not in the list. *)
LEMMA PushApps ==
  ASSUME LeastExists, NEW s \in Seq(Desc), NEW slot \in Slot(Desc), Distinct(s),
         slot # <<>> => slot[1].app \notin Apps(s)
  PROVE  /\ Push(s, slot) \in Seq(Desc)
         /\ Len(Push(s, slot)) = Len(s) + Len(slot)
         /\ Distinct(Push(s, slot))
         /\ Apps(Push(s, slot)) = Apps(s) \cup SlotApps(slot)
<1>1. CASE slot = <<>>
  <2>1. Push(s, slot) = s  BY <1>1 DEF Push
  <2>2. Len(slot) = 0 /\ SlotApps(slot) = {} /\ Len(s) \in Nat  BY <1>1, SlotAppsOf, ListLen
  <2> QED  BY <2>1, <2>2
<1>2. CASE slot # <<>>
  <2> DEFINE e == slot[1]
             i == PushIdx(s, e)
             t == InsertAt(s, i, e)
             n == Len(s)
  <2>1. e \in Desc /\ Len(slot) = 1 /\ SlotApps(slot) = {e.app}  BY <1>2, SlotAppsOf
  <2>2. i \in 1..(n+1)  BY <2>1, PushIdxRange
  <2>3. Push(s, slot) = t  BY <1>2 DEF Push
  <2>4. n \in Nat /\ DOMAIN s = 1..n  BY ListLen
  <2>5. e.app \notin Apps(s)  BY <1>2
  <2> HIDE DEF i, e
  <2>6. /\ t \in Seq(Desc) /\ Len(t) = n + 1
        /\ \A k \in 1..(n+1) : t[k] = IF k < i THEN s[k] ELSE IF k = i THEN e ELSE s[k-1]
    BY <2>1, <2>2, InsertAtElements
  <2> HIDE DEF t
  <2>7. DOMAIN t = 1..(n+1)  BY <2>6, ListLen
  <2>8. \A k \in 1..(n+1) :
          \/ k = i /\ t[k] = e
          \/ k < i /\ k \in 1..n /\ t[k] = s[k]
          \/ k > i /\ k - 1 \in 1..n /\ t[k] = s[k-1]
    BY <2>2, <2>4, <2>6
  <2>9. Distinct(t)
    <3> SUFFICES ASSUME NEW j \in 1..(n+1), NEW k \in 1..(n+1), t[j].app = t[k].app
                 PROVE  j = k
      BY <2>7 DEF Distinct
    <3>1. \A h \in 1..n : s[h].app # e.app  BY <2>4, <2>5 DEF Apps
    <3>2. \A g, h \in 1..n : s[g].app = s[h].app => g = h  BY <2>4 DEF Distinct
    <3>3. CASE j = i \/ k = i  BY <2>8, <3>1, <3>3
    <3>4. CASE j # i /\ k # i
      <4>1. PICK g \in 1..n : t[j] = s[g] /\ ((j < i /\ g = j) \/ (j > i /\ g = j-1))
        BY <2>8, <3>4
      <4>2. PICK h \in 1..n : t[k] = s[h] /\ ((k < i /\ h = k) \/ (k > i /\ h = k-1))
        BY <2>8, <3>4
      <4>3. g = h  BY <3>2, <4>1, <4>2
      <4> QED  BY <2>2, <2>4, <4>1, <4>2, <4>3
    <3> QED  BY <3>3, <3>4
  <2>10. Apps(t) = Apps(s) \cup {e.app}
    <3>1. Apps(t) \subseteq Apps(s) \cup {e.app}  BY <2>4, <2>7, <2>8 DEF Apps
    <3>2. e.app \in Apps(t)
      <4>1. i \in 1..(n+1) /\ t[i] = e  BY <2>2, <2>6
      <4> QED  BY <2>7, <4>1 DEF Apps
    <3>3. Apps(s) \subseteq Apps(t)
      <4> SUFFICES ASSUME NEW h \in 1..n PROVE s[h].app \in Apps(t)
        BY <2>4 DEF Apps
      <4>1. CASE h < i
        <5>1. h \in 1..(n+1) /\ t[h] = s[h]  BY <2>4, <2>6, <4>1
        <5> QED  BY <2>7, <5>1 DEF Apps
      <4>2. CASE h >= i
        <5>1. h + 1 \in 1..(n+1) /\ ~(h + 1 < i) /\ h + 1 # i /\ h + 1 - 1 = h
          BY <2>2, <2>4, <4>2
        <5>2. t[h+1] = s[h]  BY <2>6, <5>1
        <5> QED  BY <2>7, <5>1, <5>2 DEF Apps
      <4>3. h < i \/ h >= i  BY <2>2, <2>4
      <4> QED  BY <4>1, <4>2, <4>3
    <3> QED  BY <3>1, <3>2, <3>3
  <2> QED  BY <2>1, <2>3, <2>6, <2>9, <2>10
<1> QED  BY <1>1, <1>2

(* Removing an element of a list with distinct applications. *)
LEMMA RemoveApps ==
  ASSUME NEW s \in Seq(Desc), Distinct(s), NEW i \in 1..Len(s)
  PROVE  /\ RemoveAt(s, i) \in Seq(Desc)
         /\ Len(RemoveAt(s, i)) = Len(s) - 1
         /\ Distinct(RemoveAt(s, i))
         /\ Apps(RemoveAt(s, i)) = Apps(s) \ {s[i].app}
         /\ s[i] \in Desc
<1> DEFINE t == RemoveAt(s, i)
           n == Len(s)
<1>1. n \in Nat /\ DOMAIN s = 1..n /\ s[i] \in Desc  BY ListLen
<1>2. /\ t \in Seq(Desc) /\ Len(t) = n - 1
      /\ \A k \in 1..(n-1) : t[k] = IF k < i THEN s[k] ELSE s[k+1]
  BY ZenonT(30), RemoveAtElements
<1> HIDE DEF t
<1>3. DOMAIN t = 1..(n-1)  BY <1>2, ListLen
<1>4. \A k \in 1..(n-1) : \E h \in 1..n :
        /\ t[k] = s[h] /\ h # i
        /\ (k < i /\ h = k) \/ (k >= i /\ h = k+1)
  <2> TAKE k \in 1..(n-1)
  <2>1. CASE k < i
    <3>1. k \in 1..n /\ k # i  BY <1>1, <2>1
    <3>2. t[k] = s[k]  BY <1>2, <2>1
    <3> QED  BY <2>1, <3>1, <3>2
  <2>2. CASE k >= i
    <3>1. k+1 \in 1..n /\ k+1 # i /\ ~(k < i)  BY <1>1, <2>2
    <3>2. t[k] = s[k+1]  BY <1>2, <3>1
    <3> QED  BY <2>2, <3>1, <3>2
  <2>3. k < i \/ k >= i  BY <1>1
  <2> QED  BY <2>1, <2>2, <2>3
<1>5. \A g, h \in 1..n : s[g].app = s[h].app => g = h  BY <1>1 DEF Distinct
<1>6. Distinct(t)
  <2> SUFFICES ASSUME NEW j \in 1..(n-1), NEW k \in 1..(n-1), t[j].app = t[k].app
               PROVE  j = k
    BY <1>3 DEF Distinct
  <2>1. PICK g \in 1..n : t[j] = s[g] /\ ((j < i /\ g = j) \/ (j >= i /\ g = j+1))
    BY <1>4
  <2>2. PICK h \in 1..n : t[k] = s[h] /\ ((k < i /\ h = k) \/ (k >= i /\ h = k+1))
    BY <1>4
  <2>3. g = h  BY <1>5, <2>1, <2>2
  <2> QED  BY <1>1, <2>1, <2>2, <2>3
<1>7. Apps(t) \subseteq Apps(s) \ {s[i].app}
  <2> SUFFICES ASSUME NEW k \in 1..(n-1) PROVE t[k].app \in Apps(s) /\ t[k].app # s[i].app
    BY <1>3 DEF Apps
  <2>1. PICK h \in 1..n : t[k] = s[h] /\ h # i  BY <1>4
  <2> QED  BY <1>1, <1>5, <2>1 DEF Apps
<1>8. Apps(s) \ {s[i].app} \subseteq Apps(t)
  <2> SUFFICES ASSUME NEW h \in 1..n, h # i PROVE s[h].app \in Apps(t)
    BY <1>1 DEF Apps
  <2>1. CASE h < i
    <3>1. h \in 1..(n-1) /\ t[h] = s[h]  BY <1>1, <1>2, <2>1
    <3> QED  BY <1>3, <3>1 DEF Apps
  <2>2. CASE h > i
    <3>1. h - 1 \in 1..(n-1) /\ ~(h - 1 < i) /\ h - 1 + 1 = h  BY <1>1, <2>2
    <3>2. t[h-1] = s[h]  BY <1>2, <3>1
    <3> QED  BY <1>3, <3>1, <3>2 DEF Apps
  <2>3. h < i \/ h > i  BY <1>1
  <2> QED  BY <2>1, <2>2, <2>3
<1> QED  BY <1>1, <1>2, <1>6, <1>7, <1>8 DEF t

(***************************************************************************)
(* A clock edge of a list that is driven as Discipline allows: the         *)
(* applications in the list or on its output change by the insertions, and *)
(* no application is there twice.                                          *)
(***************************************************************************)
ListInv ==
  /\ pf \in Seq(Desc)
  /\ ovld_0 \in Slot(Desc)
  /\ Distinct(pf)
  /\ ovld_0 # <<>> => ovld_0[1].app \notin Apps(pf)

(* What Discipline says of an insertion, in terms of application sets. *)
LEMMA DisciplineApps ==
  ASSUME ListInv, NEW pop, NEW p1 \in Slot(Desc), NEW p2 \in Slot(Desc),
         Discipline(pop, p1, p2)
  PROVE  /\ p1 # <<>> => p1[1].app \notin Apps(pf) /\ p1[1].app \notin SlotApps(ovld_0)
         /\ p2 # <<>> => p2 = ovld_0
         /\ pop => ovld_0 = <<>> /\ p2 = <<>>
<1>1. ovld_0 = <<>> => SlotApps(ovld_0) = {}  BY DEF SlotApps
<1>2. ovld_0 # <<>> => SlotApps(ovld_0) = {ovld_0[1].app}  BY SlotAppsOf DEF ListInv
<1> QED  BY <1>1, <1>2 DEF Discipline, Apps

(* The insertions, into a list without their applications. *)
LEMMA PushTwo ==
  ASSUME LeastExists, NEW s \in Seq(Desc), Distinct(s),
         NEW p1 \in Slot(Desc), NEW p2 \in Slot(Desc),
         p1 # <<>> => p1[1].app \notin Apps(s),
         p2 # <<>> => p2[1].app \notin Apps(s) /\ p2[1].app \notin SlotApps(p1),
         NEW t, t = Push(Push(s, p1), p2)
  PROVE  /\ t \in Seq(Desc) /\ Distinct(t)
         /\ Apps(t) = Apps(s) \cup SlotApps(p1) \cup SlotApps(p2)
         /\ Len(t) = Len(s) + Len(p1) + Len(p2)
<1> DEFINE u == Push(s, p1)
<1>1. /\ u \in Seq(Desc) /\ Distinct(u)
      /\ Apps(u) = Apps(s) \cup SlotApps(p1) /\ Len(u) = Len(s) + Len(p1)
  BY PushApps
<1>2. p2 # <<>> => p2[1].app \notin Apps(u)  BY <1>1
<1> HIDE DEF u
<1>3. /\ Push(u, p2) \in Seq(Desc) /\ Distinct(Push(u, p2))
      /\ Apps(Push(u, p2)) = Apps(u) \cup SlotApps(p2)
      /\ Len(Push(u, p2)) = Len(u) + Len(p2)
  BY Zenon, <1>1, <1>2, PushApps
<1> QED  BY <1>1, <1>3 DEF u

(* The step itself. *)
LEMMA ListStep ==
  ASSUME LeastExists, ListInv, NEW pop \in BOOLEAN,
         NEW p1 \in Slot(Desc), NEW p2 \in Slot(Desc), NEW mask,
         Discipline(pop, p1, p2), ListClock(pop, p1, p2, mask)
  PROVE  /\ ListInv'
         /\ Apps(pf') \cup SlotApps(ovld_0') = Apps(pf) \cup SlotApps(p1) \cup SlotApps(p2)
         /\ Len(pf') + Len(ovld_0') = Len(pf) + Len(p1) + Len(p2)
         /\ push_lo' \in Slot(App)
         /\ ovld_0' # <<>> => pop
<1>1. /\ pf \in Seq(Desc) /\ ovld_0 \in Slot(Desc) /\ Distinct(pf)
      /\ ovld_0 # <<>> => ovld_0[1].app \notin Apps(pf)
  BY DEF ListInv
<1>2. /\ p1 # <<>> => p1[1].app \notin Apps(pf) /\ p1[1].app \notin SlotApps(ovld_0)
      /\ p2 # <<>> => p2 = ovld_0
      /\ pop => ovld_0 = <<>> /\ p2 = <<>>
  BY DisciplineApps
<1>3. \A x \in Slot(Desc) :
        /\ x = <<>> => SlotApps(x) = {} /\ Len(x) = 0
        /\ x # <<>> => SlotApps(x) = {x[1].app} /\ Len(x) = 1 /\ x[1] \in Desc
  BY SlotAppsOf
<1>4. Len(pf) \in Nat /\ Len(p1) \in Nat /\ Len(p2) \in Nat /\ DOMAIN pf = 1..Len(pf)
  BY <1>1, <1>3, ListLen
<1>5. push_lo' \in Slot(App)
  <2>1. p1 # <<>> => p1[1].app \in App  BY ZenonT(30), <1>3 DEF Desc
  <2>2. p2 # <<>> => p2[1].app \in App  BY ZenonT(30), <1>3 DEF Desc
  <2> QED  BY <2>1, <2>2 DEF ListClock, Slot
<1>6. CASE ovld_0' = <<>> /\ pf' = Push(Push(pf, p1), p2)
  <2>1. ASSUME p2 # <<>>
        PROVE  p2[1].app \notin Apps(pf) /\ p2[1].app \notin SlotApps(p1)
    <3>1. p2 = ovld_0 /\ ovld_0 # <<>>  BY <1>2, <2>1
    <3>2. p2[1].app \notin Apps(pf)  BY <1>1, <3>1
    <3>3. SlotApps(ovld_0) = {p2[1].app}  BY <1>1, <1>3, <3>1
    <3>4. CASE p1 = <<>>
      <4>1. SlotApps(p1) = {}  BY <1>3, <3>4
      <4> QED  BY <3>2, <4>1
    <3>5. CASE p1 # <<>>
      <4>1. SlotApps(p1) = {p1[1].app}  BY <1>3, <3>5
      <4>2. p1[1].app # p2[1].app  BY <1>2, <3>3, <3>5
      <4> QED  BY <3>2, <4>1, <4>2
    <3> QED  BY <3>4, <3>5
  <2>2. /\ pf' \in Seq(Desc) /\ Distinct(pf')
        /\ Apps(pf') = Apps(pf) \cup SlotApps(p1) \cup SlotApps(p2)
        /\ Len(pf') = Len(pf) + Len(p1) + Len(p2)
    BY <1>1, <1>2, <1>6, <2>1, PushTwo
  <2>3. ovld_0' \in Slot(Desc) /\ SlotApps(ovld_0') = {} /\ Len(ovld_0') = 0
    <3>1. ovld_0' \in Slot(Desc)  BY <1>6 DEF Slot
    <3> QED  BY <1>3, <1>6, <3>1
  <2>4. ListInv'  BY <1>6, <2>2, <2>3 DEF ListInv
  <2>5. Len(pf') + Len(ovld_0') = Len(pf) + Len(p1) + Len(p2)  BY <1>4, <2>2, <2>3
  <2> QED  BY <1>5, <1>6, <2>2, <2>3, <2>4, <2>5
<1>7. ASSUME pop, NEW i \in DOMAIN pf, ovld_0' = <<pf[i]>>,
             pf' = Push(Push(RemoveAt(pf, i), p1), p2)
      PROVE  /\ ListInv'
             /\ Apps(pf') \cup SlotApps(ovld_0') = Apps(pf) \cup SlotApps(p1) \cup SlotApps(p2)
             /\ Len(pf') + Len(ovld_0') = Len(pf) + Len(p1) + Len(p2)
  <2> DEFINE r == RemoveAt(pf, i)
             e == pf[i]
  <2>1. /\ r \in Seq(Desc) /\ Distinct(r) /\ Len(r) = Len(pf) - 1
        /\ Apps(r) = Apps(pf) \ {e.app} /\ e \in Desc
    BY ZenonT(30), <1>1, <1>4, <1>7, RemoveApps
  <2>2. e.app \in Apps(pf)  BY <1>7 DEF Apps
  <2>3. p2 = <<>> /\ ovld_0' = <<e>> /\ pf' = Push(Push(r, p1), p2)  BY <1>2, <1>7
  <2> HIDE DEF r, e
  <2>4. /\ pf' \in Seq(Desc) /\ Distinct(pf')
        /\ Apps(pf') = Apps(r) \cup SlotApps(p1) \cup SlotApps(p2)
        /\ Len(pf') = Len(r) + Len(p1) + Len(p2)
    <3>1. p1 # <<>> => p1[1].app \notin Apps(r)  BY <1>2, <2>1
    <3>2. p2 # <<>> => p2[1].app \notin Apps(r) /\ p2[1].app \notin SlotApps(p1)
      BY <2>3
    <3>3. ASSUME NEW t, t = Push(Push(r, p1), p2)
          PROVE  /\ t \in Seq(Desc) /\ Distinct(t)
                 /\ Apps(t) = Apps(r) \cup SlotApps(p1) \cup SlotApps(p2)
                 /\ Len(t) = Len(r) + Len(p1) + Len(p2)
      <4>1. r \in Seq(Desc) /\ Distinct(r)  BY <2>1
      <4> QED  BY <3>1, <3>2, <3>3, <4>1, PushTwo
    <3> QED  BY <2>3, <3>3
  <2>5. ovld_0' \in Slot(Desc) /\ ovld_0' # <<>> /\ ovld_0'[1] = e
    BY <2>1, <2>3 DEF Slot
  <2>6. SlotApps(ovld_0') = {e.app} /\ Len(ovld_0') = 1  BY <1>3, <2>5
  <2>7. e.app \notin Apps(pf')
    <3>1. SlotApps(p2) = {} /\ e.app \notin SlotApps(p1)  BY <1>2, <1>3, <2>2, <2>3
    <3> QED  BY <2>1, <2>4, <3>1
  <2>8. ListInv'  BY <2>4, <2>5, <2>7 DEF ListInv
  <2>9. Apps(pf') \cup SlotApps(ovld_0') = Apps(pf) \cup SlotApps(p1) \cup SlotApps(p2)
    BY <2>1, <2>2, <2>4, <2>6
  <2>10. Len(pf') + Len(ovld_0') = Len(pf) + Len(p1) + Len(p2)
    BY <1>4, <2>1, <2>4, <2>6
  <2> QED  BY <2>8, <2>9, <2>10
<1>8. \/ ovld_0' = <<>> /\ pf' = Push(Push(pf, p1), p2)
      \/ pop /\ \E i \in DOMAIN pf : ovld_0' = <<pf[i]>> /\ pf' = Push(Push(RemoveAt(pf, i), p1), p2)
  BY DEF ListClock, Poppable
<1> QED
  <2>1. CASE pop /\ \E i \in DOMAIN pf : ovld_0' = <<pf[i]>> /\ pf' = Push(Push(RemoveAt(pf, i), p1), p2)
    BY <1>5, <1>7, <2>1
  <2> QED  BY <1>6, <1>8, <2>1
=============================================================================
