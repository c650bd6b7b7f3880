--------------------------- MODULE DescriptorLists ---------------------------
(***************************************************************************)
(* Lemmas on lists of descriptors, as both USB controllers and their       *)
(* drivers keep them: every descriptor is at one position of one list, and *)
(* the driver finds the list by a pointer to its first descriptor and a    *)
(* link in each.  The operators say how a list that is given as a sequence *)
(* lies in such pointers, and the lemmas what happens to it when a         *)
(* descriptor is unlinked here and linked there.                           *)
(***************************************************************************)
EXTENDS Integers, Sequences, SequencesExt, FiniteSets, Functions, FiniteSetTheorems,
        FunctionTheorems, SequenceTheorems, NaturalsInduction, WellFoundedInduction,
        TLAPS

(* Every member of T is at one position of one of the lists s[p].          *)
Arranged(s, P, T) ==
  /\ s \in [P -> Seq(T)]
  /\ \A t \in T : \E p \in P : \E i \in 1 .. Len(s[p]) : s[p][i] = t
  /\ \A p, q \in P : \A i \in 1 .. Len(s[p]), j \in 1 .. Len(s[q]) :
       s[p][i] = s[q][j] => p = q /\ i = j

(* l backwards in front of m.                                              *)
ReversedOn(l, m) == Reverse(l) \o m

(* A member, or all, of the list at p goes to the list at q: in front,     *)
(* behind, where there was nothing, or in front and backwards.             *)
MoveFirst(s, p, q) == [s EXCEPT ![p] = Tail(s[p]), ![q] = <<Head(s[p])>> \o s[q]]
MoveLast(s, p, q)  == [s EXCEPT ![p] = Tail(s[p]), ![q] = Append(s[q], Head(s[p]))]
MoveAll(s, p, q)   == [s EXCEPT ![p] = <<>>, ![q] = s[p]]
MoveBack(s, p, q)  == [s EXCEPT ![p] = <<>>, ![q] = ReversedOn(s[p], s[q])]

(* Only the lists at p and q differ.                                       *)
Moved(s, n, P, p, q, atp, atq) ==
  /\ n[p] = atp /\ n[q] = atq
  /\ \A r \in P : r # p /\ r # q => n[r] = s[r]

(* The tail of a sequence, position by position.                           *)
LEMMA TailIs ==
  ASSUME NEW T, NEW l \in Seq(T), l # <<>>
  PROVE  /\ Tail(l) \in Seq(T) /\ Head(l) \in T /\ Head(l) = l[1]
         /\ Len(l) \in Nat \ {0} /\ Len(Tail(l)) = Len(l) - 1
         /\ \A i \in 1 .. Len(Tail(l)) : Tail(l)[i] = l[i + 1]
OBVIOUS

(* A list with one more in front, position by position.                    *)
LEMMA PushIs ==
  ASSUME NEW T, NEW l \in Seq(T), NEW t \in T
  PROVE  /\ <<t>> \o l \in Seq(T) /\ Len(<<t>> \o l) = Len(l) + 1
         /\ (<<t>> \o l)[1] = t
         /\ \A i \in 1 .. Len(l) : (<<t>> \o l)[i + 1] = l[i]
         /\ \A i \in 2 .. Len(l) + 1 : (<<t>> \o l)[i] = l[i - 1]
OBVIOUS

(* A list with one more behind, position by position.                      *)
LEMMA AppendIs ==
  ASSUME NEW T, NEW l \in Seq(T), NEW t \in T
  PROVE  /\ Append(l, t) \in Seq(T) /\ Len(Append(l, t)) = Len(l) + 1
         /\ Append(l, t)[Len(l) + 1] = t
         /\ \A i \in 1 .. Len(l) : Append(l, t)[i] = l[i]
OBVIOUS

(* r is l backwards, then m.                                               *)
Spliced(r, l, m) ==
  /\ Len(r) = Len(l) + Len(m)
  /\ \A i \in 1 .. Len(l) : r[i] = l[Len(l) + 1 - i]
  /\ \A i \in Len(l) + 1 .. Len(l) + Len(m) : r[i] = m[i - Len(l)]

(* ReversedOn, position by position.                                       *)
LEMMA ReverseIs ==
  ASSUME NEW T, NEW l \in Seq(T), NEW m \in Seq(T)
  PROVE  ReversedOn(l, m) \in Seq(T) /\ Spliced(ReversedOn(l, m), l, m)
<1>1. Reverse(l) \in Seq(T) /\ Len(Reverse(l)) = Len(l)
  BY DEF Reverse
<1>2. \A i \in 1 .. Len(l) : Reverse(l)[i] = l[Len(l) + 1 - i]
  BY DEF Reverse
<1> DEFINE r == Reverse(l)
<1>3. /\ r \in Seq(T) /\ Len(r) = Len(l)
      /\ \A i \in 1 .. Len(l) : r[i] = l[Len(l) + 1 - i]
  BY <1>1, <1>2
<1>4. r \o m = ReversedOn(l, m)
  BY DEF ReversedOn
<1> HIDE DEF r
<1>5. r \o m \in Seq(T) /\ Len(r \o m) = Len(l) + Len(m)
  BY <1>3
<1>6. \A i \in 1 .. Len(l) : (r \o m)[i] = l[Len(l) + 1 - i]
  BY <1>3
<1>7. \A i \in Len(l) + 1 .. Len(l) + Len(m) : (r \o m)[i] = m[i - Len(l)]
  BY <1>3
<1> QED BY <1>4, <1>5, <1>6, <1>7 DEF Spliced

(* The first of a list goes to the front of another one.                   *)
LEMMA ArrangedMoveFirst ==
  ASSUME NEW P, NEW T, NEW s, Arranged(s, P, T), NEW p \in P, NEW q \in P, p # q,
         s[p] # <<>>
  PROVE  /\ Arranged(MoveFirst(s, p, q), P, T)
         /\ Moved(s, MoveFirst(s, p, q), P, p, q, Tail(s[p]), <<Head(s[p])>> \o s[q])
<1> DEFINE n == MoveFirst(s, p, q)
<1>1. s[p] \in Seq(T) /\ s[q] \in Seq(T)
  BY DEF Arranged
<1>2. /\ n \in [P -> Seq(T)] /\ n[p] = Tail(s[p]) /\ n[q] = <<Head(s[p])>> \o s[q]
      /\ \A r \in P \ {p, q} : n[r] = s[r]
  BY <1>1, TailIs, PushIs, AppendIs DEF Arranged, MoveFirst
<1>3. /\ Len(n[p]) = Len(s[p]) - 1 /\ Len(n[q]) = Len(s[q]) + 1 /\ n[q][1] = s[p][1]
      /\ Len(s[p]) \in Nat \ {0} /\ Len(s[q]) \in Nat
      /\ \A i \in 1 .. Len(n[p]) : n[p][i] = s[p][i + 1]
      /\ \A i \in 2 .. Len(n[q]) : n[q][i] = s[q][i - 1]
      /\ \A i \in 1 .. Len(s[q]) : n[q][i + 1] = s[q][i]
  BY <1>1, <1>2, TailIs, PushIs, AppendIs
<1>4. ASSUME NEW t \in T PROVE \E r \in P : \E i \in 1 .. Len(n[r]) : n[r][i] = t
  <2>1. PICK r \in P : \E i \in 1 .. Len(s[r]) : s[r][i] = t
    BY DEF Arranged
  <2>2. PICK i \in 1 .. Len(s[r]) : s[r][i] = t
    BY <2>1
  <2>3. CASE r = p /\ i = 1
    <3>1. 1 \in 1 .. Len(n[q]) /\ n[q][1] = t
      BY <1>3, <2>2, <2>3
    <3> QED BY <3>1
  <2>4. CASE r = p /\ i # 1
    <3>1. i - 1 \in 1 .. Len(n[p]) /\ n[p][i - 1] = t
      BY <1>3, <2>2, <2>4
    <3> QED BY <3>1
  <2>5. CASE r = q
    <3>1. i + 1 \in 1 .. Len(n[q]) /\ n[q][i + 1] = t
      BY <1>3, <2>2, <2>5
    <3> QED BY <3>1
  <2>6. CASE r \notin {p, q}
    BY <1>2, <2>2, <2>6
  <2> QED BY <2>3, <2>4, <2>5, <2>6
<1>5. \A a, b \in P : \A i \in 1 .. Len(s[a]), j \in 1 .. Len(s[b]) :
        s[a][i] = s[b][j] => a = b /\ i = j
  BY DEF Arranged
<1> DEFINE from(r, i) == IF r = p THEN <<p, i + 1>>
                    ELSE IF r # q THEN <<r, i>>
                    ELSE IF i = 1 THEN <<p, 1>> ELSE <<q, i - 1>>
<1>6. ASSUME NEW r \in P, NEW i \in 1 .. Len(n[r])
      PROVE  /\ from(r, i)[1] \in P /\ from(r, i)[2] \in 1 .. Len(s[from(r, i)[1]])
             /\ n[r][i] = s[from(r, i)[1]][from(r, i)[2]]
  <2>1. CASE r = p
    BY <2>1, <1>2, <1>3
  <2>2. CASE r = q /\ i = 1
    BY <2>2, <1>2, <1>3
  <2>3. CASE r = q /\ i # 1
    BY <2>3, <1>2, <1>3
  <2>4. CASE r \notin {p, q}
    BY <2>4, <1>2, <1>3
  <2> QED BY <2>1, <2>2, <2>3, <2>4
<1>7. ASSUME NEW a \in P, NEW b \in P, NEW i \in 1 .. Len(n[a]), NEW j \in 1 .. Len(n[b]),
             n[a][i] = n[b][j]
      PROVE  a = b /\ i = j
  <2> DEFINE u == from(a, i) v == from(b, j)
  <2>1. /\ u[1] \in P /\ u[2] \in 1 .. Len(s[u[1]]) /\ n[a][i] = s[u[1]][u[2]]
        /\ v[1] \in P /\ v[2] \in 1 .. Len(s[v[1]]) /\ n[b][j] = s[v[1]][v[2]]
    BY <1>6
  <2>2. u[1] = v[1] /\ u[2] = v[2]
    <3>1. n[a][i] = n[b][j]
      BY <1>7
    <3> HIDE DEF u, v, n
    <3>2. s[u[1]][u[2]] = s[v[1]][v[2]]
      BY <3>1, <2>1
    <3> QED BY ONLY <1>5, <3>2, <2>1
  <2>3. i \in Nat /\ j \in Nat /\ i >= 1 /\ j >= 1
    BY <1>2
  <2> QED BY <1>3, <2>2, <2>3
<1> QED BY <1>2, <1>4, <1>7 DEF Arranged, Moved

(* The first of a list goes to the end of another one.                     *)
LEMMA ArrangedMoveLast ==
  ASSUME NEW P, NEW T, NEW s, Arranged(s, P, T), NEW p \in P, NEW q \in P, p # q,
         s[p] # <<>>
  PROVE  /\ Arranged(MoveLast(s, p, q), P, T)
         /\ Moved(s, MoveLast(s, p, q), P, p, q, Tail(s[p]), Append(s[q], Head(s[p])))
<1> DEFINE n == MoveLast(s, p, q)
<1>1. s[p] \in Seq(T) /\ s[q] \in Seq(T)
  BY DEF Arranged
<1>2. /\ n \in [P -> Seq(T)] /\ n[p] = Tail(s[p]) /\ n[q] = Append(s[q], Head(s[p]))
      /\ \A r \in P \ {p, q} : n[r] = s[r]
  BY <1>1, TailIs, PushIs, AppendIs DEF Arranged, MoveLast
<1>3. /\ Len(n[p]) = Len(s[p]) - 1 /\ Len(n[q]) = Len(s[q]) + 1
      /\ Len(s[p]) \in Nat \ {0} /\ Len(s[q]) \in Nat
      /\ n[q][Len(s[q]) + 1] = s[p][1]
      /\ \A i \in 1 .. Len(n[p]) : n[p][i] = s[p][i + 1]
      /\ \A i \in 1 .. Len(s[q]) : n[q][i] = s[q][i]
  BY <1>1, <1>2, TailIs, PushIs, AppendIs
<1>4. ASSUME NEW t \in T PROVE \E r \in P : \E i \in 1 .. Len(n[r]) : n[r][i] = t
  <2>1. PICK r \in P : \E i \in 1 .. Len(s[r]) : s[r][i] = t
    BY DEF Arranged
  <2>2. PICK i \in 1 .. Len(s[r]) : s[r][i] = t
    BY <2>1
  <2>3. CASE r = p /\ i = 1
    <3>1. Len(s[q]) + 1 \in 1 .. Len(n[q]) /\ n[q][Len(s[q]) + 1] = t
      BY <1>3, <2>2, <2>3
    <3> QED BY <3>1
  <2>4. CASE r = p /\ i # 1
    <3>1. i - 1 \in 1 .. Len(n[p]) /\ n[p][i - 1] = t
      BY <1>3, <2>2, <2>4
    <3> QED BY <3>1
  <2>5. CASE r = q
    <3>1. i \in 1 .. Len(n[q]) /\ n[q][i] = t
      BY <1>3, <2>2, <2>5
    <3> QED BY <3>1
  <2>6. CASE r \notin {p, q}
    BY <1>2, <2>2, <2>6
  <2> QED BY <2>3, <2>4, <2>5, <2>6
<1>5. \A a, b \in P : \A i \in 1 .. Len(s[a]), j \in 1 .. Len(s[b]) :
        s[a][i] = s[b][j] => a = b /\ i = j
  BY DEF Arranged
<1> DEFINE from(r, i) == IF r = p THEN <<p, i + 1>>
                    ELSE IF r # q THEN <<r, i>>
                    ELSE IF i = Len(s[q]) + 1 THEN <<p, 1>> ELSE <<q, i>>
<1>6. ASSUME NEW r \in P, NEW i \in 1 .. Len(n[r])
      PROVE  /\ from(r, i)[1] \in P /\ from(r, i)[2] \in 1 .. Len(s[from(r, i)[1]])
             /\ n[r][i] = s[from(r, i)[1]][from(r, i)[2]]
  <2>1. CASE r = p
    BY <2>1, <1>2, <1>3
  <2>2. CASE r = q /\ i = Len(s[q]) + 1
    BY <2>2, <1>2, <1>3
  <2>3. CASE r = q /\ i # Len(s[q]) + 1
    BY <2>3, <1>2, <1>3
  <2>4. CASE r \notin {p, q}
    BY <2>4, <1>2, <1>3
  <2> QED BY <2>1, <2>2, <2>3, <2>4
<1>7. ASSUME NEW a \in P, NEW b \in P, NEW i \in 1 .. Len(n[a]), NEW j \in 1 .. Len(n[b]),
             n[a][i] = n[b][j]
      PROVE  a = b /\ i = j
  <2> DEFINE u == from(a, i) v == from(b, j)
  <2>1. /\ u[1] \in P /\ u[2] \in 1 .. Len(s[u[1]]) /\ n[a][i] = s[u[1]][u[2]]
        /\ v[1] \in P /\ v[2] \in 1 .. Len(s[v[1]]) /\ n[b][j] = s[v[1]][v[2]]
    BY <1>6
  <2>2. u[1] = v[1] /\ u[2] = v[2]
    <3>1. n[a][i] = n[b][j]
      BY <1>7
    <3> HIDE DEF u, v, n
    <3>2. s[u[1]][u[2]] = s[v[1]][v[2]]
      BY <3>1, <2>1
    <3> QED BY ONLY <1>5, <3>2, <2>1
  <2>3. i \in Nat /\ j \in Nat /\ i >= 1 /\ j >= 1
    BY <1>2
  <2> QED BY <1>3, <2>2, <2>3
<1> QED BY <1>2, <1>4, <1>7 DEF Arranged, Moved

(* A list goes where there was none.                                       *)
LEMMA ArrangedMoveAll ==
  ASSUME NEW P, NEW T, NEW s, Arranged(s, P, T), NEW p \in P, NEW q \in P, p # q,
         s[q] = <<>>
  PROVE  /\ Arranged(MoveAll(s, p, q), P, T)
         /\ Moved(s, MoveAll(s, p, q), P, p, q, <<>>, s[p])
<1> DEFINE n == MoveAll(s, p, q)
<1>1. s[p] \in Seq(T) /\ s[q] \in Seq(T)
  BY DEF Arranged
<1>2. /\ n \in [P -> Seq(T)] /\ n[p] = <<>> /\ n[q] = s[p]
      /\ \A r \in P \ {p, q} : n[r] = s[r]
  BY <1>1, TailIs, PushIs, AppendIs DEF Arranged, MoveAll
<1>3. /\ Len(n[p]) = 0 /\ Len(s[q]) = 0 /\ Len(s[p]) \in Nat /\ n[q] = s[p]
  BY <1>1, <1>2, TailIs, PushIs, AppendIs
<1>4. ASSUME NEW t \in T PROVE \E r \in P : \E i \in 1 .. Len(n[r]) : n[r][i] = t
  <2>1. PICK r \in P : \E i \in 1 .. Len(s[r]) : s[r][i] = t
    BY DEF Arranged
  <2>2. PICK i \in 1 .. Len(s[r]) : s[r][i] = t
    BY <2>1
  <2>3. CASE r = p
    <3>1. i \in 1 .. Len(n[q]) /\ n[q][i] = t
      BY <1>3, <2>2, <2>3
    <3> QED BY <3>1
  <2>4. CASE r = q
    <3>1. i \in 1 .. Len(n[q]) /\ n[q][i] = t
      BY <1>3, <2>2, <2>4
    <3> QED BY <3>1
  <2>5. CASE r \notin {p, q}
    BY <1>2, <2>2, <2>5
  <2> QED BY <2>3, <2>4, <2>5
<1>5. \A a, b \in P : \A i \in 1 .. Len(s[a]), j \in 1 .. Len(s[b]) :
        s[a][i] = s[b][j] => a = b /\ i = j
  BY DEF Arranged
<1> DEFINE from(r, i) == IF r = q THEN <<p, i>> ELSE <<r, i>>
<1>6. ASSUME NEW r \in P, NEW i \in 1 .. Len(n[r])
      PROVE  /\ from(r, i)[1] \in P /\ from(r, i)[2] \in 1 .. Len(s[from(r, i)[1]])
             /\ n[r][i] = s[from(r, i)[1]][from(r, i)[2]]
  <2>1. CASE r = p
    BY <2>1, <1>2, <1>3
  <2>2. CASE r = q
    BY <2>2, <1>2, <1>3
  <2>3. CASE r \notin {p, q}
    BY <2>3, <1>2, <1>3
  <2> QED BY <2>1, <2>2, <2>3
<1>7. ASSUME NEW a \in P, NEW b \in P, NEW i \in 1 .. Len(n[a]), NEW j \in 1 .. Len(n[b]),
             n[a][i] = n[b][j]
      PROVE  a = b /\ i = j
  <2> DEFINE u == from(a, i) v == from(b, j)
  <2>1. /\ u[1] \in P /\ u[2] \in 1 .. Len(s[u[1]]) /\ n[a][i] = s[u[1]][u[2]]
        /\ v[1] \in P /\ v[2] \in 1 .. Len(s[v[1]]) /\ n[b][j] = s[v[1]][v[2]]
    BY <1>6
  <2>2. u[1] = v[1] /\ u[2] = v[2]
    <3>1. n[a][i] = n[b][j]
      BY <1>7
    <3> HIDE DEF u, v, n
    <3>2. s[u[1]][u[2]] = s[v[1]][v[2]]
      BY <3>1, <2>1
    <3> QED BY ONLY <1>5, <3>2, <2>1
  <2>3. i \in Nat /\ j \in Nat /\ i >= 1 /\ j >= 1
    BY <1>2
  <2> QED BY <1>3, <2>2, <2>3
<1> QED BY <1>2, <1>4, <1>7 DEF Arranged, Moved

(* A list goes in front of another one, backwards.                         *)
LEMMA ArrangedMoveBack ==
  ASSUME NEW P, NEW T, NEW s, Arranged(s, P, T), NEW p \in P, NEW q \in P, p # q
  PROVE  /\ Arranged(MoveBack(s, p, q), P, T)
         /\ Moved(s, MoveBack(s, p, q), P, p, q, <<>>, ReversedOn(s[p], s[q]))
<1> DEFINE n == MoveBack(s, p, q)
<1>1. s[p] \in Seq(T) /\ s[q] \in Seq(T)
  BY DEF Arranged
<1>0. ReversedOn(s[p], s[q]) \in Seq(T)
  BY <1>1, ReverseIs
<1>9. Spliced(ReversedOn(s[p], s[q]), s[p], s[q])
  BY <1>1, ReverseIs
<1>a. n = [s EXCEPT ![p] = <<>>, ![q] = ReversedOn(s[p], s[q])]
  BY DEF MoveBack
<1>b. <<>> \in Seq(T)
  OBVIOUS
<1>c. s \in [P -> Seq(T)]
  BY DEF Arranged
<1> HIDE DEF n
<1>d. n \in [P -> Seq(T)]
  BY <1>a, <1>b, <1>c, <1>0
<1>2. /\ n \in [P -> Seq(T)] /\ n[p] = <<>> /\ n[q] = ReversedOn(s[p], s[q])
      /\ \A r \in P \ {p, q} : n[r] = s[r]
  BY <1>a, <1>c, <1>d
<1>e. Len(n[p]) = 0
  BY <1>2
<1>f. Len(s[p]) \in Nat /\ Len(s[q]) \in Nat
  BY <1>1
<1>g. Len(n[q]) = Len(s[p]) + Len(s[q])
  BY <1>9, <1>2 DEF Spliced
<1>h. \A i \in 1 .. Len(s[p]) : n[q][i] = s[p][Len(s[p]) + 1 - i]
  BY <1>9, <1>2 DEF Spliced
<1>i. \A i \in Len(s[p]) + 1 .. Len(s[p]) + Len(s[q]) : n[q][i] = s[q][i - Len(s[p])]
  BY <1>9, <1>2 DEF Spliced
<1>j. PICK lp \in Nat : lp = Len(s[p])
  BY <1>f
<1>k. PICK lq \in Nat : lq = Len(s[q])
  BY <1>f
<1>3. /\ Len(n[p]) = 0 /\ Len(n[q]) = lp + lq
      /\ Len(s[p]) = lp /\ Len(s[q]) = lq
      /\ \A i \in 1 .. lp : n[q][i] = s[p][lp + 1 - i]
      /\ \A i \in lp + 1 .. lp + lq : n[q][i] = s[q][i - lp]
  BY <1>e, <1>f, <1>g, <1>h, <1>i, <1>j, <1>k
<1> HIDE DEF n
<1>4. ASSUME NEW t \in T PROVE \E r \in P : \E i \in 1 .. Len(n[r]) : n[r][i] = t
  <2>1. PICK r \in P : \E i \in 1 .. Len(s[r]) : s[r][i] = t
    BY DEF Arranged
  <2>2. PICK i \in 1 .. Len(s[r]) : s[r][i] = t
    BY <2>1
  <2>3. CASE r = p
    <3> DEFINE j == lp + 1 - i
    <3>1. j \in 1 .. Len(n[q]) /\ i \in 1 .. lp /\ s[p][i] = t
      BY <1>3, <2>2, <2>3
    <3>2. n[q][j] = t
      BY <1>3, <3>1
    <3> QED BY <3>1, <3>2
  <2>4. CASE r = q
    <3> DEFINE j == lp + i
    <3>1. j \in 1 .. Len(n[q]) /\ i \in 1 .. lq /\ s[q][i] = t
      BY <1>3, <2>2, <2>4
    <3>2. n[q][j] = t
      BY <1>3, <3>1
    <3> QED BY <3>1, <3>2
  <2>5. CASE r \notin {p, q}
    BY <1>2, <2>2, <2>5
  <2> QED BY <2>3, <2>4, <2>5
<1>5. \A a, b \in P : \A i \in 1 .. Len(s[a]), j \in 1 .. Len(s[b]) :
        s[a][i] = s[b][j] => a = b /\ i = j
  BY DEF Arranged
<1> DEFINE from(r, i) == IF r # q THEN <<r, i>>
                    ELSE IF i <= lp THEN <<p, lp + 1 - i>>
                    ELSE <<q, i - lp>>
<1>6. ASSUME NEW r \in P, NEW i \in 1 .. Len(n[r])
      PROVE  /\ from(r, i)[1] \in P /\ from(r, i)[2] \in 1 .. Len(s[from(r, i)[1]])
             /\ n[r][i] = s[from(r, i)[1]][from(r, i)[2]]
  <2>1. CASE r = p
    BY <2>1, <1>2, <1>3
  <2>2. CASE r = q /\ i <= lp
    BY <2>2, <1>2, <1>3
  <2>3. CASE r = q /\ i > lp
    BY <1>2, <2>3, <1>3
  <2>4. CASE r \notin {p, q}
    BY <2>4, <1>2, <1>3
  <2> QED BY <2>1, <2>2, <2>3, <2>4
<1>7. ASSUME NEW a \in P, NEW b \in P, NEW i \in 1 .. Len(n[a]), NEW j \in 1 .. Len(n[b]),
             n[a][i] = n[b][j]
      PROVE  a = b /\ i = j
  <2> DEFINE u == from(a, i) v == from(b, j)
  <2>1. /\ u[1] \in P /\ u[2] \in 1 .. Len(s[u[1]]) /\ n[a][i] = s[u[1]][u[2]]
        /\ v[1] \in P /\ v[2] \in 1 .. Len(s[v[1]]) /\ n[b][j] = s[v[1]][v[2]]
    BY <1>6
  <2>2. u[1] = v[1] /\ u[2] = v[2]
    <3>1. n[a][i] = n[b][j]
      BY <1>7
    <3> HIDE DEF u, v, n
    <3>2. s[u[1]][u[2]] = s[v[1]][v[2]]
      BY <3>1, <2>1
    <3> QED BY ONLY <1>5, <3>2, <2>1
  <2>3. i \in Nat /\ j \in Nat /\ i >= 1 /\ j >= 1
    BY <1>2
  <2> QED BY <1>3, <2>2, <2>3
<1> QED BY <1>2, <1>4, <1>7 DEF Arranged, Moved, n

-----------------------------------------------------------------------------
(* Linked lists.                                                           *)
(* The i-th of l, or none after its end.                                   *)
Nth(l, i, none) == IF i \in 1 .. Len(l) THEN l[i] ELSE none

(* From start, next leads through l and ends at none.                      *)
LinkedBy(l, start, next, none) ==
  /\ start = Nth(l, 1, none)
  /\ \A i \in 1 .. Len(l) : next[l[i]] = Nth(l, i + 1, none)

(* Where a list starts says whether there is one.                          *)
LEMMA LinkEmpty ==
  ASSUME NEW T, NEW none, none \notin T, NEW l \in Seq(T), NEW start, NEW next,
         LinkedBy(l, start, next, none)
  PROVE  /\ l = <<>> <=> start = none
         /\ l # <<>> => start = Head(l) /\ start \in T
BY DEF LinkedBy, Nth

(* Links of other nodes may change.                                        *)
LEMMA LinkKeeps ==
  ASSUME NEW T, NEW none, NEW l \in Seq(T), NEW start, NEW next, NEW next2,
         LinkedBy(l, start, next, none),
         \A i \in 1 .. Len(l) : next2[l[i]] = next[l[i]]
  PROVE  LinkedBy(l, start, next2, none)
BY DEF LinkedBy

(* A node that leads nowhere.                                              *)
LEMMA LinkSingle ==
  ASSUME NEW T, NEW none, NEW t \in T, NEW next, next[t] = none
  PROVE  LinkedBy(<<t>>, t, next, none)
BY DEF LinkedBy, Nth

(* A node that leads to where a list starts comes first.                   *)
LEMMA LinkPush ==
  ASSUME NEW T, NEW none, NEW l \in Seq(T), NEW start, NEW next, NEW next2,
         LinkedBy(l, start, next, none), NEW t \in T, next2[t] = start,
         \A i \in 1 .. Len(l) : next2[l[i]] = next[l[i]]
  PROVE  LinkedBy(<<t>> \o l, t, next2, none)
<1> DEFINE m == <<t>> \o l
<1>1. PICK k \in Nat : k = Len(l)
  OBVIOUS
<1>2. /\ m \in Seq(T) /\ Len(m) = k + 1 /\ m[1] = t
      /\ \A i \in 2 .. k + 1 : m[i] = l[i - 1]
  BY <1>1, PushIs
<1> HIDE DEF m
<1>3. t = Nth(m, 1, none)
  BY <1>1, <1>2 DEF Nth
<1>4. start = Nth(m, 2, none)
  BY <1>1, <1>2 DEF LinkedBy, Nth
<1>5. ASSUME NEW i \in 2 .. k + 1 PROVE next2[m[i]] = Nth(m, i + 1, none)
  <2>1. i - 1 \in 1 .. k /\ m[i] = l[i - 1] /\ (i - 1) + 1 = i
    BY <1>2
  <2>2. next2[l[i - 1]] = Nth(l, i, none)
    BY <1>1, <2>1 DEF LinkedBy
  <2>3. Nth(l, i, none) = Nth(m, i + 1, none)
    <3>1. CASE i = k + 1
      BY <3>1, <1>1, <1>2 DEF Nth
    <3>2. CASE i # k + 1
      <4>1. i \in 1 .. k /\ i + 1 \in 2 .. k + 1 /\ (i + 1) - 1 = i
        BY <3>2
      <4>2. m[i + 1] = l[i]
        BY <1>2, <4>1
      <4>3. i + 1 \in 1 .. k + 1
        BY <4>1
      <4> QED BY <1>1, <1>2, <4>1, <4>2, <4>3 DEF Nth
    <3> QED BY <3>1, <3>2
  <2> QED BY <2>1, <2>2, <2>3
<1>6. ASSUME NEW i \in 1 .. Len(m) PROVE next2[m[i]] = Nth(m, i + 1, none)
  <2>1. CASE i = 1
    BY <2>1, <1>2, <1>4
  <2>2. CASE i # 1
    BY <2>2, <1>2, <1>5
  <2> QED BY <2>1, <2>2
<1> QED BY <1>3, <1>6 DEF LinkedBy, m

(* Without its first node a list starts where that one leads to.           *)
LEMMA LinkPop ==
  ASSUME NEW T, NEW none, NEW l \in Seq(T), NEW start, NEW next,
         LinkedBy(l, start, next, none), l # <<>>
  PROVE  start = Head(l) /\ LinkedBy(Tail(l), next[start], next, none)
<1> DEFINE m == Tail(l)
<1>1. PICK k \in Nat : Len(l) = k + 1
  BY TailIs
<1>2. /\ m \in Seq(T) /\ Len(m) = k /\ Head(l) = l[1]
      /\ \A i \in 1 .. k : m[i] = l[i + 1]
  BY <1>1, TailIs
<1> HIDE DEF m
<1>3. start = l[1]
  BY <1>1 DEF LinkedBy, Nth
<1>4. \A i \in 1 .. k + 1 : Nth(l, i + 1, none) = Nth(m, i, none)
  <2> SUFFICES ASSUME NEW i \in 1 .. k + 1 PROVE Nth(l, i + 1, none) = Nth(m, i, none)
    OBVIOUS
  <2>1. CASE i = k + 1
    BY <2>1, <1>1, <1>2 DEF Nth
  <2>2. CASE i # k + 1
    <3>1. i \in 1 .. k /\ i + 1 \in 1 .. k + 1
      BY <2>2
    <3> QED BY <3>1, <1>1, <1>2 DEF Nth
  <2> QED BY <2>1, <2>2
<1>5. next[l[1]] = Nth(m, 1, none)
  <2>1. 1 \in 1 .. k + 1
    OBVIOUS
  <2>2. next[l[1]] = Nth(l, 1 + 1, none)
    BY <1>1, <2>1 DEF LinkedBy
  <2> QED BY <1>4, <2>1, <2>2
<1>6. ASSUME NEW i \in 1 .. k PROVE next[m[i]] = Nth(m, i + 1, none)
  <2>1. i + 1 \in 1 .. k + 1
    OBVIOUS
  <2>2. next[l[i + 1]] = Nth(l, (i + 1) + 1, none)
    BY <1>1, <2>1 DEF LinkedBy
  <2> QED BY <1>2, <1>4, <2>1, <2>2
<1> QED BY <1>2, <1>3, <1>5, <1>6 DEF LinkedBy, m

(* A node that the last one is made to lead to comes last.                 *)
LEMMA LinkAppend ==
  ASSUME NEW T, NEW none, NEW l \in Seq(T), NEW start, NEW next, NEW next2,
         LinkedBy(l, start, next, none), l # <<>>, NEW t \in T,
         next2[Last(l)] = t, next2[t] = none,
         \A i \in 1 .. Len(l) - 1 : next2[l[i]] = next[l[i]]
  PROVE  LinkedBy(Append(l, t), start, next2, none) /\ Last(Append(l, t)) = t
<1> DEFINE m == Append(l, t)
<1>1. PICK k \in Nat : Len(l) = k + 1
  <2>1. Len(l) \in Nat \ {0}
    BY EmptySeq
  <2>2. Len(l) - 1 \in Nat /\ Len(l) = (Len(l) - 1) + 1
    BY <2>1
  <2> QED BY <2>2
<1>2. /\ m \in Seq(T) /\ Len(m) = k + 2 /\ m[k + 2] = t
      /\ \A i \in 1 .. k + 1 : m[i] = l[i]
  <2>1. Len(m) = Len(l) + 1 /\ m[Len(l) + 1] = t /\ m \in Seq(T)
    BY AppendIs
  <2>2. Len(l) + 1 = k + 2
    BY <1>1
  <2> QED BY <1>1, <2>1, <2>2, AppendIs
<1> HIDE DEF m
<1>3. start = Nth(m, 1, none)
  BY <1>1, <1>2 DEF LinkedBy, Nth
<1>4. Last(l) = l[k + 1] /\ Last(m) = t
  BY <1>1, <1>2 DEF Last
<1>5. ASSUME NEW i \in 1 .. k + 2 PROVE next2[m[i]] = Nth(m, i + 1, none)
  <2>1. CASE i = k + 2
    <3>1. i + 1 \notin 1 .. k + 2
      BY <2>1
    <3> QED BY <3>1, <2>1, <1>2 DEF Nth
  <2>2. CASE i = k + 1
    <3>1. i + 1 = k + 2 /\ i \in 1 .. k + 1 /\ k + 2 \in 1 .. k + 2
      BY <2>2
    <3> QED BY <3>1, <2>2, <1>2, <1>4 DEF Nth
  <2>3. CASE i \in 1 .. k
    <3>1. i + 1 \in 1 .. k + 1 /\ i \in 1 .. k + 1 /\ i + 1 \in 1 .. k + 2
      BY <2>3
    <3>2. i \in 1 .. Len(l) - 1
      BY <1>1, <2>3
    <3>3. next2[l[i]] = next[l[i]] /\ next[l[i]] = Nth(l, i + 1, none)
      BY <3>1, <3>2, <1>1 DEF LinkedBy
    <3> QED BY <3>1, <3>3, <1>1, <1>2 DEF Nth
  <2> QED BY <2>1, <2>2, <2>3
<1> QED BY <1>2, <1>3, <1>4, <1>5 DEF LinkedBy, m

(* Nodes that are made to lead back, the first of them to the start of a   *)
(* list, come before it in the opposite order.                             *)
LEMMA LinkBack ==
  ASSUME NEW T, NEW none, NEW l \in Seq(T), NEW start, NEW next, NEW next2,
         LinkedBy(l, start, next, none), NEW b \in Seq(T), b # <<>>,
         next2[b[1]] = start,
         \A i \in 2 .. Len(b) : next2[b[i]] = b[i - 1],
         \A i \in 1 .. Len(l) : next2[l[i]] = next[l[i]]
  PROVE  LinkedBy(ReversedOn(b, l), Last(b), next2, none)
<1> DEFINE m == ReversedOn(b, l)
<1>1. PICK k \in Nat : k = Len(l)
  OBVIOUS
<1>2. PICK n \in Nat : n = Len(b)
  OBVIOUS
<1>3. /\ Len(m) = n + k
      /\ \A i \in 1 .. n : m[i] = b[n + 1 - i]
      /\ \A i \in n + 1 .. n + k : m[i] = l[i - n]
  BY <1>1, <1>2, ReverseIs DEF Spliced
<1>4. n > 0 /\ Last(b) = b[n]
  BY <1>2 DEF Last
<1> HIDE DEF m
<1>5. Last(b) = Nth(m, 1, none)
  <2>1. 1 \in 1 .. n /\ n + 1 - 1 = n /\ 1 \in 1 .. n + k
    BY <1>4
  <2>2. m[1] = b[n]
    BY <1>3, <2>1
  <2> QED BY <1>3, <1>4, <2>1, <2>2 DEF Nth
<1>6. \A i \in 1 .. k + 1 : Nth(m, n + i, none) = Nth(l, i, none)
  <2> SUFFICES ASSUME NEW i \in 1 .. k + 1 PROVE Nth(m, n + i, none) = Nth(l, i, none)
    OBVIOUS
  <2>1. CASE i = k + 1
    <3>1. n + i \notin 1 .. n + k /\ i \notin 1 .. k
      BY <2>1
    <3> QED BY <3>1, <1>1, <1>3 DEF Nth
  <2>2. CASE i # k + 1
    <3>1. i \in 1 .. k /\ n + i \in n + 1 .. n + k /\ (n + i) - n = i /\ n + i \in 1 .. n + k
      BY <2>2
    <3>2. m[n + i] = l[i]
      BY <1>3, <3>1
    <3> QED BY <3>1, <3>2, <1>1, <1>3 DEF Nth
  <2> QED BY <2>1, <2>2
<1>7. ASSUME NEW i \in 1 .. n + k PROVE next2[m[i]] = Nth(m, i + 1, none)
  <2>1. CASE i \in 1 .. n - 1
    <3> DEFINE j == n + 1 - i
    <3>1. j \in 2 .. n /\ i \in 1 .. n /\ i + 1 \in 1 .. n /\ n + 1 - (i + 1) = j - 1
          /\ i + 1 \in 1 .. n + k
      BY <2>1
    <3>2. m[i] = b[j] /\ m[i + 1] = b[j - 1]
      BY <1>3, <3>1
    <3>3. next2[b[j]] = b[j - 1]
      BY <1>2, <3>1
    <3> QED BY <1>3, <3>1, <3>2, <3>3 DEF Nth
  <2>2. CASE i = n
    <3>1. n \in 1 .. n /\ n + 1 - n = 1 /\ 1 \in 1 .. k + 1
      BY <1>4
    <3>2. m[i] = b[1]
      BY <1>3, <2>2, <3>1
    <3>3. start = Nth(l, 1, none)
      BY DEF LinkedBy
    <3> QED BY <1>6, <2>2, <3>1, <3>2, <3>3
  <2>3. CASE i \in n + 1 .. n + k
    <3> DEFINE j == i - n
    <3>1. j \in 1 .. k /\ j + 1 \in 1 .. k + 1 /\ n + (j + 1) = i + 1
      BY <2>3
    <3>2. m[i] = l[j]
      BY <1>3, <2>3
    <3>3. next2[l[j]] = Nth(l, j + 1, none)
      BY <1>1, <3>1 DEF LinkedBy
    <3>4. Nth(m, n + (j + 1), none) = Nth(l, j + 1, none)
      BY <1>6, <3>1
    <3> QED BY <3>1, <3>2, <3>3, <3>4
  <2> QED BY <2>1, <2>2, <2>3, <1>4
<1> QED BY <1>3, <1>5, <1>7 DEF LinkedBy, m

(* A set of natural numbers has a least member: what the inductions below  *)
(* use, on the least counterexample.                                       *)
LEMMA Least ==
  ASSUME NEW S \in SUBSET Nat, S # {}
  PROVE  \E m \in S : \A n \in S : m <= n
<1> DEFINE R == {p \in Nat \X Nat : p[1] < p[2]}
<1>1. IsWellFoundedOn(R, Nat)
  BY NatLessThanWellFounded DEF OpToRel
<1>2. PICK m \in S : \A n \in S : <<n, m>> \notin R
  BY <1>1, WFMin
<1>3. ASSUME NEW n \in S PROVE m <= n
  <2>1. /\ n \in Nat /\ m \in Nat
        /\ <<n, m>> \in Nat \X Nat /\ <<n, m>>[1] = n /\ <<n, m>>[2] = m
    OBVIOUS
  <2>2. ~ (<<n, m>>[1] < <<n, m>>[2])
    BY <1>2, <2>1
  <2> QED BY <2>1, <2>2
<1> QED BY <1>3

(* What r[k] says can be reached from start in k steps along next: the     *)
(* function that a recursive definition of it chooses.                     *)
Reached(r, n, start, next, stop, none) ==
  r = [k \in 0 .. n |->
         IF k = 0 THEN {start} \ {none}
         ELSE r[k - 1] \cup ({next[t] : t \in r[k - 1] \ {stop}} \ {none})]

(* There is such a function.                                               *)
LEMMA ReachExists ==
  ASSUME NEW n \in Nat, NEW start, NEW next, NEW stop, NEW none
  PROVE  \E r : Reached(r, n, start, next, stop, none)
<1> DEFINE Bad == {k \in Nat : ~ \E r : Reached(r, k, start, next, stop, none)}
<1> SUFFICES ASSUME Bad # {} PROVE FALSE
  OBVIOUS
<1>1. PICK m \in Bad : \A k \in Bad : m <= k
  BY Least
<1>2. CASE m = 0
  <2> DEFINE r == [k \in 0 .. 0 |-> {start} \ {none}]
  <2>1. Reached(r, 0, start, next, stop, none)
    BY DEF Reached
  <2> QED BY <1>1, <1>2, <2>1
<1>3. CASE m # 0
  <2>1. PICK k \in Nat : m = k + 1
    <3>1. m - 1 \in Nat /\ m = (m - 1) + 1
      BY <1>1, <1>3
    <3> QED BY <3>1
  <2>2. k \notin Bad
    BY <1>1, <2>1
  <2>3. PICK r : Reached(r, k, start, next, stop, none)
    BY <2>2
  <2> DEFINE q == [j \in 0 .. m |-> IF j \in 0 .. k THEN r[j]
                    ELSE r[k] \cup ({next[t] : t \in r[k] \ {stop}} \ {none})]
  <2>4. \A j \in 0 .. k : r[j] = IF j = 0 THEN {start} \ {none}
         ELSE r[j - 1] \cup ({next[t] : t \in r[j - 1] \ {stop}} \ {none})
    BY <2>3 DEF Reached
  <2>5. ASSUME NEW j \in 0 .. m
        PROVE  q[j] = IF j = 0 THEN {start} \ {none}
                 ELSE q[j - 1] \cup ({next[t] : t \in q[j - 1] \ {stop}} \ {none})
    <3>1. CASE j = 0
      <4>1. 0 \in 0 .. k /\ 0 \in 0 .. m
        BY <2>1
      <4> QED BY <3>1, <4>1, <2>4
    <3>2. CASE j \in 1 .. k
      <4>1. j \in 0 .. k /\ j - 1 \in 0 .. k /\ j \in 0 .. m /\ j - 1 \in 0 .. m /\ j # 0
        BY <3>2, <2>1
      <4>2. q[j] = r[j] /\ q[j - 1] = r[j - 1]
        BY <4>1
      <4> HIDE DEF q
      <4> QED BY <4>1, <4>2, <2>4
    <3>3. CASE j = k + 1
      <4>1. j \notin 0 .. k /\ j - 1 = k /\ k \in 0 .. k /\ k \in 0 .. m /\ j # 0
        BY <3>3, <2>1
      <4>2. q[j - 1] = r[k]
        BY <4>1
      <4> QED BY <4>1, <4>2
    <3> QED BY <2>1, <3>1, <3>2, <3>3
  <2>6. q = [j \in 0 .. m |-> q[j]]
    OBVIOUS
  <2> HIDE DEF q
  <2>7. Reached(q, m, start, next, stop, none)
    BY <2>5, <2>6 DEF Reached
  <2> QED BY <1>1, <2>7
<1> QED BY <1>2, <1>3

(* Only the last one can be stop.                                          *)
EndsAt(l, stop) == \A i \in 1 .. Len(l) : l[i] = stop => i = Len(l)

(* No member is there twice.                                               *)
Distinct(l) == \A i, j \in 1 .. Len(l) : l[i] = l[j] => i = j

(* The first k.                                                            *)
FirstOf(l, k) == {l[i] : i \in {j \in 1 .. Len(l) : j <= k}}

(* What n steps along next reach are the first n + 1 of the list.          *)
LEMMA ReachIs ==
  ASSUME NEW T, NEW none, none \notin T, NEW l \in Seq(T), NEW start, NEW next,
         LinkedBy(l, start, next, none), NEW stop, EndsAt(l, stop),
         NEW n \in Nat, NEW r, Reached(r, n, start, next, stop, none)
  PROVE  \A k \in 0 .. n : r[k] = FirstOf(l, k + 1)
<1> USE DEF FirstOf, EndsAt
<1> DEFINE Upto(k) == {l[i] : i \in {j \in 1 .. Len(l) : j <= k + 1}}
           Bad == {k \in Nat : k <= n /\ r[k] # Upto(k)}
<1> SUFFICES ASSUME Bad # {} PROVE FALSE
  OBVIOUS
<1>1. PICK m \in Bad : \A k \in Bad : m <= k
  BY Least
<1>2. \A k \in 0 .. n : r[k] = IF k = 0 THEN {start} \ {none}
         ELSE r[k - 1] \cup ({next[t] : t \in r[k - 1] \ {stop}} \ {none})
  BY DEF Reached
<1>3. PICK c \in Nat : c = Len(l)
  OBVIOUS
<1>4. CASE m = 0
  <2>1. r[0] = {start} \ {none}
    <3>1. 0 \in 0 .. n
      OBVIOUS
    <3> QED BY <1>2, <3>1
  <2>2. CASE l = <<>>
    BY <2>1, <2>2, <1>1, <1>4 DEF LinkedBy, Nth
  <2>3. CASE l # <<>>
    <3>1. c >= 1 /\ start = l[1] /\ l[1] \in T
      BY <1>3, <2>3 DEF LinkedBy, Nth
    <3>2. {j \in 1 .. Len(l) : j <= 0 + 1} = {1}
      BY <1>3, <3>1
    <3>3. Upto(0) = {l[1]}
      BY <3>2
    <3> QED BY <2>1, <3>1, <3>3, <1>1, <1>4
  <2> QED BY <2>2, <2>3
<1>5. CASE m # 0
  <2>1. PICK k \in Nat : m = k + 1
    <3>1. m - 1 \in Nat /\ m = (m - 1) + 1
      BY <1>1, <1>5
    <3> QED BY <3>1
  <2>2. r[k] = Upto(k)
    BY <1>1, <2>1
  <2>3. r[m] = Upto(k) \cup ({next[t] : t \in Upto(k) \ {stop}} \ {none})
    <3>1. m \in 0 .. n /\ m - 1 = k
      BY <1>1, <2>1
    <3> HIDE DEF Upto
    <3> QED BY <3>1, <1>2, <1>5, <2>2
  <2>4. ASSUME NEW x \in r[m] PROVE x \in Upto(m)
    <3>1. CASE x \in Upto(k)
      <4>1. PICK i \in 1 .. Len(l) : i <= k + 1 /\ x = l[i]
        BY <3>1
      <4>2. i <= m + 1
        BY <4>1, <2>1, <1>3
      <4> QED BY <4>1, <4>2
    <3>2. CASE x \in {next[t] : t \in Upto(k) \ {stop}} \ {none}
      <4>1. PICK t \in Upto(k) : x = next[t] /\ x # none
        BY <3>2
      <4>2. PICK i \in 1 .. Len(l) : i <= k + 1 /\ t = l[i]
        OBVIOUS
      <4>3. x = Nth(l, i + 1, none)
        BY <4>1, <4>2 DEF LinkedBy
      <4>4. i + 1 \in 1 .. Len(l) /\ x = l[i + 1]
        BY <4>1, <4>3 DEF Nth
      <4>5. i + 1 <= m + 1
        BY <4>2, <2>1, <1>3
      <4> QED BY <4>4, <4>5
    <3> QED BY <2>3, <3>1, <3>2
  <2>5. ASSUME NEW x \in Upto(m) PROVE x \in r[m]
    <3>1. PICK i \in 1 .. Len(l) : i <= m + 1 /\ x = l[i]
      OBVIOUS
    <3>2. CASE i <= k + 1
      <4>1. x \in Upto(k)
        BY <3>1, <3>2
      <4> QED BY <4>1, <2>3
    <3>3. CASE ~(i <= k + 1)
      <4>1. i = k + 2 /\ k + 1 \in 1 .. Len(l) /\ k + 1 # Len(l)
        BY <3>1, <3>3, <2>1, <1>3
      <4>2. l[k + 1] \in Upto(k) /\ l[k + 1] # stop
        BY <4>1
      <4>3. next[l[k + 1]] = Nth(l, (k + 1) + 1, none)
        BY <4>1 DEF LinkedBy
      <4>4. (k + 1) + 1 = i
        BY <4>1
      <4>5. next[l[k + 1]] = x /\ x # none
        BY <4>3, <4>4, <3>1 DEF Nth
      <4> QED BY <2>3, <4>2, <4>5
    <3> QED BY <3>2, <3>3
  <2> QED BY <1>1, <2>4, <2>5
<1> QED BY <1>4, <1>5

(* A list with different members is not longer than there are members.     *)
LEMMA NotLonger ==
  ASSUME NEW T, IsFiniteSet(T), NEW l \in Seq(T), Distinct(l)
  PROVE  Len(l) <= Cardinality(T)
<1>1. PICK n \in Nat : n = Len(l)
  OBVIOUS
<1>2. l \in [1 .. n -> T] /\ \A i, j \in 1 .. n : l[i] = l[j] => i = j
  BY <1>1 DEF Distinct
<1>3. l \in Injection(1 .. n, T)
  BY <1>2, Fun_IsInj
<1>4. Cardinality(1 .. n) = n
  BY FS_Interval
<1> QED BY <1>1, <1>3, <1>4, FS_Injection

-----------------------------------------------------------------------------
(* The members of a list, by position.                                     *)
LEMMA MemberIs ==
  ASSUME NEW T, NEW l \in Seq(T)
  PROVE  /\ ToSet(l) \in SUBSET T
         /\ \A i \in 1 .. Len(l) : l[i] \in ToSet(l)
         /\ \A t \in ToSet(l) : \E i \in 1 .. Len(l) : l[i] = t
         /\ IsInjective(l) <=> Distinct(l)
BY DEF ToSet, IsInjective, Distinct

(* A list that is what another one is up to a shift of positions.          *)
LEMMA PushSet ==
  ASSUME NEW T, NEW l \in Seq(T), NEW t \in T
  PROVE  /\ <<t>> \o l \in Seq(T) /\ <<t>> \o l # <<>>
         /\ Head(<<t>> \o l) = t /\ Tail(<<t>> \o l) = l
         /\ ToSet(<<t>> \o l) = {t} \cup ToSet(l)
         /\ Distinct(l) /\ t \notin ToSet(l) => Distinct(<<t>> \o l)
<1> DEFINE m == <<t>> \o l
<1>1. /\ m \in Seq(T) /\ Len(m) = Len(l) + 1 /\ m[1] = t
      /\ \A i \in 1 .. Len(l) : m[i + 1] = l[i]
      /\ \A i \in 2 .. Len(l) + 1 : m[i] = l[i - 1]
  BY PushIs
<1>2. m # <<>> /\ Head(m) = t /\ Tail(m) = l
  OBVIOUS
<1> HIDE DEF m
<1>3. PICK k \in Nat : k = Len(l)
  OBVIOUS
<1>4. ToSet(m) = {t} \cup ToSet(l)
  <2>1. ASSUME NEW x \in ToSet(m) PROVE x \in {t} \cup ToSet(l)
    <3>1. PICK i \in 1 .. Len(m) : m[i] = x
      BY <1>1, MemberIs
    <3>2. CASE i = 1
      BY <3>1, <3>2, <1>1
    <3>3. CASE i # 1
      <4>1. i \in 2 .. Len(l) + 1 /\ i - 1 \in 1 .. Len(l)
        BY <3>3, <1>1, <1>3
      <4> QED BY <4>1, <3>1, <1>1, MemberIs
    <3> QED BY <3>2, <3>3
  <2>2. ASSUME NEW x \in ToSet(l) PROVE x \in ToSet(m)
    <3>1. PICK i \in 1 .. Len(l) : l[i] = x
      BY MemberIs
    <3>2. i + 1 \in 1 .. Len(m) /\ m[i + 1] = x
      BY <3>1, <1>1, <1>3
    <3> QED BY <3>2, <1>1, MemberIs
  <2>3. t \in ToSet(m)
    <3>1. 1 \in 1 .. Len(m)
      BY <1>1, <1>3
    <3> QED BY <3>1, <1>1, MemberIs
  <2> QED BY <2>1, <2>2, <2>3
<1>5. ASSUME Distinct(l), t \notin ToSet(l) PROVE Distinct(m)
  <2> SUFFICES ASSUME NEW i \in 1 .. Len(m), NEW j \in 1 .. Len(m), m[i] = m[j]
               PROVE  i = j
    BY DEF Distinct
  <2>1. \A a \in 1 .. Len(m) : a = 1 \/ (a \in 2 .. Len(l) + 1 /\ a - 1 \in 1 .. Len(l))
    BY <1>1, <1>3
  <2>2. \A a \in 2 .. Len(l) + 1 : a - 1 \in 1 .. Len(l) => m[a] # t
    BY <1>1, <1>5, MemberIs
  <2>3. CASE i = 1 \/ j = 1
    BY <2>1, <2>2, <2>3, <1>1
  <2>4. CASE i # 1 /\ j # 1
    <3>1. l[i - 1] = l[j - 1] /\ i - 1 \in 1 .. Len(l) /\ j - 1 \in 1 .. Len(l)
      BY <2>1, <2>4, <1>1
    <3>2. i - 1 = j - 1
      BY <3>1, <1>5 DEF Distinct
    <3> QED BY <3>2
  <2> QED BY <2>3, <2>4
<1> QED BY <1>1, <1>2, <1>4, <1>5 DEF m

(* A list without its first member.                                        *)
LEMMA TailSet ==
  ASSUME NEW T, NEW l \in Seq(T), l # <<>>
  PROVE  /\ Head(l) \in T /\ Tail(l) \in Seq(T)
         /\ ToSet(l) = {Head(l)} \cup ToSet(Tail(l))
         /\ Distinct(l) => Distinct(Tail(l)) /\ Head(l) \notin ToSet(Tail(l))
<1>1. PICK k \in Nat : Len(l) = k + 1
  BY TailIs
<1>2. /\ Tail(l) \in Seq(T) /\ Head(l) \in T /\ Head(l) = l[1] /\ Len(Tail(l)) = k
      /\ \A i \in 1 .. k : Tail(l)[i] = l[i + 1]
  BY <1>1, TailIs
<1>3. ToSet(l) = {Head(l)} \cup ToSet(Tail(l))
  <2>1. ASSUME NEW x \in ToSet(l) PROVE x \in {Head(l)} \cup ToSet(Tail(l))
    <3>1. PICK i \in 1 .. Len(l) : l[i] = x
      BY MemberIs
    <3>2. CASE i = 1
      BY <3>1, <3>2, <1>2
    <3>3. CASE i # 1
      <4>1. i - 1 \in 1 .. k /\ (i - 1) + 1 = i
        BY <3>3, <1>1
      <4>2. Tail(l)[i - 1] = x
        BY <4>1, <3>1, <1>2
      <4> QED BY <4>1, <4>2, <1>2, MemberIs
    <3> QED BY <3>2, <3>3
  <2>2. ASSUME NEW x \in ToSet(Tail(l)) PROVE x \in ToSet(l)
    <3>1. PICK i \in 1 .. k : Tail(l)[i] = x
      BY <1>2, MemberIs
    <3>2. i + 1 \in 1 .. Len(l) /\ l[i + 1] = x
      BY <3>1, <1>1, <1>2
    <3> QED BY <3>2, MemberIs
  <2>3. Head(l) \in ToSet(l)
    <3>1. 1 \in 1 .. Len(l)
      BY <1>1
    <3> QED BY <3>1, <1>2, MemberIs
  <2> QED BY <2>1, <2>2, <2>3
<1>4. ASSUME Distinct(l) PROVE Distinct(Tail(l)) /\ Head(l) \notin ToSet(Tail(l))
  <2>1. ASSUME NEW i \in 1 .. k, NEW j \in 1 .. k, Tail(l)[i] = Tail(l)[j] PROVE i = j
    <3>1. i + 1 \in 1 .. Len(l) /\ j + 1 \in 1 .. Len(l) /\ l[i + 1] = l[j + 1]
      BY <1>1, <1>2, <2>1
    <3>2. i + 1 = j + 1
      BY <3>1, <1>4 DEF Distinct
    <3> QED BY <3>2
  <2>2. ASSUME NEW i \in 1 .. k, Tail(l)[i] = Head(l) PROVE FALSE
    <3>1. i + 1 \in 1 .. Len(l) /\ 1 \in 1 .. Len(l) /\ l[i + 1] = l[1]
      BY <1>1, <1>2, <2>2
    <3>2. i + 1 = 1
      BY <3>1, <1>4 DEF Distinct
    <3> QED BY <3>2
  <2> QED BY <2>1, <2>2, <1>2, MemberIs DEF Distinct
<1> QED BY <1>2, <1>3, <1>4

(* One list behind another.                                                *)
LEMMA JoinSet ==
  ASSUME NEW T, NEW l \in Seq(T), NEW m \in Seq(T)
  PROVE  /\ l \o m \in Seq(T)
         /\ ToSet(l \o m) = ToSet(l) \cup ToSet(m)
         /\ Distinct(l) /\ Distinct(m) /\ ToSet(l) \cap ToSet(m) = {} => Distinct(l \o m)
<1> DEFINE r == l \o m
<1>1. PICK a \in Nat : a = Len(l)
  OBVIOUS
<1>2. PICK b \in Nat : b = Len(m)
  OBVIOUS
<1>3. /\ r \in Seq(T) /\ Len(r) = a + b
      /\ \A i \in 1 .. a : r[i] = l[i]
      /\ \A i \in a + 1 .. a + b : r[i] = m[i - a]
  BY <1>1, <1>2
<1> HIDE DEF r
<1>4. \A i \in 1 .. b : r[a + i] = m[i]
  <2> SUFFICES ASSUME NEW i \in 1 .. b PROVE r[a + i] = m[i]
    OBVIOUS
  <2>1. a + i \in a + 1 .. a + b /\ (a + i) - a = i
    OBVIOUS
  <2> QED BY <2>1, <1>3
<1>5. ToSet(r) = ToSet(l) \cup ToSet(m)
  <2>1. ASSUME NEW x \in ToSet(r) PROVE x \in ToSet(l) \cup ToSet(m)
    <3>1. PICK i \in 1 .. a + b : r[i] = x
      BY <1>3, MemberIs
    <3>2. CASE i \in 1 .. a
      BY <3>1, <3>2, <1>1, <1>3, MemberIs
    <3>3. CASE i \notin 1 .. a
      <4>1. i \in a + 1 .. a + b /\ i - a \in 1 .. b
        BY <3>3
      <4>2. m[i - a] = x
        BY <4>1, <3>1, <1>3
      <4> QED BY <4>1, <4>2, <1>2, MemberIs
    <3> QED BY <3>2, <3>3
  <2>2. ASSUME NEW x \in ToSet(l) PROVE x \in ToSet(r)
    <3>1. PICK i \in 1 .. a : l[i] = x
      BY <1>1, MemberIs
    <3>2. i \in 1 .. Len(r) /\ r[i] = x
      BY <3>1, <1>3
    <3> QED BY <3>2, <1>3, MemberIs
  <2>3. ASSUME NEW x \in ToSet(m) PROVE x \in ToSet(r)
    <3>1. PICK i \in 1 .. b : m[i] = x
      BY <1>2, MemberIs
    <3>2. a + i \in 1 .. Len(r) /\ r[a + i] = x
      BY <3>1, <1>3, <1>4
    <3> QED BY <3>2, <1>3, MemberIs
  <2> QED BY <2>1, <2>2, <2>3
<1>6. ASSUME Distinct(l), Distinct(m), ToSet(l) \cap ToSet(m) = {} PROVE Distinct(r)
  <2> SUFFICES ASSUME NEW i \in 1 .. a + b, NEW j \in 1 .. a + b, r[i] = r[j]
               PROVE  i = j
    BY <1>3 DEF Distinct
  <2>1. \A n \in 1 .. a + b : n \in 1 .. a \/ (n \in a + 1 .. a + b /\ n - a \in 1 .. b)
    OBVIOUS
  <2>2. \A n \in 1 .. a : r[n] = l[n] /\ l[n] \in ToSet(l)
    BY <1>1, <1>3, MemberIs
  <2>3. \A n \in a + 1 .. a + b : n - a \in 1 .. b => r[n] = m[n - a] /\ m[n - a] \in ToSet(m)
    BY <1>2, <1>3, MemberIs
  <2>4. CASE i \in 1 .. a /\ j \in 1 .. a
    BY <2>2, <2>4, <1>1, <1>6 DEF Distinct
  <2>5. CASE i \in 1 .. a /\ j \notin 1 .. a
    BY <2>1, <2>2, <2>3, <2>5, <1>6
  <2>6. CASE i \notin 1 .. a /\ j \in 1 .. a
    BY <2>1, <2>2, <2>3, <2>6, <1>6
  <2>7. CASE i \notin 1 .. a /\ j \notin 1 .. a
    <3>1. m[i - a] = m[j - a] /\ i - a \in 1 .. b /\ j - a \in 1 .. b
      BY <2>1, <2>3, <2>7
    <3>2. i - a = j - a
      BY <3>1, <1>2, <1>6 DEF Distinct
    <3> QED BY <3>2
  <2> QED BY <2>4, <2>5, <2>6, <2>7
<1> QED BY <1>3, <1>5, <1>6 DEF r

(* One more behind.                                                        *)
LEMMA AppendSet ==
  ASSUME NEW T, NEW l \in Seq(T), NEW t \in T
  PROVE  /\ Append(l, t) \in Seq(T) /\ Append(l, t) # <<>>
         /\ ToSet(Append(l, t)) = ToSet(l) \cup {t}
         /\ Distinct(l) /\ t \notin ToSet(l) => Distinct(Append(l, t))
<1>1. <<t>> \in Seq(T) /\ Append(l, t) = l \o <<t>> /\ Append(l, t) # <<>>
  OBVIOUS
<1>2. ToSet(<<t>>) = {t}
  BY DEF ToSet
<1>3. Distinct(<<t>>)
  BY DEF Distinct
<1>4. /\ l \o <<t>> \in Seq(T)
      /\ ToSet(l \o <<t>>) = ToSet(l) \cup ToSet(<<t>>)
      /\ (Distinct(l) /\ Distinct(<<t>>) /\ ToSet(l) \cap ToSet(<<t>>) = {}) => Distinct(l \o <<t>>)
  BY <1>1, JoinSet
<1> QED BY <1>1, <1>2, <1>3, <1>4

(* The same backwards.                                                     *)
LEMMA ReverseSet ==
  ASSUME NEW T, NEW l \in Seq(T)
  PROVE  /\ Reverse(l) \in Seq(T) /\ Len(Reverse(l)) = Len(l)
         /\ ToSet(Reverse(l)) = ToSet(l)
         /\ Distinct(l) => Distinct(Reverse(l))
<1>1. Reverse(l) \in Seq(T) /\ Len(Reverse(l)) = Len(l)
  BY DEF Reverse
<1>2. PICK k \in Nat : k = Len(l)
  OBVIOUS
<1>3. \A i \in 1 .. k : Reverse(l)[i] = l[(k - i) + 1]
  BY <1>2 DEF Reverse
<1>4. \A i \in 1 .. k : (k - i) + 1 \in 1 .. k /\ (k - ((k - i) + 1)) + 1 = i
  OBVIOUS
<1>5. ASSUME NEW x \in ToSet(Reverse(l)) PROVE x \in ToSet(l)
  <2>1. PICK i \in 1 .. k : Reverse(l)[i] = x
    BY <1>1, <1>2, MemberIs
  <2> QED BY <2>1, <1>2, <1>3, <1>4, MemberIs
<1>6. ASSUME NEW x \in ToSet(l) PROVE x \in ToSet(Reverse(l))
  <2>1. PICK i \in 1 .. k : l[i] = x
    BY <1>2, MemberIs
  <2> DEFINE j == (k - i) + 1
  <2>2. j \in 1 .. k /\ (k - j) + 1 = i
    BY <1>4
  <2>3. Reverse(l)[j] = x
    BY <1>3, <2>1, <2>2
  <2> QED BY <2>2, <2>3, <1>1, <1>2, MemberIs
<1>7. ASSUME Distinct(l) PROVE Distinct(Reverse(l))
  <2> SUFFICES ASSUME NEW i \in 1 .. k, NEW j \in 1 .. k, Reverse(l)[i] = Reverse(l)[j]
               PROVE  i = j
    BY <1>1, <1>2 DEF Distinct
  <2>1. (k - i) + 1 = (k - j) + 1
    BY <1>2, <1>3, <1>4, <1>7 DEF Distinct
  <2> QED BY <2>1
<1> QED BY <1>1, <1>5, <1>6, <1>7

(* A list that is cut at a position into what is before and what is behind *)
(* it.                                                                     *)
LEMMA CutSet ==
  ASSUME NEW T, NEW l \in Seq(T), NEW n \in 1 .. Len(l), Distinct(l)
  PROVE  LET a == SubSeq(l, 1, n - 1)  b == SubSeq(l, n + 1, Len(l))
         IN  /\ a \in Seq(T) /\ b \in Seq(T) /\ l[n] \in T
             /\ Len(a) = n - 1 /\ Len(b) = Len(l) - n
             /\ Distinct(a) /\ Distinct(b)
             /\ ToSet(l) = ToSet(a) \cup {l[n]} \cup ToSet(b)
             /\ ToSet(a) \cap ToSet(b) = {}
             /\ l[n] \notin ToSet(a) \cup ToSet(b)
<1> DEFINE a == SubSeq(l, 1, n - 1)  b == SubSeq(l, n + 1, Len(l))
<1>1. PICK k \in Nat : k = Len(l)
  OBVIOUS
<1>2. n \in Nat /\ n >= 1 /\ n <= k /\ l[n] \in T /\ n - 1 \in Nat /\ k - n \in Nat
  BY <1>1
<1>3. a \in Seq(T) /\ Len(a) = n - 1 /\ \A i \in 1 .. n - 1 : a[i] = l[i]
  <2>1. \A i \in 1 .. n - 1 : i \in 1 .. Len(l)
    BY <1>1, <1>2
  <2> QED BY <1>1, <1>2, <2>1, SubSeqProperties
<1>4. b \in Seq(T) /\ Len(b) = k - n /\ \A i \in 1 .. k - n : b[i] = l[n + i]
  <2>1. \A i \in n + 1 .. Len(l) : i \in 1 .. Len(l)
    BY <1>1, <1>2
  <2>2. b \in Seq(T)
    BY <1>1, <1>2, <2>1, SubSeqProperties
  <2>3. Len(b) = k - n
    BY <1>1, <1>2, <2>1
  <2>4. ASSUME NEW i \in 1 .. k - n PROVE b[i] = l[n + i]
    BY <1>1, <1>2, <2>1, <2>3
  <2> QED BY <2>2, <2>3, <2>4
<1> HIDE DEF a, b
<1>5. Distinct(a)
  BY <1>1, <1>2, <1>3 DEF Distinct
<1>6. Distinct(b)
  <2> SUFFICES ASSUME NEW i \in 1 .. k - n, NEW j \in 1 .. k - n, b[i] = b[j]
               PROVE  i = j
    BY <1>4 DEF Distinct
  <2>1. n + i \in 1 .. k /\ n + j \in 1 .. k /\ l[n + i] = l[n + j]
    BY <1>2, <1>4
  <2>2. n + i = n + j
    BY <1>1, <2>1 DEF Distinct
  <2> QED BY <2>2, <1>2
<1>7. \A x \in ToSet(a) : \E i \in 1 .. n - 1 : i \in 1 .. k /\ l[i] = x
  <2> SUFFICES ASSUME NEW x \in ToSet(a) PROVE \E i \in 1 .. n - 1 : i \in 1 .. k /\ l[i] = x
    OBVIOUS
  <2>1. PICK i \in 1 .. n - 1 : a[i] = x
    BY <1>3, MemberIs
  <2> QED BY <2>1, <1>2, <1>3
<1>8. \A x \in ToSet(b) : \E i \in n + 1 .. k : i \in 1 .. k /\ l[i] = x
  <2> SUFFICES ASSUME NEW x \in ToSet(b) PROVE \E i \in n + 1 .. k : i \in 1 .. k /\ l[i] = x
    OBVIOUS
  <2>1. PICK i \in 1 .. k - n : b[i] = x
    BY <1>4, MemberIs
  <2>2. n + i \in n + 1 .. k /\ n + i \in 1 .. k /\ l[n + i] = x
    BY <2>1, <1>2, <1>4
  <2> QED BY <2>2
<1>9. ToSet(l) = ToSet(a) \cup {l[n]} \cup ToSet(b)
  <2>1. ASSUME NEW x \in ToSet(l) PROVE x \in ToSet(a) \cup {l[n]} \cup ToSet(b)
    <3>1. PICK i \in 1 .. k : l[i] = x
      BY <1>1, MemberIs
    <3>2. CASE i < n
      <4>1. i \in 1 .. n - 1 /\ a[i] = x
        BY <3>1, <3>2, <1>2, <1>3
      <4> QED BY <4>1, <1>3, MemberIs
    <3>3. CASE i = n
      BY <3>1, <3>3
    <3>4. CASE i > n
      <4>1. i - n \in 1 .. k - n /\ n + (i - n) = i
        BY <3>4, <1>2
      <4>2. b[i - n] = x
        BY <4>1, <3>1, <1>4
      <4> QED BY <4>1, <4>2, <1>4, MemberIs
    <3> QED BY <3>2, <3>3, <3>4, <1>2
  <2>2. ASSUME NEW x \in ToSet(a) \cup {l[n]} \cup ToSet(b) PROVE x \in ToSet(l)
    BY <1>1, <1>7, <1>8, MemberIs
  <2> QED BY <2>1, <2>2
<1>10. ASSUME NEW x \in ToSet(a), x \in ToSet(b) PROVE FALSE
  <2>1. PICK i \in 1 .. n - 1 : i \in 1 .. k /\ l[i] = x
    BY <1>7
  <2>2. PICK j \in n + 1 .. k : j \in 1 .. k /\ l[j] = x
    BY <1>8, <1>10
  <2>3. i = j
    BY <1>1, <2>1, <2>2 DEF Distinct
  <2> QED BY <2>1, <2>2, <2>3, <1>2
<1>11. l[n] \notin ToSet(a) \cup ToSet(b)
  <2>1. ASSUME l[n] \in ToSet(a) PROVE FALSE
    <3>1. PICK i \in 1 .. n - 1 : i \in 1 .. k /\ l[i] = l[n]
      BY <1>7, <2>1
    <3>2. i = n
      BY <1>1, <3>1 DEF Distinct
    <3> QED BY <3>1, <3>2, <1>2
  <2>2. ASSUME l[n] \in ToSet(b) PROVE FALSE
    <3>1. PICK i \in n + 1 .. k : i \in 1 .. k /\ l[i] = l[n]
      BY <1>8, <2>2
    <3>2. i = n
      BY <1>1, <3>1 DEF Distinct
    <3> QED BY <3>1, <3>2, <1>2
  <2> QED BY <2>1, <2>2
<1>12. Len(b) = Len(l) - n
  BY <1>1, <1>4
<1> QED BY <1>2, <1>3, <1>4, <1>5, <1>6, <1>9, <1>10, <1>11, <1>12 DEF a, b

(* A list without one of its members.                                      *)
LEMMA RemoveSet ==
  ASSUME NEW T, NEW l \in Seq(T), Distinct(l), NEW t
  PROVE  /\ RemoveFirst(l, t) \in Seq(T) /\ Distinct(RemoveFirst(l, t))
         /\ ToSet(RemoveFirst(l, t)) = ToSet(l) \ {t}
<1>1. CASE \E i \in 1 .. Len(l) : l[i] = t
  <2> DEFINE I == {i \in 1 .. Len(l) : l[i] = t}
             n == CHOOSE x \in I : \A y \in I : x <= y
  <2>1. SelectInSeq(l, LAMBDA v : v = t) = n
    BY <1>1 DEF SelectInSeq, Min
  <2>2. RemoveFirst(l, t) = SubSeq(l, 1, n - 1) \o SubSeq(l, n + 1, Len(l))
    BY <1>1, <2>1 DEF RemoveFirst, RemoveAt
  <2>3. n \in I
    <3>1. I \in SUBSET Nat /\ I # {}
      BY <1>1
    <3>2. \E x \in I : \A y \in I : x <= y
      BY <3>1, Least
    <3> QED BY <3>2
  <2> HIDE DEF n
  <2>4. n \in 1 .. Len(l) /\ l[n] = t
    BY <2>3
  <2> DEFINE a == SubSeq(l, 1, n - 1)  b == SubSeq(l, n + 1, Len(l))
  <2>5. /\ a \in Seq(T) /\ b \in Seq(T) /\ Distinct(a) /\ Distinct(b)
        /\ ToSet(l) = ToSet(a) \cup {l[n]} \cup ToSet(b)
        /\ ToSet(a) \cap ToSet(b) = {}
        /\ l[n] \notin ToSet(a) \cup ToSet(b)
    BY <2>4, CutSet
  <2>6. RemoveFirst(l, t) = a \o b
    BY <2>2
  <2> HIDE DEF a, b
  <2>7. /\ a \o b \in Seq(T) /\ ToSet(a \o b) = ToSet(a) \cup ToSet(b)
        /\ Distinct(a \o b)
    BY <2>5, JoinSet
  <2> QED BY <2>4, <2>5, <2>6, <2>7
<1>2. CASE ~ \E i \in 1 .. Len(l) : l[i] = t
  <2>1. RemoveFirst(l, t) = l
    BY <1>2 DEF RemoveFirst
  <2>2. t \notin ToSet(l)
    BY <1>2, MemberIs
  <2> QED BY <2>1, <2>2
<1> QED BY <1>1, <1>2

(* The first k of several lists, one behind the other: the function that   *)
(* FlattenSeq chooses.                                                     *)
Flattened(r, s, n) ==
  r = [i \in 1 .. n |-> IF i = 1 THEN s[i] ELSE r[i - 1] \o s[i]]

(* The function that FlattenSeq chooses exists, for any number of lists.   *)
LEMMA FlattenExists ==
  ASSUME NEW s, NEW n \in Nat
  PROVE  \E r : Flattened(r, s, n)
<1> DEFINE Bad == {k \in Nat : ~ \E r : Flattened(r, s, k)}
<1> SUFFICES ASSUME Bad # {} PROVE FALSE
  OBVIOUS
<1>1. PICK m \in Bad : \A k \in Bad : m <= k
  BY Least
<1>2. CASE m = 0
  <2> DEFINE r == [i \in 1 .. 0 |-> s[i]]
  <2>1. Flattened(r, s, 0)
    BY DEF Flattened
  <2> QED BY <1>1, <1>2, <2>1
<1>3. CASE m # 0
  <2>1. PICK k \in Nat : m = k + 1
    <3>1. m - 1 \in Nat /\ m = (m - 1) + 1
      BY <1>1, <1>3
    <3> QED BY <3>1
  <2>2. k \notin Bad
    BY <1>1, <2>1
  <2>3. PICK r : Flattened(r, s, k)
    BY <2>2
  <2> DEFINE q == [i \in 1 .. m |-> IF i \in 1 .. k THEN r[i]
                                    ELSE IF i = 1 THEN s[i] ELSE r[k] \o s[i]]
  <2>4. \A i \in 1 .. k : r[i] = IF i = 1 THEN s[i] ELSE r[i - 1] \o s[i]
    BY <2>3 DEF Flattened
  <2>5. ASSUME NEW i \in 1 .. m PROVE q[i] = IF i = 1 THEN s[i] ELSE q[i - 1] \o s[i]
    <3>1. CASE i \in 1 .. k /\ i = 1
      BY <3>1, <2>4
    <3>2. CASE i \in 1 .. k /\ i # 1
      <4>1. i - 1 \in 1 .. k /\ i - 1 \in 1 .. m
        BY <3>2, <2>1
      <4>2. q[i] = r[i] /\ q[i - 1] = r[i - 1]
        BY <4>1, <3>2
      <4> HIDE DEF q
      <4> QED BY <4>2, <3>2, <2>4
    <3>3. CASE i \notin 1 .. k
      <4>1. i = k + 1 /\ i - 1 = k
        BY <3>3, <2>1
      <4>2. CASE i = 1
        BY <4>2, <3>3
      <4>3. CASE i # 1
        <5>1. k \in 1 .. k /\ k \in 1 .. m
          BY <4>1, <4>3, <2>1
        <5>2. q[k] = r[k] /\ q[i] = r[k] \o s[i]
          BY <5>1, <3>3, <4>3
        <5> QED BY <5>2, <4>1, <4>3
      <4> QED BY <4>2, <4>3
    <3> QED BY <3>1, <3>2, <3>3
  <2>6. q = [i \in 1 .. m |-> q[i]]
    OBVIOUS
  <2> HIDE DEF q
  <2>7. Flattened(q, s, m)
    BY <2>5, <2>6 DEF Flattened
  <2> QED BY <1>1, <2>7
<1> QED BY <1>2, <1>3

(* The length of a list is a number.                                       *)
LEMMA LengthIs ==
  ASSUME NEW T, NEW l \in Seq(T)
  PROVE  Len(l) \in Nat
OBVIOUS

(* Lists that have nothing in common.                                      *)
Apart(s) == \A i, j \in 1 .. Len(s) : i # j => ToSet(s[i]) \cap ToSet(s[j]) = {}

(* No pair of C stands in l in that order.                                 *)
Ordered(l, C) == \A i, j \in 1 .. Len(l) : i < j => <<l[i], l[j]>> \notin C

(* Nor with its first in A and its second in B.                            *)
Precedes(A, B, C) == \A x \in A, y \in B : <<x, y>> \notin C

(* One list behind another.                                                *)
LEMMA JoinOrdered ==
  ASSUME NEW T, NEW l \in Seq(T), NEW m \in Seq(T), NEW C
  PROVE  Ordered(l \o m, C)
           <=> Ordered(l, C) /\ Ordered(m, C) /\ Precedes(ToSet(l), ToSet(m), C)
<1> DEFINE r == l \o m
<1>1. PICK a \in Nat : a = Len(l)
  BY LengthIs, Zenon
<1>2. PICK b \in Nat : b = Len(m)
  BY LengthIs, Zenon
<1>3. /\ r \in Seq(T) /\ Len(r) = a + b
      /\ \A i \in 1 .. a : r[i] = l[i]
      /\ \A i \in a + 1 .. a + b : r[i] = m[i - a]
  BY <1>1, <1>2
<1> HIDE DEF r
<1>4. \A i \in 1 .. b : a + i \in 1 .. a + b /\ r[a + i] = m[i]
  <2> SUFFICES ASSUME NEW i \in 1 .. b PROVE a + i \in 1 .. a + b /\ r[a + i] = m[i]
    OBVIOUS
  <2>1. a + i \in a + 1 .. a + b /\ (a + i) - a = i /\ a + i \in 1 .. a + b
    OBVIOUS
  <2> QED BY <2>1, <1>3
<1>5. \A i \in 1 .. a : i \in 1 .. a + b
  OBVIOUS
<1>6. ASSUME Ordered(r, C) PROVE Ordered(l, C)
  <2> SUFFICES ASSUME NEW i \in 1 .. a, NEW j \in 1 .. a, i < j PROVE <<l[i], l[j]>> \notin C
    BY <1>1 DEF Ordered
  <2> QED BY <1>3, <1>5, <1>6 DEF Ordered
<1>7. ASSUME Ordered(r, C) PROVE Ordered(m, C)
  <2> SUFFICES ASSUME NEW i \in 1 .. b, NEW j \in 1 .. b, i < j PROVE <<m[i], m[j]>> \notin C
    BY <1>2 DEF Ordered
  <2>1. a + i < a + j
    OBVIOUS
  <2>2. \A p, q \in 1 .. a + b : p < q => <<r[p], r[q]>> \notin C
    BY <1>3, <1>7 DEF Ordered
  <2>3. <<r[a + i], r[a + j]>> \notin C
    BY <2>1, <2>2, <1>4
  <2> QED BY <2>3, <1>4
<1>8. ASSUME Ordered(r, C) PROVE Precedes(ToSet(l), ToSet(m), C)
  <2> SUFFICES ASSUME NEW x \in ToSet(l), NEW y \in ToSet(m) PROVE <<x, y>> \notin C
    BY DEF Precedes
  <2>1. PICK i \in 1 .. a : l[i] = x
    BY <1>1, MemberIs
  <2>2. PICK j \in 1 .. b : m[j] = y
    BY <1>2, MemberIs
  <2>3. i < a + j
    OBVIOUS
  <2>4. \A p, q \in 1 .. a + b : p < q => <<r[p], r[q]>> \notin C
    BY <1>3, <1>8 DEF Ordered
  <2>5. <<r[i], r[a + j]>> \notin C
    BY <2>3, <2>4, <1>4, <1>5
  <2>6. r[i] = x /\ r[a + j] = y
    BY <1>3, <1>4, <2>1, <2>2
  <2> QED BY <2>5, <2>6
<1>9. ASSUME Ordered(l, C), Ordered(m, C), Precedes(ToSet(l), ToSet(m), C)
      PROVE  Ordered(r, C)
  <2> SUFFICES ASSUME NEW i \in 1 .. a + b, NEW j \in 1 .. a + b, i < j
               PROVE  <<r[i], r[j]>> \notin C
    BY <1>3 DEF Ordered
  <2>1. \A n \in 1 .. a + b : n \in 1 .. a \/ (n \in a + 1 .. a + b /\ n - a \in 1 .. b)
    OBVIOUS
  <2>2. \A n \in 1 .. a : r[n] = l[n] /\ l[n] \in ToSet(l)
    BY <1>1, <1>3, MemberIs
  <2>3. \A n \in a + 1 .. a + b : n - a \in 1 .. b => r[n] = m[n - a] /\ m[n - a] \in ToSet(m)
    BY <1>2, <1>3, MemberIs
  <2>4. CASE j \in 1 .. a
    <3>1. i \in 1 .. a
      BY <2>4
    <3> QED BY <3>1, <2>2, <2>4, <1>1, <1>9 DEF Ordered
  <2>5. CASE i \in 1 .. a /\ j \notin 1 .. a
    BY <2>1, <2>2, <2>3, <2>5, <1>9 DEF Precedes
  <2>6. CASE i \notin 1 .. a /\ j \notin 1 .. a
    <3>1. i - a \in 1 .. b /\ j - a \in 1 .. b /\ r[i] = m[i - a] /\ r[j] = m[j - a]
      BY <2>1, <2>3, <2>6
    <3>2. i - a < j - a
      OBVIOUS
    <3>3. <<m[i - a], m[j - a]>> \notin C
      BY <3>1, <3>2, <1>2, <1>9 DEF Ordered
    <3> QED BY <3>1, <3>3
  <2>7. CASE i \notin 1 .. a /\ j \in 1 .. a
    BY <2>7
  <2> QED BY <2>4, <2>5, <2>6, <2>7
<1> QED BY <1>6, <1>7, <1>8, <1>9 DEF r

(* A list without its first member.                                        *)
LEMMA TailOrdered ==
  ASSUME NEW T, NEW l \in Seq(T), l # <<>>, NEW C
  PROVE  Ordered(l, C) => Ordered(Tail(l), C) /\ Precedes({Head(l)}, ToSet(Tail(l)), C)
<1>1. /\ Head(l) \in T /\ Tail(l) \in Seq(T) /\ <<Head(l)>> \in Seq(T)
      /\ l = <<Head(l)>> \o Tail(l)
  OBVIOUS
<1>2. ToSet(<<Head(l)>>) = {Head(l)}
  BY DEF ToSet
<1>3. Ordered(<<Head(l)>> \o Tail(l), C) =>
        Ordered(Tail(l), C) /\ Precedes(ToSet(<<Head(l)>>), ToSet(Tail(l)), C)
  BY <1>1, JoinOrdered
<1> QED BY <1>1, <1>2, <1>3

(* Another set of pairs that says no more of the members.                  *)
LEMMA OrderedStays ==
  ASSUME NEW T, NEW l \in Seq(T), NEW C, NEW D, Ordered(l, C),
         \A x, y \in ToSet(l) : <<x, y>> \in D => <<x, y>> \in C
  PROVE  Ordered(l, D)
<1>1. \A i \in 1 .. Len(l) : l[i] \in ToSet(l)
  BY MemberIs
<1> QED BY <1>1 DEF Ordered

(* Without repetitions: no member is before itself.                        *)
Selves(T) == {<<x, x>> : x \in T}

(* No repetitions, said in terms of order.                                 *)
LEMMA DistinctOrdered ==
  ASSUME NEW T, NEW l \in Seq(T)
  PROVE  Distinct(l) <=> Ordered(l, Selves(T))
<1>1. \A i \in 1 .. Len(l) : l[i] \in T
  OBVIOUS
<1>2. ASSUME Distinct(l), NEW i \in 1 .. Len(l), NEW j \in 1 .. Len(l), i < j
      PROVE  <<l[i], l[j]>> \notin Selves(T)
  <2>1. l[i] # l[j]
    BY <1>2 DEF Distinct
  <2> QED BY <2>1 DEF Selves
<1>3. ASSUME Ordered(l, Selves(T)), NEW i \in 1 .. Len(l), NEW j \in 1 .. Len(l), l[i] = l[j]
      PROVE  i = j
  <2>1. <<l[i], l[j]>> \in Selves(T) /\ <<l[j], l[i]>> \in Selves(T)
    BY <1>1, <1>3 DEF Selves
  <2>2. ~(i < j) /\ ~(j < i)
    BY <1>3, <2>1 DEF Ordered
  <2> QED BY <2>2, LengthIs
<1> QED BY <1>2, <1>3 DEF Distinct, Ordered

(* Of two lists one behind the other, no member is twice.                  *)
LEMMA JoinDistinct ==
  ASSUME NEW T, NEW l \in Seq(T), NEW m \in Seq(T)
  PROVE  Distinct(l \o m) <=> Distinct(l) /\ Distinct(m) /\ ToSet(l) \cap ToSet(m) = {}
<1>1. l \o m \in Seq(T)
  OBVIOUS
<1>2. ToSet(l) \in SUBSET T /\ ToSet(m) \in SUBSET T
  BY MemberIs
<1>3. Precedes(ToSet(l), ToSet(m), Selves(T)) <=> ToSet(l) \cap ToSet(m) = {}
  BY <1>2 DEF Precedes, Selves
<1>4. Distinct(l \o m) <=> Ordered(l \o m, Selves(T))
  BY <1>1, DistinctOrdered
<1>5. Ordered(l \o m, Selves(T))
        <=> Ordered(l, Selves(T)) /\ Ordered(m, Selves(T))
              /\ Precedes(ToSet(l), ToSet(m), Selves(T))
  BY JoinOrdered
<1>6. (Distinct(l) <=> Ordered(l, Selves(T))) /\ (Distinct(m) <=> Ordered(m, Selves(T)))
  BY DistinctOrdered
<1> QED BY <1>3, <1>4, <1>5, <1>6

(* Four lists, one behind the other.                                       *)
LEMMA FourIs ==
  ASSUME NEW T, NEW a \in Seq(T), NEW b \in Seq(T), NEW c \in Seq(T), NEW d \in Seq(T)
  PROVE  /\ a \o b \o c \o d \in Seq(T)
         /\ ToSet(a \o b \o c \o d) = ToSet(a) \cup ToSet(b) \cup ToSet(c) \cup ToSet(d)
         /\ \A C : Ordered(a \o b \o c \o d, C) <=>
              /\ Ordered(a, C) /\ Ordered(b, C) /\ Ordered(c, C) /\ Ordered(d, C)
              /\ Precedes(ToSet(a), ToSet(b), C) /\ Precedes(ToSet(a), ToSet(c), C)
              /\ Precedes(ToSet(a), ToSet(d), C) /\ Precedes(ToSet(b), ToSet(c), C)
              /\ Precedes(ToSet(b), ToSet(d), C) /\ Precedes(ToSet(c), ToSet(d), C)
<1>1. a \o b \in Seq(T) /\ ToSet(a \o b) = ToSet(a) \cup ToSet(b)
  BY JoinSet
<1>2. (a \o b) \o c \in Seq(T) /\ ToSet((a \o b) \o c) = ToSet(a \o b) \cup ToSet(c)
  <2> DEFINE p == a \o b
  <2>1. p \in Seq(T)
    BY <1>1
  <2> HIDE DEF p
  <2>2. p \o c \in Seq(T) /\ ToSet(p \o c) = ToSet(p) \cup ToSet(c)
    BY <2>1, JoinSet
  <2> QED BY <2>2 DEF p
<1>3. ((a \o b) \o c) \o d \in Seq(T) /\ ToSet(((a \o b) \o c) \o d) = ToSet((a \o b) \o c) \cup ToSet(d)
  <2> DEFINE p == (a \o b) \o c
  <2>1. p \in Seq(T)
    BY <1>2
  <2> HIDE DEF p
  <2>2. p \o d \in Seq(T) /\ ToSet(p \o d) = ToSet(p) \cup ToSet(d)
    BY <2>1, JoinSet
  <2> QED BY <2>2 DEF p
<1>4. ASSUME NEW C
      PROVE  Ordered(a \o b \o c \o d, C) <=>
              /\ Ordered(a, C) /\ Ordered(b, C) /\ Ordered(c, C) /\ Ordered(d, C)
              /\ Precedes(ToSet(a), ToSet(b), C) /\ Precedes(ToSet(a), ToSet(c), C)
              /\ Precedes(ToSet(a), ToSet(d), C) /\ Precedes(ToSet(b), ToSet(c), C)
              /\ Precedes(ToSet(b), ToSet(d), C) /\ Precedes(ToSet(c), ToSet(d), C)
  <2>1. Ordered(a \o b, C)
          <=> Ordered(a, C) /\ Ordered(b, C) /\ Precedes(ToSet(a), ToSet(b), C)
    BY JoinOrdered
  <2>2. Ordered((a \o b) \o c, C)
          <=> Ordered(a \o b, C) /\ Ordered(c, C) /\ Precedes(ToSet(a \o b), ToSet(c), C)
    BY <1>1, JoinOrdered
  <2>3. Ordered(((a \o b) \o c) \o d, C)
          <=> Ordered((a \o b) \o c, C) /\ Ordered(d, C) /\ Precedes(ToSet((a \o b) \o c), ToSet(d), C)
    BY <1>2, JoinOrdered
  <2>4. Precedes(ToSet(a \o b), ToSet(c), C)
          <=> Precedes(ToSet(a), ToSet(c), C) /\ Precedes(ToSet(b), ToSet(c), C)
    BY <1>1 DEF Precedes
  <2>5. Precedes(ToSet((a \o b) \o c), ToSet(d), C)
          <=> Precedes(ToSet(a), ToSet(d), C) /\ Precedes(ToSet(b), ToSet(d), C)
                /\ Precedes(ToSet(c), ToSet(d), C)
    BY <1>1, <1>2 DEF Precedes
  <2> QED BY <2>1, <2>2, <2>3, <2>4, <2>5
<1> QED BY <1>1, <1>2, <1>3, <1>4

(* The same for repetitions.                                               *)
LEMMA FourDistinct ==
  ASSUME NEW T, NEW a \in Seq(T), NEW b \in Seq(T), NEW c \in Seq(T), NEW d \in Seq(T)
  PROVE  Distinct(a \o b \o c \o d) <=>
           /\ Distinct(a) /\ Distinct(b) /\ Distinct(c) /\ Distinct(d)
           /\ ToSet(a) \cap ToSet(b) = {} /\ ToSet(a) \cap ToSet(c) = {}
           /\ ToSet(a) \cap ToSet(d) = {} /\ ToSet(b) \cap ToSet(c) = {}
           /\ ToSet(b) \cap ToSet(d) = {} /\ ToSet(c) \cap ToSet(d) = {}
<1>1. a \o b \in Seq(T) /\ ToSet(a \o b) = ToSet(a) \cup ToSet(b)
  BY JoinSet
<1>2. (a \o b) \o c \in Seq(T) /\ ToSet((a \o b) \o c) = ToSet(a \o b) \cup ToSet(c)
  <2> DEFINE p == a \o b
  <2>1. p \in Seq(T)
    BY <1>1
  <2> HIDE DEF p
  <2>2. p \o c \in Seq(T) /\ ToSet(p \o c) = ToSet(p) \cup ToSet(c)
    BY <2>1, JoinSet
  <2> QED BY <2>2 DEF p
<1>3. Distinct(a \o b) <=> Distinct(a) /\ Distinct(b) /\ ToSet(a) \cap ToSet(b) = {}
  BY JoinDistinct
<1>4. Distinct((a \o b) \o c)
        <=> Distinct(a \o b) /\ Distinct(c) /\ ToSet(a \o b) \cap ToSet(c) = {}
  BY <1>1, JoinDistinct
<1>5. Distinct(((a \o b) \o c) \o d)
        <=> Distinct((a \o b) \o c) /\ Distinct(d) /\ ToSet((a \o b) \o c) \cap ToSet(d) = {}
  BY <1>2, JoinDistinct
<1>6. ToSet(a \o b) \cap ToSet(c) = {} <=> ToSet(a) \cap ToSet(c) = {} /\ ToSet(b) \cap ToSet(c) = {}
  BY <1>1
<1>7. ToSet((a \o b) \o c) \cap ToSet(d) = {}
        <=> ToSet(a) \cap ToSet(d) = {} /\ ToSet(b) \cap ToSet(d) = {} /\ ToSet(c) \cap ToSet(d) = {}
  BY <1>1, <1>2
<1> QED BY <1>3, <1>4, <1>5, <1>6, <1>7

(* A list that is not empty, without its last member.                      *)
LEMMA FrontIs ==
  ASSUME NEW T, NEW l \in Seq(T), l # <<>>
  PROVE  /\ Front(l) \in Seq(T) /\ Last(l) \in T /\ l = Front(l) \o <<Last(l)>>
         /\ Len(Front(l)) = Len(l) - 1
         /\ \A i \in 1 .. Len(l) - 1 : Front(l)[i] = l[i]
         /\ ToSet(l) = ToSet(Front(l)) \cup {Last(l)}
         /\ Distinct(l) => Distinct(Front(l)) /\ Last(l) \notin ToSet(Front(l))
<1>1. PICK k \in Nat : Len(l) = k + 1
  BY TailIs
<1>2. /\ Front(l) \in Seq(T) /\ Last(l) \in T /\ Len(Front(l)) = k /\ Last(l) = l[k + 1]
      /\ \A i \in 1 .. k : Front(l)[i] = l[i]
  BY <1>1 DEF Front, Last
<1>3. \A i \in 1 .. k + 1 : i \in 1 .. k \/ i = k + 1
  OBVIOUS
<1>4. <<Last(l)>> \in Seq(T) /\ Len(<<Last(l)>>) = 1
  BY <1>2
<1>5. l = Front(l) \o <<Last(l)>>
  <2> DEFINE f == Front(l)  x == Last(l)
  <2>1. f \in Seq(T) /\ Len(f) = k /\ x \in T /\ x = l[k + 1] /\ \A i \in 1 .. k : f[i] = l[i]
    BY <1>2
  <2> HIDE DEF f, x
  <2>2. /\ f \o <<x>> \in Seq(T) /\ Len(f \o <<x>>) = k + 1
        /\ \A i \in 1 .. k + 1 : (f \o <<x>>)[i] = l[i]
    BY <2>1
  <2>3. l = f \o <<x>>
    BY <2>2, <1>1
  <2> QED BY <2>3 DEF f, x
<1>6. ToSet(<<Last(l)>>) = {Last(l)}
  BY DEF ToSet
<1>7. ToSet(Front(l) \o <<Last(l)>>) = ToSet(Front(l)) \cup ToSet(<<Last(l)>>)
  BY <1>2, <1>4, JoinSet
<1>8. ASSUME Distinct(l) PROVE Distinct(Front(l)) /\ Last(l) \notin ToSet(Front(l))
  <2>1. \A i \in 1 .. k : i \in 1 .. Len(l) /\ k + 1 \in 1 .. Len(l) /\ i # k + 1
    BY <1>1
  <2>2. \A i, j \in 1 .. k : Front(l)[i] = Front(l)[j] => i = j
    BY <2>1, <1>2, <1>8 DEF Distinct
  <2>3. \A i \in 1 .. k : Front(l)[i] # Last(l)
    BY <2>1, <1>2, <1>8 DEF Distinct
  <2> QED BY <2>2, <2>3, <1>2, MemberIs DEF Distinct
<1>9. k = Len(l) - 1
  BY <1>1
<1> QED BY <1>2, <1>5, <1>6, <1>7, <1>8, <1>9

(* All but the last, of a list of which the last, or the first, is known.  *)
LEMMA FrontAppend ==
  ASSUME NEW T, NEW l \in Seq(T), NEW x \in T
  PROVE  l \o <<x>> \in Seq(T) /\ l \o <<x>> # <<>> /\ Front(l \o <<x>>) = l
<1> DEFINE r == l \o <<x>>
<1>1. PICK k \in Nat : k = Len(l)
  BY LengthIs, Zenon
<1>2. <<x>> \in Seq(T) /\ Len(<<x>>) = 1
  OBVIOUS
<1>3. /\ r \in Seq(T) /\ Len(r) = k + 1 /\ \A i \in 1 .. k : r[i] = l[i]
  BY <1>1, <1>2
<1> HIDE DEF r
<1>4. r # <<>>
  BY <1>3
<1>5. /\ Front(r) \in Seq(T) /\ Len(Front(r)) = Len(r) - 1
      /\ \A i \in 1 .. Len(r) - 1 : Front(r)[i] = r[i]
  <2>1. r \in Seq(T)
    BY <1>3
  <2> QED BY ONLY <2>1, <1>4, FrontIs
<1>6. Len(Front(r)) = k
  BY <1>3, <1>5
<1>7. \A i \in 1 .. k : Front(r)[i] = l[i]
  BY <1>3, <1>5
<1> DEFINE f == Front(r)
<1> HIDE DEF f
<1>8. f \in Seq(T) /\ Len(f) = k /\ \A i \in 1 .. k : f[i] = l[i]
  BY <1>5, <1>6, <1>7 DEF f
<1>9. f = l
  BY <1>1, <1>8
<1> QED BY <1>3, <1>4, <1>9 DEF f, r

(* The same of a list that may be empty.                                   *)
LEMMA FrontType ==
  ASSUME NEW T, NEW l \in Seq(T)
  PROVE  /\ Front(l) \in Seq(T) /\ ToSet(Front(l)) \in SUBSET ToSet(l)
         /\ Len(l) \in {0, 1} => Front(l) = <<>>
<1>1. CASE l = <<>>
  <2>1. Front(l) = <<>>
    BY <1>1 DEF Front
  <2>2. <<>> \in Seq(T) /\ ToSet(<<>>) = {}
    BY DEF ToSet
  <2> QED BY <2>1, <2>2
<1>2. CASE l # <<>>
  <2>1. /\ Front(l) \in Seq(T) /\ Len(Front(l)) = Len(l) - 1
        /\ ToSet(l) = ToSet(Front(l)) \cup {Last(l)}
    BY <1>2, FrontIs
  <2>2. Len(l) = 1 => Front(l) = <<>>
    <3>1. Len(l) = 1 => Len(Front(l)) = 0
      BY <2>1
    <3> QED BY <3>1, <2>1, EmptySeq
  <2>3. Len(l) # 0
    BY <1>2, EmptySeq
  <2> QED BY <2>1, <2>2, <2>3
<1> QED BY <1>1, <1>2

(* Without its first member and without its last.                          *)
LEMMA FrontTail ==
  ASSUME NEW T, NEW l \in Seq(T), Len(l) >= 2
  PROVE  Front(l) # <<>> /\ Head(Front(l)) = Head(l) /\ Front(Tail(l)) = Tail(Front(l))
<1>1. PICK k \in Nat : k = Len(l)
  BY LengthIs, Zenon
<1>2. k >= 2 /\ l # <<>>
  BY <1>1
<1>3. /\ Front(l) \in Seq(T) /\ Last(l) \in T /\ l = Front(l) \o <<Last(l)>>
      /\ Len(Front(l)) = Len(l) - 1
  BY <1>2, FrontIs
<1> DEFINE f == Front(l)  x == Last(l)
<1> HIDE DEF f, x
<1>4. f \in Seq(T) /\ x \in T /\ l = f \o <<x>> /\ Len(f) = k - 1
  BY <1>1, <1>3 DEF f, x
<1>5. f # <<>>
  <2>1. Len(f) # 0
    BY <1>2, <1>4
  <2> QED BY <2>1
<1> DEFINE h == Head(f)  g == Tail(f)
<1>6. h \in T /\ g \in Seq(T) /\ f = <<h>> \o g
  BY <1>4, <1>5
<1> HIDE DEF h, g
<1>7. g \o <<x>> \in Seq(T) /\ Front(g \o <<x>>) = g
  BY <1>4, <1>6, FrontAppend
<1>8. l = <<h>> \o (g \o <<x>>)
  BY <1>4, <1>6
<1>9. Head(l) = h /\ Tail(l) = g \o <<x>>
  BY <1>4, <1>6, <1>7, <1>8, PushSet
<1> QED BY <1>5, <1>7, <1>9 DEF f, h, g

(* The list of one.                                                        *)
LEMMA SingleIs ==
  ASSUME NEW T, NEW l \in Seq(T), Len(l) = 1
  PROVE  l = <<Head(l)>> /\ Head(l) \in T /\ ToSet(l) = {Head(l)} /\ l # <<>> /\ Last(l) = Head(l)
<1>1. l = <<Head(l)>> /\ Head(l) \in T /\ l # <<>> /\ l[1] = Head(l) /\ Last(l) = l[1]
  BY DEF Last
<1>2. ToSet(<<Head(l)>>) = {Head(l)}
  BY DEF ToSet
<1> QED BY <1>1, <1>2

(* What FlattenSeq does, list by list.                                     *)
Stepwise(r, s, n) == \A i \in 1 .. n : r[i] = IF i = 1 THEN s[i] ELSE r[i - 1] \o s[i]

(* FlattenSeq by its steps.                                                *)
LEMMA FlattenSteps ==
  ASSUME NEW s, NEW n \in Nat, n = Len(s), n # 0
  PROVE  \E r : FlattenSeq(s) = r[n] /\ Stepwise(r, s, n)
<1> DEFINE r == CHOOSE f : f = [i \in 1 .. Len(s) |-> IF i = 1 THEN s[i] ELSE f[i - 1] \o s[i]]
<1>1. FlattenSeq(s) = r[n]
  BY DEF FlattenSeq
<1>2. \E f : f = [i \in 1 .. Len(s) |-> IF i = 1 THEN s[i] ELSE f[i - 1] \o s[i]]
  BY FlattenExists DEF Flattened
<1>3. r = [i \in 1 .. Len(s) |-> IF i = 1 THEN s[i] ELSE r[i - 1] \o s[i]]
  BY <1>2
<1> HIDE DEF r
<1>4. Stepwise(r, s, n)
  BY <1>3 DEF Stepwise
<1> QED BY <1>1, <1>4

(* Lists that are in order among themselves and each in itself make, one   *)
(* behind the other, a list of all their members that is in order.         *)
LEMMA FlattenOrdered ==
  ASSUME NEW T, NEW s \in Seq(Seq(T)), NEW C,
         \A i \in 1 .. Len(s) : Ordered(s[i], C),
         \A i, j \in 1 .. Len(s) : i < j => Precedes(ToSet(s[i]), ToSet(s[j]), C)
  PROVE  /\ FlattenSeq(s) \in Seq(T) /\ Ordered(FlattenSeq(s), C)
         /\ \A x : x \in ToSet(FlattenSeq(s)) <=> \E i \in 1 .. Len(s) : x \in ToSet(s[i])
<1>0. Len(s) \in Nat
  BY LengthIs, Zenon
<1>1. PICK n \in Nat : n = Len(s)
  BY <1>0, Zenon
<1>2. CASE n = 0
  <2>0. Len(s) = 0
    BY <1>1, <1>2
  <2>1. FlattenSeq(s) = s /\ s = <<>>
    <3>1. FlattenSeq(s) = s
      BY <2>0, Zenon DEF FlattenSeq
    <3>2. s = <<>>
      BY <2>0, EmptySeq
    <3> QED BY <3>1, <3>2
  <2>2. <<>> \in Seq(T) /\ Ordered(<<>>, C) /\ ToSet(<<>>) = {}
    BY DEF Ordered, ToSet
  <2> QED BY <1>1, <1>2, <2>1, <2>2
<1>3. CASE n # 0
  <2>1. PICK r : FlattenSeq(s) = r[n] /\ Stepwise(r, s, n)
    BY <1>1, <1>3, FlattenSteps
  <2> DEFINE Good(k) == /\ r[k] \in Seq(T) /\ Ordered(r[k], C)
                        /\ \A x : x \in ToSet(r[k]) <=> \E i \in 1 .. k : x \in ToSet(s[i])
             Bad == {k \in Nat : k \in 1 .. n /\ ~Good(k)}
  <2>5. Bad = {}
    <3> SUFFICES ASSUME Bad # {} PROVE FALSE
      OBVIOUS
    <3>0. Bad \in SUBSET Nat
      OBVIOUS
    <3>9. PICK m \in Bad : \A k \in Bad : m <= k
      BY <3>0, Least
    <3>1. m \in Nat /\ m \in 1 .. n /\ ~Good(m) /\ \A k \in Nat : k \in 1 .. n /\ k < m => Good(k)
      <4>1. \A k \in Nat : k < m => ~(m <= k)
        BY <3>0
      <4> QED BY <3>9, <4>1
    <3>2. CASE m = 1
      <4>1. 1 \in 1 .. n /\ r[1] = s[1] /\ s[1] \in Seq(T) /\ Ordered(s[1], C)
        BY <1>1, <3>1, <3>2, <2>1 DEF Stepwise
      <4>2. 1 .. 1 = {1}
        OBVIOUS
      <4> QED BY <3>1, <3>2, <4>1, <4>2
    <3>3. CASE m # 1
      <4>1. PICK k \in 1 .. n : m = k + 1
        <5>1. m - 1 \in 1 .. n /\ m = (m - 1) + 1
          BY <3>1, <3>3
        <5> QED BY <5>1
      <4>2. Good(k)
        <5>1. k \in Nat /\ k < m
          BY <4>1
        <5> HIDE DEF Good
        <5> QED BY <3>1, <5>1
      <4>3. r[m] = r[k] \o s[m]
        <5>1. m - 1 = k
          BY <4>1
        <5>2. m \in 1 .. n
          BY <3>1
        <5>3. r[m] = IF m = 1 THEN s[m] ELSE r[m - 1] \o s[m]
          BY <2>1, <5>2 DEF Stepwise
        <5> QED BY <5>1, <5>3, <3>3
      <4>4. s[m] \in Seq(T) /\ Ordered(s[m], C)
        BY <1>1, <3>1
      <4>5. Precedes(ToSet(r[k]), ToSet(s[m]), C)
        <5> SUFFICES ASSUME NEW x \in ToSet(r[k]), NEW y \in ToSet(s[m])
                     PROVE  <<x, y>> \notin C
          BY DEF Precedes
        <5>1. PICK i \in 1 .. k : x \in ToSet(s[i])
          BY <4>2
        <5>2. i \in 1 .. n /\ m \in 1 .. n /\ i < m
          BY <3>1, <4>1
        <5>3. Precedes(ToSet(s[i]), ToSet(s[m]), C)
          BY <1>1, <5>2
        <5> QED BY <5>1, <5>3 DEF Precedes
      <4>6. r[m] \in Seq(T) /\ Ordered(r[m], C) /\ ToSet(r[m]) = ToSet(r[k]) \cup ToSet(s[m])
        <5>1. r[k] \in Seq(T) /\ Ordered(r[k], C)
          BY <4>2
        <5>2. /\ r[k] \o s[m] \in Seq(T)
              /\ ToSet(r[k] \o s[m]) = ToSet(r[k]) \cup ToSet(s[m])
          BY <4>4, <5>1, JoinSet
        <5>3. Ordered(r[k] \o s[m], C)
          BY <4>4, <4>5, <5>1, JoinOrdered
        <5> QED BY <4>3, <5>2, <5>3
      <4>7. \A i \in 1 .. m : i \in 1 .. k \/ i = m
        BY <4>1
      <4>8. \A i \in 1 .. k : i \in 1 .. m
        BY <4>1
      <4>9. m \in 1 .. m
        BY <3>1
      <4>11. \A x : x \in ToSet(r[m]) <=> \E i \in 1 .. m : x \in ToSet(s[i])
        BY <4>2, <4>6, <4>7, <4>8, <4>9
      <4> QED BY <3>1, <4>6, <4>11
    <3> QED BY <3>2, <3>3
  <2>6. n \in 1 .. n
    BY <1>3
  <2> QED BY <1>1, <2>1, <2>5, <2>6
<1> QED BY <1>2, <1>3, Zenon

(* Lists without repetitions that have nothing in common make, one behind  *)
(* the other, a list without repetitions of all their members.             *)
LEMMA FlattenLists ==
  ASSUME NEW T, NEW s \in Seq(Seq(T)),
         \A i \in 1 .. Len(s) : Distinct(s[i]), Apart(s)
  PROVE  /\ FlattenSeq(s) \in Seq(T) /\ Distinct(FlattenSeq(s))
         /\ \A x : x \in ToSet(FlattenSeq(s)) <=> \E i \in 1 .. Len(s) : x \in ToSet(s[i])
<1>1. \A i \in 1 .. Len(s) : s[i] \in Seq(T)
  OBVIOUS
<1>2. \A i \in 1 .. Len(s) : Ordered(s[i], Selves(T))
  BY <1>1, DistinctOrdered
<1>3. ASSUME NEW i \in 1 .. Len(s), NEW j \in 1 .. Len(s), i < j
      PROVE  Precedes(ToSet(s[i]), ToSet(s[j]), Selves(T))
  <2>1. i # j
    BY <1>3, LengthIs
  <2>2. ToSet(s[i]) \cap ToSet(s[j]) = {}
    BY <2>1 DEF Apart
  <2> QED BY <2>2 DEF Precedes, Selves
<1>4. /\ FlattenSeq(s) \in Seq(T) /\ Ordered(FlattenSeq(s), Selves(T))
      /\ \A x : x \in ToSet(FlattenSeq(s)) <=> \E i \in 1 .. Len(s) : x \in ToSet(s[i])
  BY <1>2, <1>3, FlattenOrdered
<1> QED BY <1>4, DistinctOrdered

(* The rest of a list is before what comes behind the list.                *)
LEMMA JoinTail ==
  ASSUME NEW T, NEW l \in Seq(T), NEW m \in Seq(T), l # <<>>
  PROVE  Head(l \o m) = Head(l) /\ Tail(l \o m) = Tail(l) \o m /\ l \o m # <<>>
<1>0. PICK n \in Nat : n = Len(l)
  BY LengthIs
<1>1. PICK a \in Nat : Len(l) = a + 1 /\ n = a + 1
  BY <1>0, TailIs
<1>2. PICK b \in Nat : b = Len(m)
  BY LengthIs
<1>3. PICK k : k = Tail(l)
  OBVIOUS
<1>4. PICK r : r = l \o m
  OBVIOUS
<1>5. k \in Seq(T) /\ Len(k) = a /\ Head(l) = l[1] /\ \A i \in 1 .. a : k[i] = l[i + 1]
  BY <1>1, <1>3, TailIs
<1>a. /\ r \in Seq(T) /\ Len(r) = n + b
      /\ \A i \in 1 .. n : r[i] = l[i]
      /\ \A i \in n + 1 .. n + b : r[i] = m[i - n]
  BY <1>0, <1>2, <1>4
<1>6. /\ r \in Seq(T) /\ Len(r) = a + 1 + b
      /\ \A i \in 1 .. a + 1 : r[i] = l[i]
      /\ \A i \in a + 2 .. a + 1 + b : r[i] = m[i - (a + 1)]
  BY <1>1, <1>a
<1>7. r # <<>>
  BY <1>6
<1>8. Len(Tail(r)) = a + b /\ Head(r) = r[1] /\ Tail(r) \in Seq(T)
      /\ \A i \in 1 .. a + b : Tail(r)[i] = r[i + 1]
  BY <1>6, <1>7, TailIs
<1>b. PICK q : q = k \o m
  OBVIOUS
<1>c. a = Len(k) /\ k \in Seq(T)
  BY <1>5
<1>9. /\ q \in Seq(T) /\ Len(q) = a + b
      /\ \A i \in 1 .. a : q[i] = k[i]
      /\ \A i \in a + 1 .. a + b : q[i] = m[i - a]
  BY <1>2, <1>b, <1>c
<1>d. PICK u : u = Tail(r)
  OBVIOUS
<1>e. Len(u) = a + b /\ u \in Seq(T) /\ \A i \in 1 .. a + b : u[i] = r[i + 1]
  BY <1>8, <1>d
<1>10. \A i \in 1 .. a + b : u[i] = q[i]
  <2> SUFFICES ASSUME NEW i \in 1 .. a + b PROVE u[i] = q[i]
    OBVIOUS
  <2>1. CASE i <= a
    <3>1. i \in 1 .. a /\ i + 1 \in 1 .. a + 1
      BY <2>1
    <3>2. u[i] = r[i + 1] /\ r[i + 1] = l[i + 1]
      BY <3>1, <1>6, <1>e
    <3>3. q[i] = k[i] /\ k[i] = l[i + 1]
      BY <3>1, <1>5, <1>9
    <3> QED BY <3>2, <3>3
  <2>2. CASE i > a
    <3>1. i \in a + 1 .. a + b /\ i + 1 \in a + 2 .. a + 1 + b /\ (i + 1) - (a + 1) = i - a
      BY <2>2
    <3>2. u[i] = r[i + 1] /\ q[i] = m[i - a]
      BY <3>1, <1>e, <1>9
    <3>3. r[i + 1] = m[(i + 1) - (a + 1)]
      BY <3>1, <1>6
    <3> QED BY <3>1, <3>2, <3>3
  <2> QED BY <2>1, <2>2
<1>11. Tail(r) = k \o m
  <2>1. u = q
    BY <1>e, <1>9, <1>10
  <2> QED BY <2>1, <1>b, <1>d
<1>12. 1 \in 1 .. a + 1
  OBVIOUS
<1> QED BY <1>3, <1>4, <1>5, <1>6, <1>7, <1>8, <1>11, <1>12

(* One more behind the second list is one more behind both.                *)
LEMMA JoinAppend ==
  ASSUME NEW T, NEW l \in Seq(T), NEW m \in Seq(T), NEW t \in T
  PROVE  l \o Append(m, t) = Append(l \o m, t)
<1>1. PICK a \in Nat : a = Len(l)
  BY LengthIs
<1>2. PICK b \in Nat : b = Len(m)
  BY LengthIs
<1>3. PICK k : k = Append(m, t)
  OBVIOUS
<1>4. PICK r : r = l \o m
  OBVIOUS
<1>5. k \in Seq(T) /\ Len(k) = b + 1 /\ k[b + 1] = t /\ \A i \in 1 .. b : k[i] = m[i]
  BY <1>2, <1>3, AppendIs
<1>6. /\ r \in Seq(T) /\ Len(r) = a + b
      /\ \A i \in 1 .. a : r[i] = l[i]
      /\ \A i \in a + 1 .. a + b : r[i] = m[i - a]
  BY <1>1, <1>2, <1>4
<1>p. PICK p : p = Append(r, t)
  OBVIOUS
<1>q. PICK q : q = l \o k
  OBVIOUS
<1>7. /\ p \in Seq(T) /\ Len(p) = a + b + 1 /\ p[a + b + 1] = t
      /\ \A i \in 1 .. a + b : p[i] = r[i]
  BY <1>6, <1>p, AppendIs
<1>k. k \in Seq(T)
  BY <1>5
<1>n. PICK n \in Nat : n = Len(k)
  BY <1>k, LengthIs
<1>o. n = b + 1
  BY <1>5, <1>n
<1>m. /\ q \in Seq(T) /\ Len(q) = a + n
      /\ \A i \in 1 .. a : q[i] = l[i]
      /\ \A i \in a + 1 .. a + n : q[i] = k[i - a]
  BY <1>1, <1>k, <1>n, <1>q
<1>8. /\ q \in Seq(T) /\ Len(q) = a + b + 1
      /\ \A i \in 1 .. a : q[i] = l[i]
      /\ \A i \in a + 1 .. a + b + 1 : q[i] = k[i - a]
  BY <1>m, <1>o
<1>9. \A i \in 1 .. a + b + 1 : q[i] = p[i]
  <2> SUFFICES ASSUME NEW i \in 1 .. a + b + 1 PROVE q[i] = p[i]
    OBVIOUS
  <2>1. CASE i <= a
    <3>1. i \in 1 .. a /\ i \in 1 .. a + b
      BY <2>1
    <3> QED BY <3>1, <1>6, <1>7, <1>8
  <2>2. CASE i > a /\ i <= a + b
    <3>1. i \in a + 1 .. a + b /\ i \in a + 1 .. a + b + 1 /\ i - a \in 1 .. b /\ i \in 1 .. a + b
      BY <2>2
    <3> QED BY <3>1, <1>5, <1>6, <1>7, <1>8
  <2>3. CASE i = a + b + 1
    <3>1. i \in a + 1 .. a + b + 1 /\ i - a = b + 1
      BY <2>3
    <3>2. q[i] = k[b + 1]
      BY <3>1, <1>8
    <3>3. p[i] = t
      BY <2>3, <1>7
    <3>4. k[b + 1] = t
      BY <1>5
    <3> QED BY <3>2, <3>3, <3>4
  <2> QED BY <2>1, <2>2, <2>3
<1>10. p = q
  BY <1>7, <1>8, <1>9
<1> QED BY <1>3, <1>4, <1>p, <1>q, <1>10

(* One more in front is, backwards, one more behind.                       *)
LEMMA ReversePush ==
  ASSUME NEW T, NEW l \in Seq(T), NEW t \in T
  PROVE  Reverse(<<t>> \o l) = Append(Reverse(l), t)
<1>1. PICK k \in Nat : k = Len(l)
  BY LengthIs
<1>2. PICK m : m = <<t>> \o l
  OBVIOUS
<1>3. /\ m \in Seq(T) /\ Len(m) = k + 1 /\ m[1] = t
      /\ \A i \in 2 .. k + 1 : m[i] = l[i - 1]
  BY <1>1, <1>2, PushIs
<1>4. PICK b : b = Reverse(l)
  OBVIOUS
<1>5. b \in Seq(T) /\ Len(b) = k /\ \A i \in 1 .. k : b[i] = l[(k + 1) - i]
  <2>1. b = [i \in 1 .. k |-> l[(k - i) + 1]]
    BY <1>1, <1>4 DEF Reverse
  <2>2. \A i \in 1 .. k : (k - i) + 1 = (k + 1) - i
    OBVIOUS
  <2>3. b \in Seq(T) /\ Len(b) = k
    BY <1>1, <1>4, ReverseSet
  <2> QED BY <2>1, <2>2, <2>3
<1>6. PICK a : a = Reverse(m)
  OBVIOUS
<1>7. a \in Seq(T) /\ Len(a) = k + 1 /\ \A i \in 1 .. k + 1 : a[i] = m[(k + 2) - i]
  <2>1. a = [i \in 1 .. k + 1 |-> m[((k + 1) - i) + 1]]
    BY <1>3, <1>6 DEF Reverse
  <2>2. \A i \in 1 .. k + 1 : ((k + 1) - i) + 1 = (k + 2) - i
    OBVIOUS
  <2>3. a \in Seq(T) /\ Len(a) = k + 1
    BY <1>3, <1>6, ReverseSet
  <2> QED BY <2>1, <2>2, <2>3
<1>8. /\ Append(b, t) \in Seq(T) /\ Len(Append(b, t)) = k + 1 /\ Append(b, t)[k + 1] = t
      /\ \A i \in 1 .. k : Append(b, t)[i] = b[i]
  BY <1>5, AppendIs
<1>9. \A i \in 1 .. k + 1 : a[i] = Append(b, t)[i]
  <2> SUFFICES ASSUME NEW i \in 1 .. k + 1 PROVE a[i] = Append(b, t)[i]
    OBVIOUS
  <2>1. CASE i = k + 1
    <3>1. (k + 2) - i = 1
      BY <2>1
    <3> QED BY <3>1, <2>1, <1>3, <1>7, <1>8
  <2>2. CASE i # k + 1
    <3>1. i \in 1 .. k /\ (k + 2) - i \in 2 .. k + 1 /\ ((k + 2) - i) - 1 = (k + 1) - i
      BY <2>2
    <3> QED BY <3>1, <1>3, <1>5, <1>7, <1>8
  <2> QED BY <2>1, <2>2
<1>10. a = Append(b, t)
  BY <1>7, <1>8, <1>9
<1> QED BY <1>2, <1>4, <1>6, <1>10

(* The empty list in front or behind.                                      *)
LEMMA JoinEmpty ==
  ASSUME NEW T, NEW l \in Seq(T)
  PROVE  l \o <<>> = l /\ <<>> \o l = l /\ Reverse(<<>>) = <<>>
<1>1. l \o <<>> = l /\ <<>> \o l = l
  OBVIOUS
<1>2. Reverse(<<>>) = <<>>
  <2>1. <<>> \in Seq(T) /\ Len(<<>>) = 0
    OBVIOUS
  <2>2. Reverse(<<>>) \in Seq(T) /\ Len(Reverse(<<>>)) = 0
    BY <2>1, ReverseSet
  <2> QED BY <2>2, EmptySeq
<1> QED BY <1>1, <1>2
=============================================================================
