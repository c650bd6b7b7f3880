------------------------ MODULE OHCIInterruptsProofs ------------------------
(***************************************************************************)
(* Proofs about the two parts of WiiOHCI that live between the filter, the *)
(* secondary handler and the watchdog: the done queue and the root hub.    *)
(*                                                                         *)
(* Done queue, for every set of TDs: when the two takers of the HCCA done  *)
(* head do not overlap between read and acknowledge, no TD is lost and     *)
(* none is linked twice.  Every action either leaves Held alone or moves a *)
(* set of TDs from one place to another, which keeps the places a          *)
(* partition (lemma MoveKeeps).  What makes each step such a move is       *)
(* Handshake: who holds the batch that is still in the HCCA, and that a    *)
(* batch in the HCCA is unacknowledged.                                    *)
(*                                                                         *)
(* Root hub, for every number of ports, polls and slots: with one poll at  *)
(* a time no change is missed, without the help of the watchdog; with any  *)
(* number of them no poll is lost, answered twice or overtaken.            *)
(***************************************************************************)
EXTENDS OHCIDoneQueue, OHCIRootHub, SequenceTheorems, TLAPS

(* The places cover TD and do not overlap. *)
Partitions(f) ==
  /\ \A t \in TD : \E p \in Place : t \in f[p]
  /\ \A p, q \in Place : p # q => f[p] \cap f[q] = {}

LEMMA MoveKeeps ==
  ASSUME NEW f, NEW g, NEW p \in Place, NEW q \in Place, NEW S,
         p # q, S \subseteq f[p], Partitions(f),
         g[p] = f[p] \ S, g[q] = f[q] \cup S,
         \A x \in Place \ {p, q} : g[x] = f[x]
  PROVE  Partitions(g)
<1>1. \A t \in TD : \E x \in Place : t \in g[x]
  <2> SUFFICES ASSUME NEW t \in TD PROVE \E x \in Place : t \in g[x]
    OBVIOUS
  <2>1. PICK x \in Place : t \in f[x]
    BY DEF Partitions
  <2>2. CASE t \in S
    BY <2>2
  <2>3. CASE t \notin S
    BY <2>1, <2>3
  <2>. QED
    BY <2>2, <2>3
<1>2. \A x, y \in Place : x # y => g[x] \cap g[y] = {}
  BY DEF Partitions
<1>. QED
  BY <1>1, <1>2 DEF Partitions

LEMMA SameKeeps ==
  ASSUME NEW f, NEW g, Partitions(f), \A x \in Place : g[x] = f[x]
  PROVE  Partitions(g)
BY DEF Partitions

-----------------------------------------------------------------------------
(* The three list operations of the driver and the controller.             *)

LEMMA EmptyList == ToSet(<<>>) = {} /\ IsInjective(<<>>)
BY DEF ToSet, IsInjective

(* Prepending, as the controller does when it retires a TD. *)
LEMMA PrependList ==
  ASSUME NEW s \in Seq(TD), NEW t \in TD, IsInjective(s), t \notin ToSet(s)
  PROVE  /\ <<t>> \o s \in Seq(TD)
         /\ ToSet(<<t>> \o s) = {t} \cup ToSet(s)
         /\ IsInjective(<<t>> \o s)
<1> DEFINE r == <<t>> \o s
<1>1. r \in Seq(TD) /\ Len(r) = Len(s) + 1 /\ DOMAIN r = 1..Len(s)+1 /\ DOMAIN s = 1..Len(s)
      /\ Len(s) \in Nat
  OBVIOUS
<1>2. r[1] = t /\ \A i \in 1..Len(s) : r[i+1] = s[i]
  OBVIOUS
<1>3. \A i \in 2..Len(s)+1 : r[i] = s[i-1]
  <2> SUFFICES ASSUME NEW i \in 2..Len(s)+1 PROVE r[i] = s[i-1]
    OBVIOUS
  <2>1. i-1 \in 1..Len(s) /\ (i-1)+1 = i
    BY <1>1
  <2>. QED
    BY <1>2, <2>1
<1>4. ToSet(r) = {t} \cup ToSet(s)
  <2>1. ToSet(r) \subseteq {t} \cup ToSet(s)
    BY <1>1, <1>2, <1>3 DEF ToSet
  <2>2. t \in ToSet(r)
    <3>1. 1 \in DOMAIN r
      BY <1>1
    <3>. QED
      BY <1>2, <3>1 DEF ToSet
  <2>3. ASSUME NEW i \in 1..Len(s) PROVE s[i] \in ToSet(r)
    <3>1. i+1 \in DOMAIN r
      BY <1>1
    <3>. QED
      BY <1>2, <3>1 DEF ToSet
  <2>. QED
    BY <1>1, <2>1, <2>2, <2>3 DEF ToSet
<1>5. IsInjective(r)
  <2> SUFFICES ASSUME NEW i \in DOMAIN r, NEW j \in DOMAIN r, r[i] = r[j] PROVE i = j
    BY DEF IsInjective
  <2>1. CASE i = 1 /\ j # 1
    BY <1>1, <1>2, <1>3, <2>1 DEF ToSet
  <2>2. CASE i # 1 /\ j = 1
    BY <1>1, <1>2, <1>3, <2>2 DEF ToSet
  <2>3. CASE i # 1 /\ j # 1
    <3>1. s[i-1] = s[j-1] /\ i-1 \in DOMAIN s /\ j-1 \in DOMAIN s
      BY <1>1, <1>3, <2>3
    <3>. QED
      BY <3>1, <1>1 DEF IsInjective
  <2>. QED
    BY <2>1, <2>2, <2>3
<1>. QED
  BY <1>1, <1>4, <1>5

(* queueDoneHeadTransfers: a reversed batch in front of the queue. *)
LEMMA QueueList ==
  ASSUME NEW b \in Seq(TD), NEW s \in Seq(TD), IsInjective(b), IsInjective(s),
         ToSet(b) \cap ToSet(s) = {}
  PROVE  /\ Reverse(b) \o s \in Seq(TD)
         /\ ToSet(Reverse(b) \o s) = ToSet(b) \cup ToSet(s)
         /\ IsInjective(Reverse(b) \o s)
<1> DEFINE r == Reverse(b)
           c == r \o s
           m == Len(b)
           n == Len(s)
<1>1. m \in Nat /\ n \in Nat /\ DOMAIN b = 1..m /\ DOMAIN s = 1..n
      /\ (\A i \in 1..m : b[i] \in TD) /\ (\A i \in 1..n : s[i] \in TD)
  OBVIOUS
<1>2. r \in Seq(TD) /\ Len(r) = m /\ \A i \in 1..m : r[i] = b[m-i+1]
  BY <1>1 DEF Reverse
<1> HIDE DEF r
<1>3. c \in Seq(TD) /\ Len(c) = m+n /\ DOMAIN c = 1..m+n
  <2>1. c \in Seq(TD) /\ Len(c) = m+n
    BY <1>1, <1>2, ConcatProperties
  <2>. QED
    BY <1>1, <2>1, LenProperties
<1>4. /\ \A i \in 1..m : c[i] = b[m-i+1]
      /\ \A i \in m+1..m+n : c[i] = s[i-m]
  <2>1. \A i \in 1..Len(r)+Len(s) : c[i] = IF i <= Len(r) THEN r[i] ELSE s[i-Len(r)]
    BY ONLY <1>2, s \in Seq(TD), ConcatProperties
  <2>. QED
    BY <1>1, <1>2, <2>1
<1> HIDE DEF c
<1>5. ToSet(c) = ToSet(b) \cup ToSet(s)
  <2>1. ToSet(c) \subseteq ToSet(b) \cup ToSet(s)
    <3> SUFFICES ASSUME NEW i \in 1..m+n PROVE c[i] \in ToSet(b) \cup ToSet(s)
      BY <1>3 DEF ToSet
    <3>1. CASE i \in 1..m
      <4>1. m-i+1 \in DOMAIN b
        BY <1>1, <3>1
      <4>. QED
        BY <1>4, <3>1, <4>1 DEF ToSet
    <3>2. CASE i \in m+1..m+n
      <4>1. i-m \in DOMAIN s
        BY <1>1, <3>2
      <4>. QED
        BY <1>4, <3>2, <4>1 DEF ToSet
    <3>. QED
      BY <1>1, <3>1, <3>2
  <2>2. ASSUME NEW i \in 1..m PROVE b[i] \in ToSet(c)
    <3>1. m-i+1 \in 1..m /\ m-i+1 \in DOMAIN c /\ m-(m-i+1)+1 = i
      BY <1>1, <1>3
    <3>2. c[m-i+1] = b[i]
      BY <1>4, <3>1
    <3>. QED
      BY <3>1, <3>2 DEF ToSet
  <2>3. ASSUME NEW i \in 1..n PROVE s[i] \in ToSet(c)
    <3>1. m+i \in m+1..m+n /\ m+i \in DOMAIN c /\ (m+i)-m = i
      BY <1>1, <1>3
    <3>2. c[m+i] = s[i]
      BY <1>4, <3>1
    <3>. QED
      BY <3>1, <3>2 DEF ToSet
  <2>. QED
    BY <1>1, <2>1, <2>2, <2>3 DEF ToSet
<1>6. IsInjective(c)
  <2> SUFFICES ASSUME NEW i \in 1..m+n, NEW j \in 1..m+n, c[i] = c[j] PROVE i = j
    BY <1>3 DEF IsInjective
  <2>1. CASE i \in 1..m /\ j \in 1..m
    <3>1. m-i+1 \in DOMAIN b /\ m-j+1 \in DOMAIN b /\ b[m-i+1] = b[m-j+1]
      BY <1>1, <1>4, <2>1
    <3>2. m-i+1 = m-j+1
      BY <3>1 DEF IsInjective
    <3>. QED
      BY <1>1, <3>2
  <2>2. CASE i \in m+1..m+n /\ j \in m+1..m+n
    <3>1. i-m \in DOMAIN s /\ j-m \in DOMAIN s /\ s[i-m] = s[j-m]
      BY <1>1, <1>4, <2>2
    <3>2. i-m = j-m
      BY <3>1 DEF IsInjective
    <3>. QED
      BY <1>1, <3>2
  <2>3. ASSUME NEW k \in 1..m, NEW l \in m+1..m+n PROVE c[k] # c[l]
    <3>1. m-k+1 \in DOMAIN b /\ l-m \in DOMAIN s
      BY <1>1
    <3>2. b[m-k+1] \in ToSet(b) /\ s[l-m] \in ToSet(s)
      BY <3>1 DEF ToSet
    <3>. QED
      BY <1>4, <3>2
  <2>. QED
    BY <1>1, <2>1, <2>2, <2>3
<1>. QED
  BY <1>3, <1>5, <1>6 DEF c, r

(* completeTransferQueue: the head leaves the list. *)
LEMMA PopList ==
  ASSUME NEW s \in Seq(TD), s # <<>>, IsInjective(s)
  PROVE  /\ Head(s) \in TD /\ Tail(s) \in Seq(TD)
         /\ Head(s) \in ToSet(s)
         /\ ToSet(Tail(s)) = ToSet(s) \ {Head(s)}
         /\ IsInjective(Tail(s))
<1> DEFINE t == Tail(s)
           n == Len(s)
<1>1. n \in Nat /\ n > 0 /\ DOMAIN s = 1..n /\ Head(s) = s[1] /\ Head(s) \in TD
  OBVIOUS
<1>2. t \in Seq(TD) /\ DOMAIN t = 1..n-1 /\ \A i \in 1..n-1 : t[i] = s[i+1]
  OBVIOUS
<1> HIDE DEF t
<1>3. Head(s) \in ToSet(s)
  BY <1>1 DEF ToSet
<1>4. ToSet(t) = ToSet(s) \ {Head(s)}
  <2>1. ASSUME NEW i \in 1..n-1 PROVE t[i] \in ToSet(s) \ {Head(s)}
    <3>1. i+1 \in DOMAIN s /\ i+1 # 1 /\ 1 \in DOMAIN s
      BY <1>1
    <3>2. s[i+1] # s[1]
      BY <3>1 DEF IsInjective
    <3>. QED
      BY <1>1, <1>2, <3>1, <3>2 DEF ToSet
  <2>2. ASSUME NEW i \in 1..n, s[i] # Head(s) PROVE s[i] \in ToSet(t)
    <3>1. i-1 \in 1..n-1 /\ (i-1)+1 = i
      BY <1>1, <2>2
    <3>2. t[i-1] = s[i]
      BY <1>2, <3>1
    <3>. QED
      BY <1>2, <3>1, <3>2 DEF ToSet
  <2>. QED
    BY <1>1, <1>2, <2>1, <2>2 DEF ToSet
<1>5. IsInjective(t)
  <2> SUFFICES ASSUME NEW i \in 1..n-1, NEW j \in 1..n-1, t[i] = t[j] PROVE i = j
    BY <1>2 DEF IsInjective
  <2>1. i+1 \in DOMAIN s /\ j+1 \in DOMAIN s /\ s[i+1] = s[j+1]
    BY <1>1, <1>2
  <2>2. i+1 = j+1
    BY <2>1 DEF IsInjective
  <2>. QED
    BY <2>2
<1>. QED
  BY <1>1, <1>2, <1>3, <1>4, <1>5 DEF t

-----------------------------------------------------------------------------
(* Who holds the batch that is still visible in the HCCA. *)
Handshake ==
  /\ ~(fpc \in Taking /\ wpc \in Taking)
  /\ fpc \in Taking \/ wpc \in Taking => wdh
  /\ fpc = "read" => fBatch = hccaDone
  /\ wpc = "read" => wBatch = hccaDone
  /\ fpc = "cleared" \/ wpc = "cleared" => hccaDone = <<>>
  /\ hccaDone # <<>> => wdh
  /\ fpc = "idle" => fBatch = <<>>
  /\ wpc \in {"idle", "checked"} => wBatch = <<>>

Injective ==
  \A s \in {hcDone, hccaDone, fBatch, wBatch, writeDone, work} : IsInjective(s)

IInv == TypeOK /\ Handshake /\ Partitions(Held) /\ Injective

LEMMA HeldPlaces ==
  /\ Held["idle"] = idle
  /\ Held["active"] = active
  /\ Held["hc"] = ToSet(hcDone)
  /\ Held["hcca"] = OnHCCA
  /\ Held["filter"] = ToSet(fBatch)
  /\ Held["watchdog"] = ToSet(wBatch)
  /\ Held["queue"] = ToSet(writeDone)
  /\ Held["work"] = ToSet(work)
BY DEF Held, Place

LEMMA InitIInv == Init => IInv
<1> SUFFICES ASSUME Init PROVE IInv
  OBVIOUS
<1>1. TypeOK
  BY EmptySeq DEF Init, TypeOK
<1>3. Handshake
  BY DEF Init, Handshake, Taking
<1>4. Injective
  BY EmptyList DEF Init, Injective
<1>2. Partitions(Held)
  BY EmptyList DEF Init, Partitions, Held, Place, OnHCCA
<1>. QED
  BY <1>1, <1>2, <1>3, <1>4 DEF IInv

LEMMA TypeStep == SerialTakers /\ IInv /\ [Next]_vars => TypeOK'
<1> SUFFICES ASSUME SerialTakers, IInv, [Next]_vars PROVE TypeOK'
  OBVIOUS
<1> USE DEF IInv, TypeOK
<1>1. ASSUME NEW t \in TD, Submit(t) PROVE TypeOK'
  BY <1>1 DEF Submit
<1>2. ASSUME NEW t \in TD, HCRetire(t) PROVE TypeOK'
  BY <1>2 DEF HCRetire
<1>3. CASE HCWriteback
  BY <1>3 DEF HCWriteback
<1>4. CASE Filter
  <2>1. CASE FilterQueue
    BY <1>4, <2>1, QueueList, HeldPlaces DEF FilterQueue, Injective, Partitions, Place
  <2>2. CASE FilterRead
    BY <2>2 DEF FilterRead
  <2>3. CASE FilterClear
    BY <2>3 DEF FilterClear
  <2>4. CASE FilterAck
    BY <2>4 DEF FilterAck
  <2>. QED
    BY <1>4, <2>1, <2>2, <2>3, <2>4 DEF Filter
<1>5. CASE Watchdog
  <2>1. CASE WatchdogQueue
    BY <1>5, <2>1, QueueList, HeldPlaces DEF WatchdogQueue, Injective, Partitions, Place
  <2>2. CASE WatchdogCheck
    BY <2>2 DEF WatchdogCheck
  <2>3. CASE WatchdogRead
    BY <2>3 DEF WatchdogRead
  <2>4. CASE WatchdogClear
    BY <2>4 DEF WatchdogClear
  <2>5. CASE WatchdogAck
    BY <2>5 DEF WatchdogAck
  <2>6. CASE WatchdogLock
    BY <2>6 DEF WatchdogLock
  <2>. QED
    BY <1>5, <2>1, <2>2, <2>3, <2>4, <2>5, <2>6 DEF Watchdog
<1>6. CASE Handler
  <2>1. CASE HandlerReturn
    BY <1>6, <2>1, PopList DEF HandlerReturn, Injective
  <2>. QED
    BY <1>6, <2>1 DEF Handler, HandlerTake
<1>7. CASE UNCHANGED vars
  BY <1>7 DEF vars
<1>. QED
  BY <1>1, <1>2, <1>3, <1>4, <1>5, <1>6, <1>7 DEF Next, Controller

LEMMA HandshakeStep == SerialTakers /\ IInv /\ [Next]_vars => Handshake'
<1> SUFFICES ASSUME SerialTakers, IInv, [Next]_vars PROVE Handshake'
  OBVIOUS
<1> USE DEF IInv, TypeOK, Handshake, Taking
<1>1. ASSUME NEW t \in TD, Submit(t) PROVE Handshake'
  BY <1>1 DEF Submit
<1>2. ASSUME NEW t \in TD, HCRetire(t) PROVE Handshake'
  BY <1>2 DEF HCRetire
<1>3. CASE HCWriteback
  BY <1>3 DEF HCWriteback
<1>4. CASE Filter
  BY <1>4 DEF Filter, FilterRead, FilterClear, FilterAck, FilterQueue
<1>5. CASE Watchdog
  <2>1. CASE WatchdogCheck
    BY <2>1 DEF WatchdogCheck
  <2>2. CASE WatchdogRead
    BY <2>2 DEF WatchdogRead
  <2>3. CASE WatchdogClear
    BY <2>3 DEF WatchdogClear
  <2>4. CASE WatchdogAck
    BY <2>4 DEF WatchdogAck
  <2>5. CASE WatchdogLock
    BY <2>5 DEF WatchdogLock
  <2>6. CASE WatchdogQueue
    BY <2>6 DEF WatchdogQueue
  <2>. QED
    BY <1>5, <2>1, <2>2, <2>3, <2>4, <2>5, <2>6 DEF Watchdog
<1>6. CASE Handler
  BY <1>6 DEF Handler, HandlerTake, HandlerReturn
<1>7. CASE UNCHANGED vars
  BY <1>7 DEF vars
<1>. QED
  BY <1>1, <1>2, <1>3, <1>4, <1>5, <1>6, <1>7 DEF Next, Controller

(* What a step does to the places and to the lists: it keeps both shapes. *)
LEMMA PlacesStep ==
  SerialTakers /\ IInv /\ [Next]_vars => Partitions(Held') /\ Injective'
<1> SUFFICES ASSUME SerialTakers, IInv, [Next]_vars
             PROVE  Partitions(Held') /\ Injective'
  OBVIOUS
<1>0. /\ TypeOK /\ Handshake /\ Partitions(Held) /\ Injective
      /\ TypeOK' /\ Handshake'
  BY TypeStep, HandshakeStep DEF IInv
<1>p. /\ Held'["idle"] = idle'
      /\ Held'["active"] = active'
      /\ Held'["hc"] = ToSet(hcDone')
      /\ Held'["hcca"] = OnHCCA'
      /\ Held'["filter"] = ToSet(fBatch')
      /\ Held'["watchdog"] = ToSet(wBatch')
      /\ Held'["queue"] = ToSet(writeDone')
      /\ Held'["work"] = ToSet(work')
  BY DEF Held, Place
<1>d. \A p, q \in Place : p # q => Held[p] \cap Held[q] = {}
  BY <1>0 DEF Partitions
<1>m. /\ "idle" \in Place /\ "active" \in Place /\ "hc" \in Place /\ "hcca" \in Place
      /\ "filter" \in Place /\ "watchdog" \in Place /\ "queue" \in Place
      /\ "work" \in Place
  BY DEF Place
<1> USE HeldPlaces, EmptyList DEF Place
<1>1. ASSUME NEW t \in TD, Submit(t)
      PROVE  Partitions(Held') /\ Injective'
  <2> DEFINE S == {t}
  <2>1. Injective'
    BY <1>0, <1>1 DEF Injective, Submit
  <2>2. Held'["idle"] = Held["idle"] \ S /\ Held'["active"] = Held["active"] \cup S
    BY <1>1, <1>p DEF Submit
  <2>3. \A x \in Place \ {"idle", "active"} : Held'[x] = Held[x]
    BY <1>1, <1>p DEF Submit, OnHCCA
  <2>4. S \subseteq Held["idle"]
    BY <1>1 DEF Submit
  <2> HIDE DEF S
  <2>p. Partitions(Held')
    BY ONLY <1>0, <2>2, <2>3, <2>4, <1>m, MoveKeeps
  <2>. QED
    BY ONLY <2>1, <2>p
<1>2. ASSUME NEW t \in TD, HCRetire(t)
      PROVE  Partitions(Held') /\ Injective'
  <2> DEFINE S == {t}
  <2>1. t \notin ToSet(hcDone)
    BY <1>d, <1>2 DEF HCRetire
  <2>2. ToSet(hcDone') = {t} \cup ToSet(hcDone) /\ IsInjective(hcDone')
    BY <1>0, <1>2, <2>1, PrependList DEF HCRetire, TypeOK, Injective
  <2>3. Injective'
    BY <1>0, <1>2, <2>2 DEF Injective, HCRetire
  <2>4. Held'["active"] = Held["active"] \ S /\ Held'["hc"] = Held["hc"] \cup S
    BY <1>2, <1>p, <2>2 DEF HCRetire
  <2>5. \A x \in Place \ {"active", "hc"} : Held'[x] = Held[x]
    BY <1>2, <1>p DEF HCRetire, OnHCCA
  <2>6. S \subseteq Held["active"]
    BY <1>2 DEF HCRetire
  <2> HIDE DEF S
  <2>p. Partitions(Held')
    BY ONLY <1>0, <2>4, <2>5, <2>6, <1>m, MoveKeeps
  <2>. QED
    BY ONLY <2>3, <2>p
<1>3. CASE HCWriteback
  <2>1. hccaDone = <<>> /\ fpc # "read" /\ wpc # "read"
    BY <1>0, <1>3 DEF HCWriteback, Handshake, Taking
  <2>2. Injective'
    BY <1>0, <1>3 DEF Injective, HCWriteback
  <2>3. Held["hcca"] = {} /\ Held'["hcca"] = ToSet(hcDone) /\ Held'["hc"] = {}
    BY <1>3, <1>p, <2>1 DEF HCWriteback, OnHCCA
  <2>4. Held'["hc"] = Held["hc"] \ ToSet(hcDone)
        /\ Held'["hcca"] = Held["hcca"] \cup ToSet(hcDone)
    BY <2>3
  <2>5. \A x \in Place \ {"hc", "hcca"} : Held'[x] = Held[x]
    BY <1>3, <1>p DEF HCWriteback
  <2>6. ToSet(hcDone) \subseteq Held["hc"]
    OBVIOUS
  <2>p. Partitions(Held')
    BY ONLY <1>0, <2>4, <2>5, <2>6, <1>m, MoveKeeps
  <2>. QED
    BY ONLY <2>2, <2>p
<1>4. CASE FilterRead
  <2>1. fBatch = <<>> /\ wpc # "read"
    BY <1>0, <1>4 DEF FilterRead, Handshake, Taking
  <2>2. Injective'
    BY <1>0, <1>4 DEF Injective, FilterRead
  <2>3. Held["hcca"] = ToSet(hccaDone) /\ Held'["hcca"] = {}
        /\ Held["filter"] = {} /\ Held'["filter"] = ToSet(hccaDone)
    BY <1>4, <1>p, <2>1 DEF FilterRead, OnHCCA
  <2>4. Held'["hcca"] = Held["hcca"] \ ToSet(hccaDone)
        /\ Held'["filter"] = Held["filter"] \cup ToSet(hccaDone)
    BY <2>3
  <2>5. \A x \in Place \ {"hcca", "filter"} : Held'[x] = Held[x]
    BY <1>4, <1>p DEF FilterRead
  <2>6. ToSet(hccaDone) \subseteq Held["hcca"]
    BY <2>3
  <2>p. Partitions(Held')
    BY ONLY <1>0, <2>4, <2>5, <2>6, <1>m, MoveKeeps
  <2>. QED
    BY ONLY <2>2, <2>p
<1>5. CASE FilterClear
  <2>1. Injective'
    BY <1>0, <1>5 DEF Injective, FilterClear
  <2>2. Held["hcca"] = {} /\ Held'["hcca"] = {}
    BY <1>5, <1>p DEF FilterClear, OnHCCA
  <2>3. \A x \in Place : Held'[x] = Held[x]
    BY <1>5, <1>p, <2>2 DEF FilterClear
  <2>. QED
    BY <1>0, <2>1, <2>3, SameKeeps
<1>6. CASE FilterAck
  <2>1. Injective'
    BY <1>0, <1>6 DEF Injective, FilterAck
  <2>2. Held'["hcca"] = Held["hcca"]
    BY <1>6, <1>p DEF FilterAck, OnHCCA
  <2>3. \A x \in Place : Held'[x] = Held[x]
    BY <1>6, <1>p, <2>2 DEF FilterAck
  <2>. QED
    BY <1>0, <2>1, <2>3, SameKeeps
<1>7. CASE FilterQueue
  <2>1. ToSet(fBatch) \cap ToSet(writeDone) = {}
    BY <1>d
  <2>2. ToSet(writeDone') = ToSet(fBatch) \cup ToSet(writeDone) /\ IsInjective(writeDone')
    BY <1>0, <1>7, <2>1, QueueList DEF FilterQueue, TypeOK, Injective
  <2>3. Injective'
    BY <1>0, <1>7, <2>2 DEF Injective, FilterQueue
  <2>4. Held'["filter"] = Held["filter"] \ ToSet(fBatch)
        /\ Held'["queue"] = Held["queue"] \cup ToSet(fBatch)
    BY <1>7, <1>p, <2>2 DEF FilterQueue
  <2>5. Held'["hcca"] = Held["hcca"]
    BY <1>7, <1>p DEF FilterQueue, OnHCCA
  <2>6. \A x \in Place \ {"filter", "queue"} : Held'[x] = Held[x]
    BY <1>7, <1>p, <2>5 DEF FilterQueue
  <2>7. ToSet(fBatch) \subseteq Held["filter"]
    OBVIOUS
  <2>p. Partitions(Held')
    BY ONLY <1>0, <2>4, <2>6, <2>7, <1>m, MoveKeeps
  <2>. QED
    BY ONLY <2>3, <2>p
<1>8. CASE WatchdogCheck
  <2>1. Injective'
    BY <1>0, <1>8 DEF Injective, WatchdogCheck
  <2>2. \A x \in Place : Held'[x] = Held[x]
    BY <1>8, <1>p DEF WatchdogCheck, OnHCCA
  <2>. QED
    BY <1>0, <2>1, <2>2, SameKeeps
<1>9. CASE WatchdogRead
  <2>1. wBatch = <<>> /\ fpc # "read"
    BY <1>0, <1>9 DEF WatchdogRead, Handshake, Taking
  <2>2. Injective'
    BY <1>0, <1>9 DEF Injective, WatchdogRead
  <2>3. Held["hcca"] = ToSet(hccaDone) /\ Held'["hcca"] = {}
        /\ Held["watchdog"] = {} /\ Held'["watchdog"] = ToSet(hccaDone)
    BY <1>9, <1>p, <2>1 DEF WatchdogRead, OnHCCA
  <2>4. Held'["hcca"] = Held["hcca"] \ ToSet(hccaDone)
        /\ Held'["watchdog"] = Held["watchdog"] \cup ToSet(hccaDone)
    BY <2>3
  <2>5. \A x \in Place \ {"hcca", "watchdog"} : Held'[x] = Held[x]
    BY <1>9, <1>p DEF WatchdogRead
  <2>6. ToSet(hccaDone) \subseteq Held["hcca"]
    BY <2>3
  <2>p. Partitions(Held')
    BY ONLY <1>0, <2>4, <2>5, <2>6, <1>m, MoveKeeps
  <2>. QED
    BY ONLY <2>2, <2>p
<1>10. CASE WatchdogClear
  <2>1. Injective'
    BY <1>0, <1>10 DEF Injective, WatchdogClear
  <2>2. Held["hcca"] = {} /\ Held'["hcca"] = {}
    BY <1>10, <1>p DEF WatchdogClear, OnHCCA
  <2>3. \A x \in Place : Held'[x] = Held[x]
    BY <1>10, <1>p, <2>2 DEF WatchdogClear
  <2>. QED
    BY <1>0, <2>1, <2>3, SameKeeps
<1>11. CASE WatchdogAck
  <2>1. Injective'
    BY <1>0, <1>11 DEF Injective, WatchdogAck
  <2>2. \A x \in Place : Held'[x] = Held[x]
    BY <1>11, <1>p DEF WatchdogAck, OnHCCA
  <2>. QED
    BY <1>0, <2>1, <2>2, SameKeeps
<1>12. CASE WatchdogLock
  <2>1. Injective'
    BY <1>0, <1>12 DEF Injective, WatchdogLock
  <2>2. \A x \in Place : Held'[x] = Held[x]
    BY <1>12, <1>p DEF WatchdogLock, OnHCCA
  <2>. QED
    BY <1>0, <2>1, <2>2, SameKeeps
<1>13. CASE WatchdogQueue
  <2>1. ToSet(wBatch) \cap ToSet(writeDone) = {}
    BY <1>d
  <2>2. ToSet(writeDone') = ToSet(wBatch) \cup ToSet(writeDone) /\ IsInjective(writeDone')
    BY <1>0, <1>13, <2>1, QueueList DEF WatchdogQueue, TypeOK, Injective
  <2>3. Injective'
    BY <1>0, <1>13, <2>2 DEF Injective, WatchdogQueue
  <2>4. Held'["watchdog"] = Held["watchdog"] \ ToSet(wBatch)
        /\ Held'["queue"] = Held["queue"] \cup ToSet(wBatch)
    BY <1>13, <1>p, <2>2 DEF WatchdogQueue
  <2>5. Held'["hcca"] = Held["hcca"]
    BY <1>13, <1>p DEF WatchdogQueue, OnHCCA
  <2>6. \A x \in Place \ {"watchdog", "queue"} : Held'[x] = Held[x]
    BY <1>13, <1>p, <2>5 DEF WatchdogQueue
  <2>7. ToSet(wBatch) \subseteq Held["watchdog"]
    OBVIOUS
  <2>p. Partitions(Held')
    BY ONLY <1>0, <2>4, <2>6, <2>7, <1>m, MoveKeeps
  <2>. QED
    BY ONLY <2>3, <2>p
<1>14. CASE HandlerTake
  <2>1. Injective'
    BY <1>0, <1>14 DEF Injective, HandlerTake
  <2>2. Held["work"] = {} /\ Held'["work"] = ToSet(writeDone) /\ Held'["queue"] = {}
    BY <1>14, <1>p DEF HandlerTake
  <2>3. Held'["queue"] = Held["queue"] \ ToSet(writeDone)
        /\ Held'["work"] = Held["work"] \cup ToSet(writeDone)
    BY <2>2
  <2>4. \A x \in Place \ {"queue", "work"} : Held'[x] = Held[x]
    BY <1>14, <1>p DEF HandlerTake, OnHCCA
  <2>5. ToSet(writeDone) \subseteq Held["queue"]
    OBVIOUS
  <2>p. Partitions(Held')
    BY ONLY <1>0, <2>3, <2>4, <2>5, <1>m, MoveKeeps
  <2>. QED
    BY ONLY <2>1, <2>p
<1>15. CASE HandlerReturn
  <2> DEFINE t == Head(work)
             S == {t}
  <2>1. /\ t \in ToSet(work) /\ ToSet(work') = ToSet(work) \ {t}
        /\ IsInjective(work')
    BY <1>0, <1>15, PopList DEF HandlerReturn, TypeOK, Injective
  <2>2. Injective'
    BY <1>0, <1>15, <2>1 DEF Injective, HandlerReturn
  <2>3. Held'["work"] = Held["work"] \ S /\ Held'["idle"] = Held["idle"] \cup S
    BY <1>15, <1>p, <2>1 DEF HandlerReturn
  <2>4. \A x \in Place \ {"work", "idle"} : Held'[x] = Held[x]
    BY <1>15, <1>p DEF HandlerReturn, OnHCCA
  <2>5. S \subseteq Held["work"]
    BY <2>1
  <2> HIDE DEF S
  <2>p. Partitions(Held')
    BY ONLY <1>0, <2>3, <2>4, <2>5, <1>m, MoveKeeps
  <2>. QED
    BY ONLY <2>2, <2>p
<1>16. CASE UNCHANGED vars
  <2>1. Injective'
    BY <1>0, <1>16 DEF Injective, vars
  <2>2. \A x \in Place : Held'[x] = Held[x]
    BY <1>16, <1>p DEF vars, OnHCCA
  <2>. QED
    BY <1>0, <2>1, <2>2, SameKeeps
<1>. QED
  BY <1>1, <1>2, <1>3, <1>4, <1>5, <1>6, <1>7, <1>8, <1>9, <1>10, <1>11, <1>12,
     <1>13, <1>14, <1>15, <1>16
  DEF Next, Controller, Filter, Watchdog, Handler

(* IInv is inductive: the invariant behind the two theorems below. *)
LEMMA Inductive == SerialTakers => (Spec => []IInv)
<1> SUFFICES ASSUME SerialTakers PROVE Spec => []IInv
  OBVIOUS
<1>1. Init => IInv
  BY InitIInv
<1>2. IInv /\ [Next]_vars => IInv'
  <2> SUFFICES ASSUME IInv, [Next]_vars PROVE IInv'
    OBVIOUS
  <2>1. Partitions(Held)'
    BY PlacesStep DEF Partitions
  <2>. QED
    BY TypeStep, HandshakeStep, PlacesStep, <2>1 DEF IInv
<1>. QED
  BY <1>1, <1>2, PTL DEF Spec

(* The variables keep their types. *)
THEOREM TypeCorrect == SerialTakers => (Spec => []TypeOK)
<1>1. IInv => TypeOK
  BY DEF IInv
<1>. QED
  BY <1>1, Inductive, PTL

(* For every set of TDs: as long as filter and watchdog do not overlap     *)
(* between reading and acknowledging the done head, zeroing it never loses *)
(* a retired TD (filterInterrupt, handleWatchdog).                         *)
THEOREM NothingLost == SerialTakers => (Spec => []NoTransferLost)
<1>1. IInv => NoTransferLost
  BY DEF IInv, Partitions, NoTransferLost
<1>. QED
  BY <1>1, Inductive, PTL

(* Under the same condition no TD is linked into the software queue twice, *)
(* or queued while the controller or the free list still has it            *)
(* (queueDoneHeadTransfers).                                               *)
THEOREM NothingTwice == SerialTakers => (Spec => []OnePlaceEach)
<1>1. IInv => OnePlaceEach
  BY DEF IInv, Partitions, Injective, OnePlaceEach
<1>. QED
  BY <1>1, Inductive, PTL

-----------------------------------------------------------------------------
(* The root hub.                                                           *)

(* A scan is due.                                                          *)
Flagged == hubSignal /\ (intRootHubStatus \/ intResumeDetected)

(* A waiting poll with no scan under way is armed: the next change will    *)
(* interrupt, and one that is latched already does.                        *)
Armed ==
  gate = "idle" /\ slots # <<>>
    => rhscFilter # "idle" \/ Flagged \/ (rhscEnable /\ (change # {} => rhsc))

(* A change the scan has passed by is still signalled.                     *)
Behind ==
  gate = "scan"
    => \A p \in change : p < port /\ p \notin bitmap
                           => rhsc \/ rhscFilter # "idle" \/ Flagged

(* The part of the types the argument needs.                               *)
Shape ==
  /\ change \subseteq Port /\ bitmap \subseteq Port
  /\ port \in 1..(NumPorts + 1)
  /\ gate \in {"idle", "scan"}
  /\ slots \in Seq(Nat) /\ Len(slots) <= 1
  /\ keeps \in Nat /\ keeps <= 1
  /\ polls \in Nat

HubIInv == Shape /\ Armed /\ Behind

(* The hub driver does not change its habit.                               *)
OnePoll == keeps <= 1 => HubIInv

(* Nothing waits at the start.                                             *)
LEMMA HubInitIInv == HubInit /\ keeps <= 1 => HubIInv
  BY RootHubAssumption DEF HubInit, HubIInv, Shape, Armed, Behind, Flagged

(* Only appending lengthens the table, and only when it is empty.          *)
LEMMA ShapeStep == Shape /\ [HubNext]_rootHubVars => Shape'
<1> SUFFICES ASSUME Shape, [HubNext]_rootHubVars PROVE Shape'
  OBVIOUS
<1> USE RootHubAssumption DEF Shape, hubVars, intVars, clientVars
<1>1. CASE UNCHANGED rootHubVars
  BY <1>1 DEF rootHubVars
<1>2. CASE \E p \in Port : PortChange(p)
  BY <1>2 DEF PortChange
<1>3. CASE HubFilter
  BY <1>3 DEF HubFilter, HubFilterDisable, HubFilterAck, HubFilterSignal, HubFilterResume
<1>4. CASE ScanPort
  BY <1>4 DEF ScanPort, Port
<1>5. CASE ScanCompletes
  BY <1>5 DEF ScanCompletes
<1>6. CASE ScanRearms
  BY <1>6 DEF ScanRearms
<1>7. CASE HandleInterrupt
  BY <1>7 DEF HandleInterrupt, StartScan
<1>8. CASE HubWatchdog
  BY <1>8 DEF HubWatchdog, StartScan
<1>9. CASE SubmitPoll
  <2>1. slots = <<>> /\ polls' = polls + 1
    BY <1>9 DEF SubmitPoll
  <2>2. slots' = slots \/ slots' = Append(slots, polls')
    BY <1>9, <2>1 DEF SubmitPoll
  <2>3. polls' \in Nat
    BY <2>1
  <2>4. Append(slots, polls') \in Seq(Nat) /\ Len(Append(slots, polls')) = 1
    BY <2>1, <2>3
  <2>5. slots \in Seq(Nat) /\ Len(slots) <= 1
    OBVIOUS
  <2>6. slots' \in Seq(Nat) /\ Len(slots') <= 1
    BY ONLY <2>2, <2>4, <2>5
  <2> QED BY <1>9, <2>3, <2>6 DEF SubmitPoll, StartScan
<1>10. CASE AbortPoll
  BY <1>10 DEF AbortPoll
<1>11. CASE \E p \in Port : ClearChange(p)
  BY <1>11 DEF ClearChange
<1> QED
  BY <1>1, <1>2, <1>3, <1>4, <1>5, <1>6, <1>7, <1>8, <1>9, <1>10, <1>11
     DEF HubNext, Scan, HubDriver

(* Every step keeps a waiting poll armed: a completion empties the table,  *)
(* the enable that ends a scan finds every missed change signalled.        *)
LEMMA ArmedStep == HubIInv /\ [HubNext]_rootHubVars => Armed'
<1> SUFFICES ASSUME HubIInv, [HubNext]_rootHubVars PROVE Armed'
  OBVIOUS
<1> USE DEF HubIInv, Armed, Flagged, hubVars, intVars, clientVars
<1>1. CASE UNCHANGED rootHubVars
  BY <1>1 DEF rootHubVars
<1>2. CASE \E p \in Port : PortChange(p)
  BY <1>2 DEF PortChange
<1>3. CASE HubFilter
  BY <1>3 DEF HubFilter, HubFilterDisable, HubFilterAck, HubFilterSignal, HubFilterResume
<1>4. CASE ScanPort
  BY <1>4 DEF ScanPort
<1>5. CASE ScanCompletes
  <2>1. slots' = <<>>
    BY <1>5 DEF ScanCompletes, Shape
  <2> QED BY <2>1
<1>6. CASE ScanRearms
  <2>1. \A p \in change : p < port /\ p \notin bitmap
    BY <1>6, RootHubAssumption DEF ScanRearms, Shape, Port
  <2>2. change # {} => rhsc \/ rhscFilter # "idle" \/ Flagged
    BY <1>6, <2>1 DEF ScanRearms, Behind
  <2> QED BY <1>6, <2>2 DEF ScanRearms
<1>7. CASE HandleInterrupt
  BY <1>7 DEF HandleInterrupt, StartScan
<1>8. CASE HubWatchdog
  BY <1>8 DEF HubWatchdog, StartScan
<1>9. CASE SubmitPoll
  <2>1. Len(slots) < Slots
    BY <1>9, RootHubAssumption DEF SubmitPoll, Shape
  <2> QED BY <1>9, <2>1 DEF SubmitPoll, StartScan
<1>10. CASE AbortPoll
  <2>1. slots' = <<>>
    BY <1>10 DEF AbortPoll, Shape
  <2> QED BY <2>1
<1>11. CASE \E p \in Port : ClearChange(p)
  BY <1>11 DEF ClearChange
<1> QED
  BY <1>1, <1>2, <1>3, <1>4, <1>5, <1>6, <1>7, <1>8, <1>9, <1>10, <1>11
     DEF HubNext, Scan, HubDriver

(* A scan starts with nothing behind it; a change behind it sets RHSC, and *)
(* RHSC goes only with a signal.                                           *)
LEMMA BehindStep == HubIInv /\ [HubNext]_rootHubVars => Behind'
<1> SUFFICES ASSUME HubIInv, [HubNext]_rootHubVars PROVE Behind'
  OBVIOUS
<1> USE DEF HubIInv, Behind, Flagged, hubVars, intVars, clientVars
<1>1. CASE UNCHANGED rootHubVars
  BY <1>1 DEF rootHubVars
<1>2. CASE \E p \in Port : PortChange(p)
  BY <1>2 DEF PortChange
<1>3. CASE HubFilter
  BY <1>3 DEF HubFilter, HubFilterDisable, HubFilterAck, HubFilterSignal, HubFilterResume
<1>4. CASE ScanPort
  <2>1. \A p \in change : p < port' => p < port \/ p = port
    BY <1>4, RootHubAssumption DEF ScanPort, Shape, Port
  <2> QED BY <1>4, <2>1 DEF ScanPort
<1>5. CASE ScanCompletes
  BY <1>5 DEF ScanCompletes
<1>6. CASE ScanRearms
  BY <1>6 DEF ScanRearms
<1>7. CASE HandleInterrupt
  <2>1. gate' = "scan" => port' = 1 /\ change' = change
    BY <1>7 DEF HandleInterrupt, StartScan, Shape
  <2>2. \A p \in change : ~(p < 1)
    BY RootHubAssumption DEF Shape, Port
  <2>3. \A p \in change' : gate' = "scan" => ~(p < port')
    BY ONLY <2>1, <2>2
  <2> QED BY <2>3
<1>8. CASE HubWatchdog
  BY <1>8 DEF HubWatchdog, StartScan, Shape, Port
<1>9. CASE SubmitPoll
  <2>1. gate' = "scan" => port' = 1 /\ change' = change
    BY <1>9 DEF SubmitPoll, StartScan, Shape
  <2>2. \A p \in change : ~(p < 1)
    BY RootHubAssumption DEF Shape, Port
  <2>3. \A p \in change' : gate' = "scan" => ~(p < port')
    BY ONLY <2>1, <2>2
  <2> QED BY <2>3
<1>10. CASE AbortPoll
  BY <1>10 DEF AbortPoll
<1>11. CASE \E p \in Port : ClearChange(p)
  BY <1>11 DEF ClearChange
<1> QED
  BY <1>1, <1>2, <1>3, <1>4, <1>5, <1>6, <1>7, <1>8, <1>9, <1>10, <1>11
     DEF HubNext, Scan, HubDriver

LEMMA KeepsStep == [HubNext]_rootHubVars => keeps' = keeps
  BY DEF rootHubVars, clientVars, HubNext, PortChange, HubFilter, HubFilterDisable, HubFilterAck,
         HubFilterSignal, HubFilterResume, Scan, ScanPort, ScanCompletes, ScanRearms,
         HandleInterrupt, HubWatchdog, HubDriver, SubmitPoll, AbortPoll, ClearChange

(* A hub driver that polls again only after an answer never waits in vain  *)
(* on a latched change.                                                    *)
THEOREM PollNeverDeaf == HubSpec => []NeverDeaf
<1>1. HubInit => OnePoll
  BY HubInitIInv DEF OnePoll
<1>2. OnePoll /\ [HubNext]_rootHubVars => OnePoll'
  <2>1. HubIInv /\ [HubNext]_rootHubVars => HubIInv'
    BY ShapeStep, ArmedStep, BehindStep DEF HubIInv
  <2> QED BY <2>1, KeepsStep DEF OnePoll
<1>3. OnePoll => NeverDeaf
  BY DEF OnePoll, HubIInv, Shape, Armed, Flagged, NeverDeaf
<1> QED BY <1>1, <1>2, <1>3, PTL DEF HubSpec
-----------------------------------------------------------------------------
(* The table for any number of polls.                                      *)

(* The polls wait in the order they were made.                             *)
Ordered == \A i, j \in DOMAIN slots : i < j => slots[i] < slots[j]

(* A poll that was made waits in a slot or was answered; what waits was    *)
(* made, and nothing is answered before it is made.                        *)
Kept ==
  /\ \A p \in 1..polls : answer[p] = "none" <=> \E i \in DOMAIN slots : slots[i] = p
  /\ \A i \in DOMAIN slots : slots[i] \in 1..polls
  /\ \A p \in Poll : p > polls => answer[p] = "none"

TableInv == HubTypeOK /\ Ordered /\ Kept

(* What Tail and Append do to the entries of a sequence.                   *)
LEMMA TailEntries ==
  ASSUME NEW S, NEW s \in Seq(S), s # <<>>
  PROVE  /\ Tail(s) \in Seq(S) /\ Len(Tail(s)) = Len(s) - 1
         /\ DOMAIN Tail(s) = 1..(Len(s) - 1)
         /\ \A i \in 1..(Len(s) - 1) : Tail(s)[i] = s[i + 1]
         /\ 1 \in DOMAIN s /\ Head(s) = s[1] /\ s[1] \in S
         /\ DOMAIN s = 1..Len(s) /\ Len(s) \in Nat
  OBVIOUS

LEMMA AppendEntries ==
  ASSUME NEW S, NEW s \in Seq(S), NEW e \in S
  PROVE  /\ Append(s, e) \in Seq(S) /\ Len(Append(s, e)) = Len(s) + 1
         /\ DOMAIN Append(s, e) = 1..(Len(s) + 1)
         /\ \A i \in 1..Len(s) : Append(s, e)[i] = s[i]
         /\ Append(s, e)[Len(s) + 1] = e
         /\ DOMAIN s = 1..Len(s) /\ Len(s) \in Nat
  OBVIOUS

LEMMA TypeOKStep == HubTypeOK /\ [HubNext]_rootHubVars => HubTypeOK'
<1> SUFFICES ASSUME HubTypeOK, [HubNext]_rootHubVars PROVE HubTypeOK'
  OBVIOUS
<1> USE RootHubAssumption DEF HubTypeOK, hubVars, intVars, clientVars
<1>1. CASE UNCHANGED rootHubVars
  BY <1>1 DEF rootHubVars
<1>2. CASE \E p \in Port : PortChange(p)
  BY <1>2 DEF PortChange
<1>3. CASE HubFilter
  BY <1>3 DEF HubFilter, HubFilterDisable, HubFilterAck, HubFilterSignal, HubFilterResume
<1>4. CASE ScanPort
  BY <1>4 DEF ScanPort, Port
<1>5. CASE ScanCompletes
  <2>1. slots # <<>> => Tail(slots) \in Seq(Poll) /\ Len(Tail(slots)) = Len(slots) - 1
                        /\ Len(slots) \in Nat
    BY TailEntries
  <2>2. CASE slots = <<>>
    BY <1>5, <2>2 DEF ScanCompletes
  <2>3. CASE slots # <<>>
    <3>1. slots' \in Seq(Poll) /\ Len(slots') <= Slots
      BY <1>5, <2>1, <2>3 DEF ScanCompletes
    <3>2. told' \in SUBSET Port
      BY <1>5, <2>3 DEF ScanCompletes
    <3>3. answer' \in [Poll -> {"none", "changed", "aborted", "refused"}]
      BY <1>5, <2>3 DEF ScanCompletes
    <3> QED BY <1>5, <3>1, <3>2, <3>3 DEF ScanCompletes
  <2> QED BY <2>2, <2>3
<1>6. CASE ScanRearms
  BY <1>6 DEF ScanRearms
<1>7. CASE HandleInterrupt
  <2>1. port' \in 1..(NumPorts + 1) /\ gate' \in {"idle", "scan"} /\ bitmap' \in SUBSET Port
    BY <1>7 DEF HandleInterrupt, StartScan
  <2> QED BY <1>7, <2>1 DEF HandleInterrupt
<1>8. CASE HubWatchdog
  BY <1>8 DEF HubWatchdog, StartScan, Port
<1>9. CASE SubmitPoll
  <2>1. polls' \in Poll /\ polls' \in 0..MaxPolls
    BY <1>9 DEF SubmitPoll, Poll
  <2>2. Append(slots, polls') \in Seq(Poll)
        /\ Len(Append(slots, polls')) = Len(slots) + 1 /\ Len(slots) \in Nat
    BY <2>1, AppendEntries
  <2>3. CASE Len(slots) < Slots
    <3>1. slots' \in Seq(Poll) /\ Len(slots') <= Slots /\ answer' = answer
      BY <1>9, <2>2, <2>3 DEF SubmitPoll
    <3>2. port' \in 1..(NumPorts + 1) /\ gate' = "scan" /\ bitmap' \in SUBSET Port
      BY <1>9, <2>3 DEF SubmitPoll, StartScan
    <3> QED BY <1>9, <2>1, <3>1, <3>2 DEF SubmitPoll
  <2>4. CASE ~(Len(slots) < Slots)
    BY <1>9, <2>1, <2>4 DEF SubmitPoll
  <2> QED BY <2>3, <2>4
<1>10. CASE AbortPoll
  <2>1. Tail(slots) \in Seq(Poll) /\ Len(Tail(slots)) = Len(slots) - 1
        /\ Len(slots) \in Nat
    BY <1>10, TailEntries DEF AbortPoll
  <2> QED BY <1>10, <2>1 DEF AbortPoll
<1>11. CASE \E p \in Port : ClearChange(p)
  BY <1>11 DEF ClearChange
<1> QED
  BY <1>1, <1>2, <1>3, <1>4, <1>5, <1>6, <1>7, <1>8, <1>9, <1>10, <1>11
     DEF HubNext, Scan, HubDriver

(* Answering the oldest poll: the others move forward and no other poll is *)
(* answered.                                                               *)
LEMMA OldestAnswered ==
  ASSUME TableInv, slots # <<>>, slots' = Tail(slots), polls' = polls,
         NEW a \in {"changed", "aborted"},
         answer' = [answer EXCEPT ![Head(slots)] = a]
  PROVE  Ordered' /\ Kept'
<1> DEFINE n == Len(slots)
<1>1. /\ n \in Nat /\ DOMAIN slots = 1..n /\ 1 \in DOMAIN slots
      /\ Head(slots) = slots[1]
      /\ DOMAIN slots' = 1..(n - 1)
      /\ \A i \in 1..(n - 1) : slots'[i] = slots[i + 1]
  BY TailEntries DEF TableInv, HubTypeOK
<1> HIDE DEF n
<1>2. \A i \in DOMAIN slots : slots[i] \in 1..polls /\ slots[i] \in Nat
  BY RootHubAssumption DEF TableInv, Kept, HubTypeOK
<1>3. polls \in Nat /\ polls <= MaxPolls /\ MaxPolls \in Nat
  BY RootHubAssumption DEF TableInv, HubTypeOK
<1>4. Ordered'
  BY <1>1 DEF TableInv, Ordered
<1>5. \A p \in Poll : answer'[p] = IF p = slots[1] THEN a ELSE answer[p]
  BY <1>1 DEF TableInv, HubTypeOK
<1>6. ASSUME NEW p \in 1..polls
      PROVE  (\E i \in DOMAIN slots' : slots'[i] = p)
               <=> p # slots[1] /\ \E i \in DOMAIN slots : slots[i] = p
  <2>1. ASSUME NEW i \in DOMAIN slots', slots'[i] = p
        PROVE  p # slots[1] /\ \E k \in DOMAIN slots : slots[k] = p
    <3>1. i + 1 \in DOMAIN slots /\ slots[i + 1] = p /\ 1 < i + 1
      BY <1>1, <2>1
    <3>2. slots[1] < slots[i + 1]
      BY <1>1, <3>1 DEF TableInv, Ordered
    <3> QED BY <1>1, <1>2, <3>1, <3>2
  <2>2. ASSUME NEW k \in DOMAIN slots, slots[k] = p, p # slots[1]
        PROVE  \E i \in DOMAIN slots' : slots'[i] = p
    <3>1. k - 1 \in 1..(n - 1) /\ (k - 1) + 1 = k
      BY <1>1, <2>2
    <3> QED BY <1>1, <2>2, <3>1
  <2> QED BY <2>1, <2>2
<1>7. \A p \in 1..polls : p \in Poll
  BY <1>3 DEF Poll
<1>8. \A p \in 1..polls : answer'[p] = "none" <=> \E i \in DOMAIN slots' : slots'[i] = p
  BY <1>5, <1>6, <1>7 DEF TableInv, Kept
<1>9. \A i \in DOMAIN slots' : slots'[i] \in 1..polls
  BY <1>1, <1>2
<1>10. slots[1] <= polls
  BY <1>1, <1>2, <1>3
<1>11. \A p \in Poll : p > polls => answer'[p] = "none"
  BY <1>1, <1>2, <1>3, <1>5, <1>10 DEF TableInv, Kept, Poll
<1> QED BY <1>4, <1>8, <1>9, <1>11 DEF Kept

(* A new poll is the youngest, and waits or is refused.                    *)
LEMMA PollSubmitted == TableInv /\ SubmitPoll => Ordered' /\ Kept'
<1> SUFFICES ASSUME TableInv, SubmitPoll PROVE Ordered' /\ Kept'
  OBVIOUS
<1> DEFINE n == Len(slots)
<1>1. polls \in Nat /\ polls' = polls + 1 /\ polls' \in Poll /\ MaxPolls \in Nat
  BY RootHubAssumption DEF TableInv, HubTypeOK, SubmitPoll, Poll
<1>2. /\ n \in Nat /\ DOMAIN slots = 1..n
      /\ DOMAIN Append(slots, polls') = 1..(n + 1)
      /\ \A i \in 1..n : Append(slots, polls')[i] = slots[i]
      /\ Append(slots, polls')[n + 1] = polls'
  BY <1>1, AppendEntries DEF TableInv, HubTypeOK
<1> HIDE DEF n
<1>3. \A i \in 1..n : slots[i] \in 1..polls
  BY <1>2 DEF TableInv, Kept
<1>4. \A p \in 1..polls' : p \in 1..polls \/ p = polls'
  BY <1>1
<1>5. answer[polls'] = "none"
  BY <1>1 DEF TableInv, Kept
<1>6. CASE Len(slots) < Slots
  <2>1. slots' = Append(slots, polls') /\ answer' = answer
    BY <1>6 DEF SubmitPoll
  <2>2. \A i, j \in 1..(n + 1) : i < j => i \in 1..n /\ (j \in 1..n \/ j = n + 1)
    BY <1>2
  <2>3. Ordered'
    BY <1>1, <1>2, <1>3, <2>1, <2>2 DEF TableInv, Ordered
  <2>4. \A p \in 1..polls : p # polls'
    BY <1>1
  <2>5. \A p \in 1..polls :
          (\E i \in DOMAIN slots' : slots'[i] = p) <=> \E i \in DOMAIN slots : slots[i] = p
    BY <1>2, <2>1, <2>4
  <2>6. \E i \in DOMAIN slots' : slots'[i] = polls'
    BY <1>2, <2>1
  <2>7. \A p \in 1..polls' : answer'[p] = "none" <=> \E i \in DOMAIN slots' : slots'[i] = p
    BY <1>4, <1>5, <2>1, <2>5, <2>6 DEF TableInv, Kept
  <2>8. \A i \in DOMAIN slots' : slots'[i] \in 1..polls'
    BY <1>1, <1>2, <1>3, <2>1
  <2>9. \A p \in Poll : p > polls' => answer'[p] = "none"
    BY <1>1, <2>1 DEF TableInv, Kept, Poll
  <2> QED BY <2>3, <2>7, <2>8, <2>9 DEF Kept
<1>7. CASE ~(Len(slots) < Slots)
  <2>1. slots' = slots /\ answer' = [answer EXCEPT ![polls'] = "refused"]
    BY <1>7 DEF SubmitPoll
  <2>2. \A p \in Poll : answer'[p] = IF p = polls' THEN "refused" ELSE answer[p]
    BY <2>1 DEF TableInv, HubTypeOK
  <2>3. ~ \E i \in DOMAIN slots : slots[i] = polls'
    BY <1>1, <1>2, <1>3
  <2>4. \A p \in 1..polls : p \in Poll /\ p # polls'
    BY <1>1 DEF TableInv, HubTypeOK, Poll
  <2>5. \A p \in 1..polls' : answer'[p] = "none" <=> \E i \in DOMAIN slots' : slots'[i] = p
    BY <1>1, <1>4, <2>1, <2>2, <2>3, <2>4 DEF TableInv, Kept
  <2>6. \A i \in DOMAIN slots' : slots'[i] \in 1..polls'
    BY <1>1, <1>2, <1>3, <2>1
  <2>7. \A p \in Poll : p > polls' => answer'[p] = "none"
    BY <1>1, <2>2 DEF TableInv, Kept, Poll
  <2> QED BY <2>1, <2>5, <2>6, <2>7 DEF TableInv, Ordered, Kept
<1> QED BY <1>6, <1>7

(* No poll is lost or answered twice, and they are answered in order,      *)
(* however many the hub driver keeps pending.                              *)
THEOREM NoPollLost == HubSpec => []PollsKept
<1>1. HubInit => TableInv
  <2> SUFFICES ASSUME HubInit PROVE TableInv
    OBVIOUS
  <2>1. slots \in Seq(Poll) /\ Len(slots) = 0 /\ port \in 1..(NumPorts + 1)
    BY RootHubAssumption DEF HubInit
  <2>2. answer \in [Poll -> {"none", "changed", "aborted", "refused"}]
    BY DEF HubInit
  <2>3. {intRootHubStatus, intResumeDetected, hubSignal} \subseteq BOOLEAN
    BY DEF HubInit
  <2>4. /\ keeps \in 0..MaxPending /\ polls \in 0..MaxPolls
        /\ changesLeft \in 0..MaxChanges /\ Len(slots) <= Slots
    BY <2>1, RootHubAssumption DEF HubInit
  <2>5. /\ change \in SUBSET Port /\ bitmap \in SUBSET Port /\ told \in SUBSET Port
        /\ rhsc \in BOOLEAN /\ rhscEnable \in BOOLEAN
        /\ rhscFilter \in {"idle", "disabled", "acked"} /\ gate \in {"idle", "scan"}
    BY DEF HubInit
  <2>6. HubTypeOK
    BY <2>1, <2>2, <2>3, <2>4, <2>5 DEF HubTypeOK
  <2>7. slots = <<>> /\ polls = 0 /\ \A p \in Poll : answer[p] = "none"
    BY DEF HubInit
  <2> QED BY <2>6, <2>7 DEF TableInv, Ordered, Kept
<1>2. TableInv /\ [HubNext]_rootHubVars => TableInv'
  <2> SUFFICES ASSUME TableInv, [HubNext]_rootHubVars PROVE Ordered' /\ Kept'
    BY TypeOKStep DEF TableInv
  <2>1. CASE ScanCompletes /\ slots # <<>>
    <3>1. /\ slots' = Tail(slots) /\ polls' = polls
          /\ answer' = [answer EXCEPT ![Head(slots)] = "changed"]
      BY <2>1 DEF ScanCompletes
    <3> QED BY <2>1, <3>1, OldestAnswered
  <2>2. CASE AbortPoll
    <3>1. /\ slots # <<>> /\ slots' = Tail(slots) /\ polls' = polls
          /\ answer' = [answer EXCEPT ![Head(slots)] = "aborted"]
      BY <2>2 DEF AbortPoll
    <3> QED BY <3>1, OldestAnswered
  <2>3. CASE SubmitPoll
    BY <2>3, PollSubmitted
  <2>4. CASE UNCHANGED <<slots, polls, answer>>
    BY <2>4 DEF TableInv, Ordered, Kept
  <2>5. \/ ScanCompletes /\ slots # <<>>
        \/ AbortPoll \/ SubmitPoll
        \/ UNCHANGED <<slots, polls, answer>>
    BY DEF rootHubVars, clientVars, HubNext, PortChange, HubFilter, HubFilterDisable, HubFilterAck,
           HubFilterSignal, HubFilterResume, Scan, ScanPort, ScanCompletes, ScanRearms,
           HandleInterrupt, HubWatchdog, HubDriver, ClearChange
  <2> QED BY <2>1, <2>2, <2>3, <2>4, <2>5
<1>3. TableInv => PollsKept
  BY DEF TableInv, Ordered, Kept, PollsKept
<1> QED BY <1>1, <1>2, <1>3, PTL DEF HubSpec
=============================================================================
