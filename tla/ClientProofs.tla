---------------------------- MODULE ClientProofs ----------------------------
(***************************************************************************)
(* Proofs about the clients in pkg/client, for any namespaces, names,      *)
(* clients and number of writes, and for informers of every scope: of      *)
(* ClusterCache, and at the end of FakeClusters, the clientset that stands *)
(* in for the real one below the same informer.                            *)
(***************************************************************************)
EXTENDS ClusterCache, SequenceTheorems, WellFoundedInduction, TLAPS

Writes == [key : Keys, live : BOOLEAN, label : BOOLEAN, cnt : Nat]

Objects ==
  [key : Keys, ver : Nat, label : BOOLEAN, cnt : Nat, shared : BOOLEAN, dirty : BOOLEAN]

TypeInv ==
  /\ log \in Seq(Writes)
  /\ acc \in [Keys -> Nat]
  /\ pos \in 0..Now
  /\ obj \in [Clients -> Objects \cup {None}]

(* The object in the hand of a client is one that the server has stored at *)
(* some time, changed once if it is dirty.                                 *)
HandInv ==
  \A c \in Clients : obj[c] # None =>
    /\ obj[c].ver \in 1..Now
    /\ ~obj[c].dirty => obj[c].cnt = log[obj[c].ver].cnt
    /\ obj[c].dirty  => obj[c].cnt = log[obj[c].ver].cnt + 1

(* The inductive invariant.                                                *)
IInv == TypeInv /\ CacheIsSnapshot /\ HandInv /\ NoLostUpdate

-----------------------------------------------------------------------------
(* Lemmas about the versions of an object.                                 *)

(* A set of numbers up to n has a greatest element, which is its Max.      *)
LEMMA MaxProperties ==
  ASSUME NEW n \in Nat, NEW S \in SUBSET (0..n), S # {}
  PROVE  Max(S) \in S /\ \A i \in S : i <= Max(S)
<1> DEFINE T == {n - i : i \in S}
<1>1. T \subseteq Nat /\ T # {}
  <2>1. \A i \in S : n - i \in Nat
    OBVIOUS
  <2>. QED
    BY <2>1
<1>2. PICK x \in T : \A y \in T : ~(<<y, x>> \in OpToRel(<, Nat))
  BY <1>1, WFMin, NatLessThanWellFounded
<1>3. \A y \in T : ~(y < x)
  BY <1>1, <1>2 DEF OpToRel
<1>4. PICK m \in S : x = n - m
  OBVIOUS
<1>5. ASSUME NEW i \in S PROVE m >= i
  <2>1. ~(n - i < n - m)
    BY <1>3, <1>4
  <2>. QED
    BY <2>1
<1>6. \E z \in S : \A i \in S : z >= i
  BY <1>5
<1>7. Max(S) \in S /\ \A i \in S : Max(S) >= i
  BY <1>6 DEF Max
<1>. QED
  BY <1>7

(* The greatest element is known by its properties.                        *)
LEMMA MaxIs ==
  ASSUME NEW n \in Nat, NEW S \in SUBSET (0..n), NEW m \in S, \A i \in S : i <= m
  PROVE  Max(S) = m
<1>1. Max(S) \in S /\ \A i \in S : i <= Max(S)
  BY MaxProperties
<1>2. PICK x \in S : x = Max(S)
  BY <1>1
<1>3. x <= m /\ m <= x
  BY <1>1, <1>2
<1>4. x = m
  BY <1>3
<1>. QED
  BY <1>2, <1>4

(* Version, of any sequence of writes.                                     *)
LastOf(l, k, n) == Max({0} \cup {i \in 1..n : l[i].key = k})

(* The last version of an object up to n is a write of it, after which     *)
(* there is none up to n.                                                  *)
LEMMA LastOfProperties ==
  ASSUME NEW l, NEW k, NEW n \in Nat
  PROVE  /\ LastOf(l, k, n) \in 0..n
         /\ LastOf(l, k, n) # 0 => l[LastOf(l, k, n)].key = k
         /\ \A i \in 1..n : l[i].key = k => i <= LastOf(l, k, n)
<1> DEFINE S == {0} \cup {i \in 1..n : l[i].key = k}
<1>1. S \in SUBSET (0..n) /\ S # {}
  OBVIOUS
<1>2. Max(S) \in S /\ \A i \in S : i <= Max(S)
  BY <1>1, MaxProperties
<1>3. LastOf(l, k, n) = Max(S)
  BY DEF LastOf
<1>. QED
  BY <1>2, <1>3

(* Any write of k up to n after which there is none is the last version,   *)
(* and so is 0 if there is none at all.                                    *)
LEMMA LastOfIs ==
  ASSUME NEW l, NEW k, NEW n \in Nat, NEW v \in 0..n,
         v # 0 => l[v].key = k,
         \A i \in 1..n : l[i].key = k => i <= v
  PROVE  LastOf(l, k, n) = v
<1> DEFINE S == {0} \cup {i \in 1..n : l[i].key = k}
<1>1. S \in SUBSET (0..n) /\ v \in S /\ \A i \in S : i <= v
  OBVIOUS
<1>2. Max(S) = v
  BY <1>1, MaxIs
<1>. QED
  BY <1>2 DEF LastOf

(* One write more is the last version of its own object, and changes       *)
(* nothing for another.                                                    *)
LEMMA LastOfStep ==
  ASSUME NEW l, NEW k, NEW n \in Nat
  PROVE  LastOf(l, k, n + 1) = IF l[n + 1].key = k THEN n + 1 ELSE LastOf(l, k, n)
<1>1. /\ LastOf(l, k, n) \in 0..n
      /\ LastOf(l, k, n) # 0 => l[LastOf(l, k, n)].key = k
      /\ \A i \in 1..n : l[i].key = k => i <= LastOf(l, k, n)
  BY LastOfProperties
<1>2. CASE l[n + 1].key = k
  <2>1. n + 1 \in 0..(n + 1) /\ \A i \in 1..(n + 1) : i <= n + 1
    OBVIOUS
  <2>2. LastOf(l, k, n + 1) = n + 1
    BY <1>2, <2>1, LastOfIs
  <2>. QED
    BY <1>2, <2>2
<1>3. CASE l[n + 1].key # k
  <2>1. LastOf(l, k, n) \in 0..(n + 1)
    BY <1>1
  <2>2. \A i \in 1..(n + 1) : i \in 1..n \/ i = n + 1
    OBVIOUS
  <2>3. \A i \in 1..(n + 1) : l[i].key = k => i <= LastOf(l, k, n)
    BY <1>1, <1>3, <2>2
  <2>4. LastOf(l, k, n + 1) = LastOf(l, k, n)
    BY <1>1, <2>1, <2>3, LastOfIs
  <2>. QED
    BY <1>3, <2>4
<1>. QED
  BY <1>2, <1>3

(* It depends on the writes up to n only.                                  *)
LEMMA LastOfSame ==
  ASSUME NEW l, NEW m, NEW k, NEW n \in Nat, \A i \in 1..n : m[i] = l[i]
  PROVE  LastOf(m, k, n) = LastOf(l, k, n)
<1>1. /\ LastOf(l, k, n) \in 0..n
      /\ LastOf(l, k, n) # 0 => l[LastOf(l, k, n)].key = k
      /\ \A i \in 1..n : l[i].key = k => i <= LastOf(l, k, n)
  BY LastOfProperties
<1>2. LastOf(l, k, n) # 0 => m[LastOf(l, k, n)].key = k
  BY <1>1
<1>3. \A i \in 1..n : m[i].key = k => i <= LastOf(l, k, n)
  BY <1>1
<1>. QED
  BY <1>1, <1>2, <1>3, LastOfIs

(* A write leaves the versions up to then as they are, and is itself the   *)
(* last version of its object.                                             *)
LEMMA WriteEffect ==
  ASSUME TypeInv, NEW e \in Writes, log' = Append(log, e)
  PROVE  /\ log' \in Seq(Writes) /\ Now \in Nat /\ Now' = Now + 1
         /\ log'[Now + 1] = e
         /\ \A i \in 1..Now : log'[i] = log[i]
         /\ \A k \in Keys, n \in 0..Now : LastOf(log', k, n) = LastOf(log, k, n)
         /\ \A k \in Keys :
              LastOf(log', k, Now + 1) = IF k = e.key THEN Now + 1 ELSE LastOf(log, k, Now)
<1>1. /\ log' \in Seq(Writes) /\ Now \in Nat /\ Now' = Now + 1 /\ log'[Now + 1] = e
      /\ \A i \in 1..Now : log'[i] = log[i]
  BY AppendProperties, LenProperties DEF TypeInv, Now
<1>2. ASSUME NEW k \in Keys, NEW n \in 0..Now PROVE LastOf(log', k, n) = LastOf(log, k, n)
  <2>1. n \in Nat /\ \A i \in 1..n : i \in 1..Now
    BY <1>1
  <2>. QED
    BY <1>1, <2>1, LastOfSame
<1>3. ASSUME NEW k \in Keys
      PROVE  LastOf(log', k, Now + 1) = IF k = e.key THEN Now + 1 ELSE LastOf(log, k, Now)
  <2>1. LastOf(log', k, Now + 1) = IF log'[Now + 1].key = k THEN Now + 1 ELSE LastOf(log', k, Now)
    BY <1>1, LastOfStep
  <2>2. LastOf(log', k, Now) = LastOf(log, k, Now)
    BY <1>1, <1>2
  <2>. QED
    BY <1>1, <2>1, <2>2
<1>. QED
  BY <1>1, <1>2, <1>3

-----------------------------------------------------------------------------
(* The initial state satisfies IInv.                                       *)
LEMMA InitIInv == Init => IInv
<1> SUFFICES ASSUME Init PROVE IInv
  OBVIOUS
<1>1. TypeInv
  BY EmptySeq DEF Init, TypeInv, Now
<1>2. ASSUME NEW k \in Keys PROVE Version(k, 0) = 0
  <2>1. LastOf(log, k, 0) \in 0..0
    BY LastOfProperties
  <2>. QED
    BY <2>1 DEF LastOf, Version
<1>3. CacheIsSnapshot
  BY <1>2 DEF Init, CacheIsSnapshot, ListFunc, List
<1>4. HandInv
  BY DEF Init, HandInv
<1>5. NoLostUpdate
  <2>1. Now = 0
    BY EmptySeq DEF Init, Now
  <2>. QED
    BY <1>2, <2>1 DEF NoLostUpdate, Live
<1>. QED
  BY <1>1, <1>3, <1>4, <1>5 DEF IInv

(* What the informer shows of the object k at version n.                   *)
LEMMA SnapshotAt ==
  ASSUME NEW n, NEW k \in Keys
  PROVE  ListFunc(n)[k] =
           IF LastOf(log, k, n) # 0
                /\ Selected(informer.namespace, informer.tweakListOptions, log[LastOf(log, k, n)])
           THEN Decode(LastOf(log, k, n)) ELSE Nil
BY DEF ListFunc, List, Version, LastOf

(* A write does not change what there was at an earlier version.           *)
LEMMA WriteKeepsSnapshot ==
  ASSUME TypeInv, CacheIsSnapshot, NEW e \in Writes, log' = Append(log, e),
         UNCHANGED <<informer, cache, pos>>
  PROVE  CacheIsSnapshot'
<1>1. /\ Now \in Nat
      /\ \A i \in 1..Now : log'[i] = log[i]
      /\ \A k \in Keys, n \in 0..Now : LastOf(log', k, n) = LastOf(log, k, n)
  BY WriteEffect
<1>2. pos \in 0..Now /\ pos \in Nat
  BY <1>1 DEF TypeInv
<1>3. ASSUME NEW k \in Keys
      PROVE  /\ Version(k, pos)' = Version(k, pos)
             /\ Version(k, pos) # 0 => log'[Version(k, pos)] = log[Version(k, pos)]
  <2>1. Version(k, pos)' = LastOf(log', k, pos) /\ Version(k, pos) = LastOf(log, k, pos)
    BY DEF Version, LastOf
  <2>2. LastOf(log', k, pos) = LastOf(log, k, pos)
    BY <1>1, <1>2
  <2>3. LastOf(log, k, pos) \in 0..pos
    BY <1>2, LastOfProperties
  <2>4. LastOf(log, k, pos) # 0 => LastOf(log, k, pos) \in 1..Now
    BY <1>1, <1>2, <2>3
  <2>. QED
    BY <1>1, <2>1, <2>2, <2>4
<1>4. ListFunc(pos)' = ListFunc(pos)
  BY <1>3 DEF ListFunc, List, Decode
<1>. QED
  BY <1>4 DEF CacheIsSnapshot

(* A write that is, if it stores an object, changed as often as updates    *)
(* were accepted, loses none.                                              *)
LEMMA WriteKeepsCount ==
  ASSUME TypeInv, NoLostUpdate, NEW e \in Writes, log' = Append(log, e),
         \A k \in Keys : k # e.key => acc'[k] = acc[k],
         e.live => e.cnt = acc'[e.key]
  PROVE  NoLostUpdate'
<1>1. /\ Now \in Nat /\ Now' = Now + 1 /\ log'[Now + 1] = e
      /\ \A i \in 1..Now : log'[i] = log[i]
      /\ \A k \in Keys :
           LastOf(log', k, Now + 1) = IF k = e.key THEN Now + 1 ELSE LastOf(log, k, Now)
  BY WriteEffect
<1>2. ASSUME NEW k \in Keys, Live(k)' PROVE log'[Version(k, Now)'].cnt = acc'[k]
  <2>1. Version(k, Now)' = LastOf(log', k, Now + 1) /\ Version(k, Now) = LastOf(log, k, Now)
    BY <1>1 DEF Version, LastOf
  <2>2. CASE k = e.key
    <3>1. Version(k, Now)' = Now + 1
      BY <1>1, <2>1, <2>2
    <3>2. e.live
      BY <1>1, <1>2, <3>1 DEF Live
    <3>. QED
      BY <1>1, <2>2, <3>1, <3>2
  <2>3. CASE k # e.key
    <3>1. Version(k, Now)' = Version(k, Now)
      BY <1>1, <2>1, <2>3
    <3>2. Version(k, Now) # 0 => Version(k, Now) \in 1..Now
      BY <1>1, <2>1, LastOfProperties
    <3>3. Version(k, Now) # 0 /\ log'[Version(k, Now)].live
      BY <1>2, <3>1 DEF Live
    <3>4. Live(k) /\ log'[Version(k, Now)] = log[Version(k, Now)]
      BY <1>1, <3>2, <3>3 DEF Live
    <3>. QED
      BY <2>3, <3>1, <3>4 DEF NoLostUpdate
  <2>. QED
    BY <2>2, <2>3
<1>. QED
  BY <1>2 DEF NoLostUpdate

(* What clients have in hand stays stored.                                 *)
LEMMA WriteKeepsHands ==
  ASSUME TypeInv, HandInv, NEW e \in Writes, log' = Append(log, e), UNCHANGED obj
  PROVE  HandInv'
<1>1. /\ Now \in Nat /\ Now' = Now + 1
      /\ \A i \in 1..Now : log'[i] = log[i]
  BY WriteEffect
<1>2. \A i \in 1..Now : i \in 1..(Now + 1)
  BY <1>1
<1>. QED
  BY <1>1, <1>2 DEF HandInv

-----------------------------------------------------------------------------
(* The steps.                                                              *)

(* A client or another program writes.                                     *)
LEMMA WriteStep ==
  ASSUME IInv, NEW k \in Keys, NEW live \in BOOLEAN, NEW label \in BOOLEAN, NEW cnt \in Nat,
         Write(k, live, label, cnt), UNCHANGED <<informer, cache, pos, obj>>,
         acc' \in [Keys -> Nat],
         \A j \in Keys : j # k => acc'[j] = acc[j],
         live => cnt = acc'[k]
  PROVE  IInv'
<1> DEFINE e == [key |-> k, live |-> live, label |-> label, cnt |-> cnt]
<1>1. e \in Writes /\ log' = Append(log, e)
  BY DEF Writes, Write
<1>2. e.key = k /\ e.live = live /\ e.cnt = cnt
  OBVIOUS
<1> HIDE DEF e
<1>3. log' \in Seq(Writes) /\ Now \in Nat /\ Now' = Now + 1
  BY <1>1, WriteEffect DEF IInv
<1>4. TypeInv'
  BY <1>3 DEF IInv, TypeInv
<1>5. CacheIsSnapshot'
  BY <1>1, WriteKeepsSnapshot DEF IInv
<1>6. HandInv'
  BY <1>1, WriteKeepsHands DEF IInv
<1>7. NoLostUpdate'
  BY <1>1, <1>2, WriteKeepsCount DEF IInv
<1>. QED
  BY <1>4, <1>5, <1>6, <1>7 DEF IInv

(* The object that is live on the server.                                  *)
LEMMA LiveObject ==
  ASSUME IInv, NEW k \in Keys, Live(k)
  PROVE  /\ Version(k, Now) \in 1..Now
         /\ log[Version(k, Now)] \in Writes
         /\ log[Version(k, Now)].key = k
         /\ log[Version(k, Now)].cnt = acc[k]
<1>1. log \in Seq(Writes) /\ Now \in Nat
  BY LenProperties DEF IInv, TypeInv, Now
<1>2. Version(k, Now) = LastOf(log, k, Now)
  BY DEF Version, LastOf
<1>3. LastOf(log, k, Now) \in 0..Now /\ LastOf(log, k, Now) # 0
      /\ log[LastOf(log, k, Now)].key = k
  BY <1>1, <1>2, LastOfProperties DEF Live
<1>4. Version(k, Now) \in 1..Now
  BY <1>1, <1>2, <1>3
<1>5. log[Version(k, Now)] \in Writes
  BY <1>1, <1>4, ElementOfSeq DEF Now
<1>. QED
  BY <1>2, <1>3, <1>4, <1>5 DEF IInv, NoLostUpdate

LEMMA OtherUpdateIInv == ASSUME IInv, NEW k \in Keys, OtherUpdate(k) PROVE IInv'
<1> DEFINE w == log[Version(k, Now)]
<1>1. w \in Writes /\ w.cnt = acc[k]
  BY LiveObject DEF OtherUpdate
<1>2. Write(k, TRUE, w.label, w.cnt + 1) /\ UNCHANGED <<informer, cache, pos, obj>>
  BY DEF OtherUpdate, reflectorVars, clientVars
<1>3. acc' = [acc EXCEPT ![k] = @ + 1] /\ acc \in [Keys -> Nat]
  BY DEF OtherUpdate, IInv, TypeInv
<1>4. /\ acc' \in [Keys -> Nat] /\ acc'[k] = acc[k] + 1
      /\ \A j \in Keys : j # k => acc'[j] = acc[j]
  BY <1>3
<1>5. w.label \in BOOLEAN /\ w.cnt + 1 \in Nat
  BY <1>1 DEF Writes
<1> HIDE DEF w
<1>. QED
  BY <1>1, <1>2, <1>4, <1>5, WriteStep

LEMMA CreateIInv ==
  ASSUME IInv, NEW c \in Clients, NEW k \in Keys, NEW label \in BOOLEAN, Create(c, k, label)
  PROVE  IInv'
<1>1. Write(k, TRUE, label, 0) /\ UNCHANGED <<informer, cache, pos, obj>>
  BY DEF Create, reflectorVars, clientVars
<1>2. acc' = [acc EXCEPT ![k] = 0] /\ acc \in [Keys -> Nat]
  BY DEF Create, IInv, TypeInv
<1>3. /\ acc' \in [Keys -> Nat] /\ acc'[k] = 0
      /\ \A j \in Keys : j # k => acc'[j] = acc[j]
  BY <1>2
<1>. QED
  BY <1>1, <1>3, WriteStep

LEMMA PatchIInv ==
  ASSUME IInv, NEW c \in Clients, NEW k \in Keys, Patch(c, k)
  PROVE  IInv'
<1> DEFINE w == log[Version(k, Now)]
<1>1. w \in Writes /\ w.cnt = acc[k]
  BY LiveObject DEF Patch
<1>2. Write(k, TRUE, ~w.label, w.cnt) /\ UNCHANGED <<informer, cache, pos, obj, acc>>
  BY DEF Patch, reflectorVars, clientVars
<1>3. acc' \in [Keys -> Nat]
  BY <1>2 DEF IInv, TypeInv
<1>4. (~w.label) \in BOOLEAN /\ w.cnt \in Nat
  BY <1>1 DEF Writes
<1> HIDE DEF w
<1>. QED
  BY <1>1, <1>2, <1>3, <1>4, WriteStep

LEMMA RemoveIInv == ASSUME IInv, NEW k \in Keys, Remove(k) PROVE IInv'
<1>1. Write(k, FALSE, FALSE, 0) /\ UNCHANGED <<informer, cache, pos, obj, acc>>
  BY DEF Remove, reflectorVars
<1>2. acc' \in [Keys -> Nat]
  BY <1>1 DEF IInv, TypeInv
<1>. QED
  BY <1>1, <1>2, WriteStep

(* What becomes of an object in hand: it is stored, or changed.            *)
LEMMA ObjectStored ==
  ASSUME NEW o \in Objects, NEW v \in Nat,
         NEW p, p = [o EXCEPT !.ver = v, !.dirty = FALSE]
  PROVE  p \in Objects /\ p.ver = v /\ p.dirty = FALSE /\ p.cnt = o.cnt
<1>1. p \in Objects
  BY DEF Objects
<1>2. p.ver = v
  BY DEF Objects
<1>3. p.dirty = FALSE
  BY DEF Objects
<1>4. p.cnt = o.cnt
  BY DEF Objects
<1>. QED
  BY <1>1, <1>2, <1>3, <1>4

LEMMA ObjectChanged ==
  ASSUME NEW o \in Objects, NEW p, p = [DeepCopy(o) EXCEPT !.cnt = @ + 1, !.dirty = TRUE]
  PROVE  /\ p \in Objects /\ p.ver = o.ver /\ p.dirty = TRUE /\ p.cnt = o.cnt + 1
         /\ DeepCopy(o).shared = FALSE
<1> DEFINE d == DeepCopy(o)
<1>1. d \in Objects
  BY DEF Objects, DeepCopy
<1>2. d.ver = o.ver
  BY DEF Objects, DeepCopy
<1>3. d.cnt = o.cnt
  BY DEF Objects, DeepCopy
<1>4. d.shared = FALSE
  BY DEF Objects, DeepCopy
<1> HIDE DEF d
<1>5. PICK n \in Nat : n = d.cnt + 1 /\ p = [d EXCEPT !.cnt = n, !.dirty = TRUE]
  <2>1. d.cnt + 1 \in Nat
    BY <1>1 DEF Objects
  <2>2. p = [d EXCEPT !.cnt = d.cnt + 1, !.dirty = TRUE]
    BY <1>1 DEF d, Objects
  <2>. QED
    BY <2>1, <2>2
<1>6. p \in Objects
  BY <1>1, <1>5 DEF Objects
<1>7. p.ver = d.ver
  BY <1>1, <1>5 DEF Objects
<1>8. p.cnt = d.cnt + 1
  BY <1>1, <1>5 DEF Objects
<1>9. p.dirty = TRUE
  BY <1>1, <1>5 DEF Objects
<1>10. DeepCopy(o).shared = FALSE
  BY <1>4 DEF d
<1>. QED
  BY <1>2, <1>3, <1>6, <1>7, <1>8, <1>9, <1>10

(* An accepted update was made from the last version, so that it counts    *)
(* one change more than the server has accepted.                           *)
LEMMA UpdateOKIInv == ASSUME IInv, NEW c \in Clients, UpdateOK(c) PROVE IInv'
<1> DEFINE o == obj[c]
           e == [key |-> o.key, live |-> TRUE, label |-> o.label, cnt |-> o.cnt]
<1>1. /\ o \in Objects /\ o # None /\ o.dirty /\ Live(o.key) /\ o.ver = Version(o.key, Now)
      /\ Write(o.key, TRUE, o.label, o.cnt) /\ acc' = [acc EXCEPT ![o.key] = @ + 1]
      /\ UNCHANGED <<informer, cache, pos>>
  BY DEF IInv, TypeInv, UpdateOK, SentVersion, reflectorVars
<1>2. obj' = obj \/ obj' = [obj EXCEPT ![c] = [o EXCEPT !.ver = Now + 1, !.dirty = FALSE]]
  BY DEF UpdateOK, IInv, TypeInv
<1>3. o.key \in Keys /\ o.label \in BOOLEAN /\ o.cnt \in Nat
  BY <1>1 DEF Objects
<1>4. e \in Writes /\ log' = Append(log, e) /\ e.key = o.key /\ e.cnt = o.cnt
  BY <1>1, <1>3 DEF Writes, Write
<1>5. o.cnt = acc[o.key] + 1
  <2>1. log[Version(o.key, Now)].cnt = acc[o.key]
    BY <1>1, <1>3, LiveObject
  <2>. QED
    BY <1>1, <2>1 DEF IInv, HandInv
<1>6. /\ acc' \in [Keys -> Nat] /\ acc'[o.key] = acc[o.key] + 1
      /\ \A k \in Keys : k # o.key => acc'[k] = acc[k]
  BY <1>1, <1>3 DEF IInv, TypeInv
<1> HIDE DEF o, e
<1>7. CASE obj' = obj
  <2>1. o.cnt = acc'[o.key] /\ UNCHANGED <<informer, cache, pos, obj>>
    BY <1>1, <1>5, <1>6, <1>7
  <2>2. acc' \in [Keys -> Nat] /\ \A k \in Keys : k # o.key => acc'[k] = acc[k]
    BY <1>6
  <2>3. Write(o.key, TRUE, o.label, o.cnt)
    BY <1>1
  <2>. QED
    BY <1>3, <2>1, <2>2, <2>3, WriteStep
<1>8. CASE obj' = [obj EXCEPT ![c] = [o EXCEPT !.ver = Now + 1, !.dirty = FALSE]]
  <2>1. /\ log' \in Seq(Writes) /\ Now \in Nat /\ Now' = Now + 1 /\ log'[Now + 1] = e
        /\ \A i \in 1..Now : log'[i] = log[i]
    BY <1>4, WriteEffect DEF IInv
  <2> DEFINE p == [o EXCEPT !.ver = Now + 1, !.dirty = FALSE]
  <2>2. p \in Objects /\ p.ver = Now + 1 /\ p.dirty = FALSE /\ p.cnt = o.cnt
    <3>1. Now + 1 \in Nat
      BY <2>1
    <3>. QED
      BY <1>1, <3>1, ObjectStored
  <2>3. obj'[c] = p /\ \A d \in Clients : d # c => obj'[d] = obj[d]
    BY <1>8 DEF IInv, TypeInv
  <2>4. obj' \in [Clients -> Objects \cup {None}]
    BY <1>8, <2>2 DEF IInv, TypeInv
  <2> HIDE DEF p
  <2>5. TypeInv'
    BY <1>1, <1>6, <2>1, <2>4 DEF IInv, TypeInv
  <2>6. CacheIsSnapshot'
    BY <1>1, <1>4, WriteKeepsSnapshot DEF IInv
  <2>7. NoLostUpdate'
    BY <1>4, <1>5, <1>6, WriteKeepsCount DEF IInv
  <2>8. HandInv'
    <3>1. \A i \in 1..Now : i \in 1..(Now + 1)
      BY <2>1
    <3>2. ASSUME NEW d \in Clients, obj'[d] # None
          PROVE  /\ obj'[d].ver \in 1..(Now + 1)
                 /\ ~obj'[d].dirty => obj'[d].cnt = log'[obj'[d].ver].cnt
                 /\ obj'[d].dirty  => obj'[d].cnt = log'[obj'[d].ver].cnt + 1
      <4>1. CASE d = c
        <5>1. Now + 1 \in 1..(Now + 1)
          BY <2>1
        <5>. QED
          BY <1>4, <2>1, <2>2, <2>3, <4>1, <5>1
      <4>2. CASE d # c
        BY <2>1, <2>3, <3>1, <3>2, <4>2 DEF IInv, HandInv
      <4>. QED
        BY <4>1, <4>2
    <3>. QED
      BY <2>1, <3>2 DEF HandInv
  <2>. QED
    BY <2>5, <2>6, <2>7, <2>8 DEF IInv
<1>. QED
  BY <1>2, <1>7, <1>8

(* Steps that write nothing.                                               *)
LEMMA SameLog ==
  ASSUME UNCHANGED log
  PROVE  /\ Now' = Now
         /\ NoLostUpdate /\ UNCHANGED acc => NoLostUpdate'
         /\ CacheIsSnapshot /\ UNCHANGED <<informer, cache, pos>> => CacheIsSnapshot'
         /\ HandInv /\ UNCHANGED obj => HandInv'
<1>1. Now' = Now
  BY DEF Now
<1>2. NoLostUpdate /\ UNCHANGED acc => NoLostUpdate'
  BY <1>1 DEF NoLostUpdate, Live, Version
<1>3. CacheIsSnapshot /\ UNCHANGED <<informer, cache, pos>> => CacheIsSnapshot'
  BY DEF CacheIsSnapshot, ListFunc, List, Version, Decode
<1>4. HandInv /\ UNCHANGED obj => HandInv'
  BY <1>1 DEF HandInv
<1>. QED
  BY <1>1, <1>2, <1>3, <1>4

(* A client has got or made another object.                                *)
LEMMA HandStep ==
  ASSUME IInv, UNCHANGED <<log, acc, informer, cache, pos>>, NEW c \in Clients, NEW o,
         obj' = [obj EXCEPT ![c] = o],
         o = None \/ /\ o \in Objects
                     /\ o.ver \in 1..Now
                     /\ ~o.dirty => o.cnt = log[o.ver].cnt
                     /\ o.dirty  => o.cnt = log[o.ver].cnt + 1
  PROVE  IInv'
<1>1. Now' = Now /\ NoLostUpdate' /\ CacheIsSnapshot'
  BY SameLog DEF IInv
<1>2. TypeInv'
  BY <1>1 DEF IInv, TypeInv
<1>3. obj'[c] = o /\ \A d \in Clients : d # c => obj'[d] = obj[d]
  BY DEF IInv, TypeInv
<1>4. HandInv'
  BY <1>1, <1>3 DEF IInv, HandInv
<1>. QED
  BY <1>1, <1>2, <1>4 DEF IInv

(* A client reads the version v of an object, from the server or from the  *)
(* cache.                                                                  *)
LEMMA TakeIInv ==
  ASSUME IInv, NEW c \in Clients, NEW k \in Keys, NEW v \in 1..Now, NEW shared \in BOOLEAN,
         Take(c, k, Decode(v), shared)
  PROVE  IInv'
<1> DEFINE o == [key |-> k, ver |-> v, label |-> log[v].label, cnt |-> log[v].cnt,
                 shared |-> shared, dirty |-> FALSE]
<1>1. log[v] \in Writes
  BY ElementOfSeq DEF IInv, TypeInv, Now
<1>2. Now \in Nat
  BY LenProperties DEF IInv, TypeInv, Now
<1>3. o \in Objects /\ o.ver = v /\ o.dirty = FALSE /\ o.cnt = log[v].cnt
  BY <1>1, <1>2 DEF Objects, Writes
<1>4. obj' = [obj EXCEPT ![c] = o] /\ UNCHANGED <<log, acc, informer, cache, pos>>
  BY DEF Take, Decode, apiVars, reflectorVars
<1> HIDE DEF o
<1>. QED
  BY <1>3, <1>4, HandStep

(* What is in the cache is some version of the object.                     *)
LEMMA CachedObject ==
  ASSUME IInv, NEW k \in Keys, cache[k] # Nil
  PROVE  \E v \in 1..Now : cache[k] = Decode(v)
<1>1. pos \in 0..Now /\ Now \in Nat
  BY LenProperties DEF IInv, TypeInv, Now
<1> DEFINE v == LastOf(log, k, pos)
<1>2. v \in 0..pos
  BY <1>1, LastOfProperties
<1>3. v # 0 /\ cache[k] = Decode(v)
  BY SnapshotAt DEF IInv, CacheIsSnapshot
<1> HIDE DEF v
<1>4. v \in 1..Now
  BY <1>1, <1>2, <1>3
<1>. QED
  BY <1>3, <1>4

LEMMA ReadIInv ==
  ASSUME IInv, NEW c \in Clients,
         ListerPick(c) \/ \E k \in Keys : Get(c, k) \/ ListerGet(c, k)
  PROVE  IInv'
<1>1. ASSUME NEW k \in Keys, Get(c, k) PROVE IInv'
  <2>1. Live(k) /\ Take(c, k, Decode(Version(k, Now)), FALSE)
    BY <1>1 DEF Get
  <2>2. Version(k, Now) \in 1..Now
    BY <2>1, LiveObject
  <2>. QED
    BY <2>1, <2>2, TakeIInv
<1>2. ASSUME NEW k \in Keys, cache[k] # Nil, Take(c, k, cache[k], TRUE) PROVE IInv'
  <2>1. PICK v \in 1..Now : cache[k] = Decode(v)
    BY <1>2, CachedObject
  <2>2. Take(c, k, Decode(v), TRUE)
    BY <1>2, <2>1
  <2>. QED
    BY <2>2, TakeIInv
<1>3. ListerPick(c) => \E k \in Keys : cache[k] # Nil /\ Take(c, k, cache[k], TRUE)
  BY DEF ListerPick, ListerList
<1>. QED
  BY <1>1, <1>2, <1>3 DEF ListerGet

(* A client changes a copy, and the cache not.                             *)
LEMMA ModifyIInv == ASSUME IInv, NEW c \in Clients, Modify(c) PROVE IInv'
<1> DEFINE o == obj[c]
           p == [DeepCopy(o) EXCEPT !.cnt = @ + 1, !.dirty = TRUE]
<1>1. /\ o # None /\ ~o.dirty /\ o \in Objects
      /\ o.ver \in 1..Now /\ o.cnt = log[o.ver].cnt
  BY DEF Modify, IInv, TypeInv, HandInv
<1>2. /\ p \in Objects /\ p.ver = o.ver /\ p.dirty = TRUE /\ p.cnt = o.cnt + 1
      /\ DeepCopy(o).shared = FALSE
  BY <1>1, ObjectChanged
<1>3. obj' = [obj EXCEPT ![c] = p] /\ UNCHANGED <<log, acc, informer, pos>>
  BY DEF Modify, apiVars
<1>4. cache' = cache
  BY <1>2 DEF Modify
<1> HIDE DEF o, p
<1>. QED
  BY <1>1, <1>2, <1>3, <1>4, HandStep

LEMMA UpdateErrorIInv == ASSUME IInv, NEW c \in Clients, UpdateError(c) PROVE IInv'
<1>1. obj' = [obj EXCEPT ![c] = None] /\ UNCHANGED <<log, acc, informer, cache, pos>>
  BY DEF UpdateError, apiVars, reflectorVars
<1>. QED
  BY <1>1, HandStep

(* The reflector: a list gives the snapshot of its version, and an event   *)
(* that of the next.                                                       *)
LEMMA ReflectorIInv == ASSUME IInv, Reflector PROVE IInv'
<1>1. UNCHANGED <<log, acc, informer, obj>>
  BY DEF Reflector, ReflectorList, ReflectorWatch, ReflectorEvent, ReflectorBreak, apiVars, clientVars
<1>2. Now' = Now /\ NoLostUpdate' /\ HandInv' /\ Now \in Nat /\ pos \in 0..Now
  BY <1>1, SameLog, LenProperties DEF IInv, TypeInv, Now
<1>3. pos' \in 0..Now => TypeInv'
  BY <1>1, <1>2 DEF IInv, TypeInv
<1>4. ASSUME NEW n PROVE ListFunc(n)' = ListFunc(n)
  BY <1>1 DEF ListFunc, List, Version, Decode
<1>5. CASE ReflectorList
  <2>1. PICK n \in pos..Now : cache' = ListFunc(n) /\ pos' = n
    BY <1>5 DEF ReflectorList, ListFrom
  <2>2. pos' \in 0..Now
    BY <1>2, <2>1
  <2>3. CacheIsSnapshot'
    BY <1>4, <2>1 DEF CacheIsSnapshot
  <2>. QED
    BY <1>2, <1>3, <2>2, <2>3 DEF IInv
<1>6. CASE ReflectorWatch \/ ReflectorBreak
  <2>1. UNCHANGED <<cache, pos>>
    BY <1>6 DEF ReflectorWatch, ReflectorBreak
  <2>2. CacheIsSnapshot'
    BY <1>1, <2>1, SameLog DEF IInv
  <2>. QED
    BY <1>2, <1>3, <2>1, <2>2 DEF IInv
<1>7. CASE ReflectorEvent
  <2> DEFINE e == log[pos + 1]
  <2>1. /\ pos < Now /\ pos' = pos + 1
        /\ cache' = [cache EXCEPT ![e.key] = IF WatchFunc(e) THEN Decode(pos + 1) ELSE Nil]
    BY <1>7 DEF ReflectorEvent
  <2>2. pos \in Nat /\ pos + 1 \in 1..Now /\ pos' \in 0..Now
    BY <1>2, <2>1
  <2>3. e \in Writes /\ e.key \in Keys
    <3>1. log \in Seq(Writes) /\ pos + 1 \in 1..Len(log)
      BY <2>2 DEF IInv, TypeInv, Now
    <3>2. e \in Writes
      BY <3>1, ElementOfSeq
    <3>. QED
      BY <3>2 DEF Writes
  <2>4. cache = ListFunc(pos)
    BY DEF IInv, CacheIsSnapshot
  <2>5. ASSUME NEW k \in Keys PROVE cache'[k] = ListFunc(pos + 1)[k]
    <3>1. LastOf(log, k, pos + 1) = IF e.key = k THEN pos + 1 ELSE LastOf(log, k, pos)
      BY <2>2, LastOfStep
    <3>2. DOMAIN cache = Keys
      BY <2>4 DEF ListFunc, List
    <3>3. CASE e.key = k
      <4>1. cache'[k] = IF WatchFunc(e) THEN Decode(pos + 1) ELSE Nil
        BY <2>1, <3>2, <3>3
      <4>2. LastOf(log, k, pos + 1) = pos + 1 /\ pos + 1 # 0
        BY <2>2, <3>1, <3>3
      <4>. QED
        BY <4>1, <4>2, SnapshotAt DEF WatchFunc, Watch
    <3>4. CASE e.key # k
      <4>1. cache'[k] = ListFunc(pos)[k]
        BY <2>1, <2>4, <3>2, <3>4
      <4>2. LastOf(log, k, pos + 1) = LastOf(log, k, pos)
        BY <3>1, <3>4
      <4>. QED
        BY <4>1, <4>2, SnapshotAt
    <3>. QED
      BY <3>3, <3>4
  <2>6. cache' = ListFunc(pos + 1)
    <3>1. cache' = [k \in Keys |-> cache'[k]] /\ ListFunc(pos + 1) = [k \in Keys |-> ListFunc(pos + 1)[k]]
      BY <2>1, <2>4 DEF ListFunc, List
    <3>. QED
      BY <2>5, <3>1
  <2>7. CacheIsSnapshot'
    BY <1>4, <2>1, <2>6 DEF CacheIsSnapshot
  <2>. QED
    BY <1>2, <1>3, <2>2, <2>7 DEF IInv
<1>. QED
  BY <1>5, <1>6, <1>7 DEF Reflector

LEMMA NextIInv == IInv /\ [Next]_vars => IInv'
<1> SUFFICES ASSUME IInv, [Next]_vars PROVE IInv'
  OBVIOUS
<1>1. ASSUME UNCHANGED <<log, acc, informer, cache, pos, obj>> PROVE IInv'
  <2>1. Now' = Now /\ NoLostUpdate' /\ CacheIsSnapshot' /\ HandInv'
    BY <1>1, SameLog DEF IInv
  <2>2. TypeInv'
    BY <1>1, <2>1 DEF IInv, TypeInv
  <2>. QED
    BY <2>1, <2>2 DEF IInv
<1>2. ASSUME NEW c \in Clients, ClientStep(c) PROVE IInv'
  <2>1. CASE ListerPick(c) \/ \E k \in Keys : Get(c, k) \/ ListerGet(c, k)
    BY <2>1, ReadIInv
  <2>2. CASE Modify(c) \/ UpdateOK(c) \/ UpdateError(c)
    BY <2>2, ModifyIInv, UpdateOKIInv, UpdateErrorIInv
  <2>3. ASSUME NEW k \in Keys, Patch(c, k) \/ \E label \in BOOLEAN : Create(c, k, label)
        PROVE  IInv'
    BY <2>3, PatchIInv, CreateIInv
  <2>4. ASSUME NEW k \in Keys, Delete(c, k) \/ DeleteNext(c, k) PROVE IInv'
    <3>1. CASE Remove(k)
      BY <3>1, RemoveIInv
    <3>2. CASE UNCHANGED <<apiVars, informer, reflectorVars, obj>>
      BY <1>1, <3>2 DEF apiVars, reflectorVars
    <3>. QED
      BY <2>4, <3>1, <3>2 DEF Delete, DeleteNext
  <2>5. ASSUME NEW ns \in Namespaces, NEW sel \in BOOLEAN, DeleteCollection(c, ns, sel)
        PROVE  IInv'
    BY <1>1, <2>5 DEF DeleteCollection, apiVars, reflectorVars
  <2>. QED
    BY <1>2, <2>1, <2>2, <2>3, <2>4, <2>5 DEF ClientStep
<1>3. CASE Reflector
  BY <1>3, ReflectorIInv
<1>4. ASSUME NEW k \in Keys, OtherUpdate(k) PROVE IInv'
  BY <1>4, OtherUpdateIInv
<1>5. CASE UNCHANGED vars
  BY <1>1, <1>5 DEF vars, apiVars, reflectorVars, clientVars
<1>. QED
  BY <1>2, <1>3, <1>4, <1>5 DEF Next

LEMMA Invariant == Spec => []IInv
  BY InitIInv, NextIInv, PTL DEF Spec

-----------------------------------------------------------------------------
(* The cache of the informer is at all times what the server had at one    *)
(* moment, reduced to the scope of the informer.                           *)
THEOREM CacheAlwaysSnapshot == Spec => []CacheIsSnapshot
<1>1. IInv => CacheIsSnapshot
  BY DEF IInv
<1>. QED
  BY <1>1, Invariant, PTL

(* An object has been changed as often as updates of it were accepted:     *)
(* none of them has overwritten another.                                   *)
THEOREM UpdatesNotLost == Spec => []NoLostUpdate
<1>1. IInv => NoLostUpdate
  BY DEF IInv
<1>. QED
  BY <1>1, Invariant, PTL

-----------------------------------------------------------------------------
(* The fake clientset: the informer, its reflector and its cache are those *)
(* of ClusterCache, the tracker and the channel of the watch its own.      *)
VARIABLES tracker, written, queue, gap

Fake == INSTANCE FakeClusters

Events == [key : Fake!Keys, obj : [ver : Nat, label : BOOLEAN]]

FakeTypeInv ==
  /\ tracker \in [Fake!Keys -> [ver : Nat, label : BOOLEAN]]
  /\ cache \in [Fake!Keys -> [ver : Nat, label : BOOLEAN]]
  /\ written \in Nat
  /\ queue \in Seq(Events)
  /\ conn \in {"list", "watch", "on"}

(* Events are queued only by an open watch, of keys in its namespace.      *)
QueueInv ==
  /\ conn # "on" => queue = <<>>
  /\ \A i \in 1..Len(queue) : Fake!Watch(informer, queue[i].key)

(* The last event of a key in the queue has the object of the tracker.     *)
LastEventInv ==
  \A i \in 1..Len(queue) :
    (\A j \in (i + 1)..Len(queue) : queue[j].key # queue[i].key) =>
      queue[i].obj = tracker[queue[i].key]

(* MissesOnlyTheGap, of one key and from the list on.                      *)
Expected(k) ==
  /\ Fake!Watch(informer, k) /\ k \notin gap
  /\ informer.tweakListOptions => tracker[k] = Fake!Nil \/ tracker[k].label

Shows(k) ==
  /\ ~Fake!Watch(informer, k) => cache[k] = Fake!Nil
  /\ Expected(k) => cache[k] = tracker[k]

FakeInv ==
  /\ FakeTypeInv /\ QueueInv /\ LastEventInv
  /\ conn # "list" => \A k \in Fake!Keys : ~Fake!Pending(k) => Shows(k)

LEMMA FakeInit == Fake!Init => FakeInv
<1> SUFFICES ASSUME Fake!Init PROVE FakeInv
  OBVIOUS
<1>1. FakeTypeInv
  <2>1. /\ Fake!Nil \in [ver : Nat, label : BOOLEAN]
        /\ \A l \in BOOLEAN : [ver |-> 1, label |-> l] \in [ver : Nat, label : BOOLEAN]
    BY DEF Fake!Nil
  <2>2. tracker \in [Fake!Keys -> [ver : Nat, label : BOOLEAN]]
    BY <2>1 DEF Fake!Init, Fake!NewSimpleClientset
  <2>3. cache \in [Fake!Keys -> [ver : Nat, label : BOOLEAN]]
    BY <2>1 DEF Fake!Init
  <2>4. written \in Nat /\ queue \in Seq(Events) /\ conn \in {"list", "watch", "on"}
    BY EmptySeq DEF Fake!Init
  <2>. QED
    BY <2>2, <2>3, <2>4 DEF FakeTypeInv
<1>2. QueueInv /\ LastEventInv
  BY EmptySeq DEF Fake!Init, QueueInv, LastEventInv
<1>. QED
  BY <1>1, <1>2 DEF FakeInv, Fake!Init

(* A write, before, between or after the list and the watch.               *)
LEMMA FakeWrite ==
  ASSUME FakeInv, NEW k \in Fake!Keys, NEW o \in [ver : Nat, label : BOOLEAN], Fake!Write(k, o)
  PROVE  FakeInv'
<1>1. /\ FakeTypeInv /\ QueueInv /\ LastEventInv
      /\ conn # "list" => \A j \in Fake!Keys : ~Fake!Pending(j) => Shows(j)
  BY DEF FakeInv
<1>2. /\ tracker' = [tracker EXCEPT ![k] = o] /\ written' = written + 1
      /\ UNCHANGED <<informer, conn, cache>>
  BY DEF Fake!Write
<1>3. tracker'[k] = o /\ \A j \in Fake!Keys : j # k => tracker'[j] = tracker[j]
  BY <1>1, <1>2 DEF FakeTypeInv
<1>4. /\ conn = "watch" => gap' = gap \cup {k}
      /\ conn = "on" => gap' = gap \ {k}
  BY DEF Fake!Write
<1>5. /\ tracker' \in [Fake!Keys -> [ver : Nat, label : BOOLEAN]]
      /\ cache' \in [Fake!Keys -> [ver : Nat, label : BOOLEAN]]
      /\ written' \in Nat /\ conn' \in {"list", "watch", "on"}
  BY <1>1, <1>2 DEF FakeTypeInv
<1>6. ASSUME NEW j PROVE Fake!Watch(informer, j)' = Fake!Watch(informer, j)
  BY <1>2 DEF Fake!Watch, Fake!WatchReactor
<1>7. CASE conn = "on" /\ Fake!Watch(informer, k)
  <2> DEFINE e == [key |-> k, obj |-> o]
  <2>1. queue' = Append(queue, e) /\ e \in Events /\ e.key = k /\ e.obj = o
    BY <1>7 DEF Fake!Write, Events
  <2> HIDE DEF e
  <2>2. /\ queue' \in Seq(Events) /\ Len(queue) \in Nat /\ Len(queue') = Len(queue) + 1
        /\ \A i \in 1..Len(queue) : queue'[i] = queue[i]
        /\ queue'[Len(queue) + 1] = e
    BY <1>1, <2>1, AppendProperties, LenProperties DEF FakeTypeInv
  <2>3. \A i \in 1..Len(queue) : queue[i].key \in Fake!Keys
    <3>1. \A i \in 1..Len(queue) : queue[i] \in Events
      BY <1>1, ElementOfSeq DEF FakeTypeInv
    <3>. QED
      BY <3>1 DEF Events
  <2>4. \A i \in 1..Len(queue') : i \in 1..Len(queue) \/ i = Len(queue) + 1
    BY <2>2
  <2>5. FakeTypeInv'
    BY <1>5, <2>2 DEF FakeTypeInv
  <2>6. QueueInv'
    BY <1>1, <1>2, <1>6, <1>7, <2>1, <2>2, <2>4 DEF QueueInv
  <2>7. LastEventInv'
    <3> SUFFICES ASSUME NEW i \in 1..Len(queue'),
                        \A j \in (i + 1)..Len(queue') : queue'[j].key # queue'[i].key
                 PROVE  queue'[i].obj = tracker'[queue'[i].key]
      BY DEF LastEventInv
    <3>1. CASE i = Len(queue) + 1
      BY <1>3, <2>1, <2>2, <3>1
    <3>2. CASE i \in 1..Len(queue)
      <4>1. Len(queue) + 1 \in (i + 1)..Len(queue')
        BY <2>2, <3>2
      <4>2. queue[i].key # k
        BY <2>1, <2>2, <3>2, <4>1
      <4>3. \A j \in (i + 1)..Len(queue) : j \in (i + 1)..Len(queue') /\ j \in 1..Len(queue)
        BY <2>2, <3>2
      <4>4. \A j \in (i + 1)..Len(queue) : queue[j].key # queue[i].key
        BY <2>2, <3>2, <4>3
      <4>5. queue[i].obj = tracker[queue[i].key]
        BY <1>1, <3>2, <4>4 DEF LastEventInv
      <4>. QED
        BY <1>3, <2>2, <2>3, <3>2, <4>2, <4>5
    <3>. QED
      BY <2>4, <3>1, <3>2
  <2>8. ASSUME NEW j \in Fake!Keys, ~Fake!Pending(j)' PROVE Shows(j)'
    <3>1. j # k
      <4>1. Len(queue) + 1 \in 1..Len(queue')
        BY <2>2
      <4>. QED
        BY <2>1, <2>2, <2>8, <4>1 DEF Fake!Pending
    <3>2. ~Fake!Pending(j)
      <4>1. \A i \in 1..Len(queue) : i \in 1..Len(queue')
        BY <2>2
      <4>. QED
        BY <2>2, <2>8, <4>1 DEF Fake!Pending
    <3>3. Shows(j)
      BY <1>1, <1>7, <3>2
    <3>. QED
      BY <1>2, <1>3, <1>4, <1>6, <1>7, <3>1, <3>3 DEF Shows, Expected
  <2>. QED
    BY <2>5, <2>6, <2>7, <2>8 DEF FakeInv
<1>8. CASE ~(conn = "on" /\ Fake!Watch(informer, k))
  <2>1. queue' = queue
    BY <1>8 DEF Fake!Write
  <2>2. FakeTypeInv' /\ QueueInv'
    BY <1>1, <1>2, <1>5, <1>6, <2>1 DEF FakeTypeInv, QueueInv
  <2>3. \A i \in 1..Len(queue) : queue[i].key \in Fake!Keys /\ queue[i].key # k
    <3>1. \A i \in 1..Len(queue) : queue[i] \in Events
      BY <1>1, ElementOfSeq DEF FakeTypeInv
    <3>2. conn # "on" => Len(queue) = 0
      BY <1>1, EmptySeq DEF QueueInv
    <3>3. conn # "on" => 1..Len(queue) = {}
      BY <3>2
    <3>. QED
      BY <1>1, <1>8, <3>1, <3>3 DEF QueueInv, Events
  <2>4. LastEventInv'
    BY <1>1, <1>3, <2>1, <2>3 DEF LastEventInv
  <2>5. ASSUME conn # "list", NEW j \in Fake!Keys, ~Fake!Pending(j)' PROVE Shows(j)'
    <3>1. Shows(j)
      BY <1>1, <2>1, <2>5 DEF Fake!Pending
    <3>2. conn \in {"watch", "on"}
      BY <1>1, <2>5 DEF FakeTypeInv
    <3>3. CASE j = k
      <4>1. ~Fake!Watch(informer, k) \/ k \in gap'
        BY <1>4, <1>8, <3>2
      <4>. QED
        BY <1>2, <1>6, <3>1, <3>3, <4>1 DEF Shows, Expected
    <3>4. CASE j # k
      <4>1. j \in gap' <=> j \in gap
        BY <1>4, <3>2, <3>4
      <4>. QED
        BY <1>2, <1>3, <1>6, <3>1, <3>4, <4>1 DEF Shows, Expected
    <3>. QED
      BY <3>3, <3>4
  <2>. QED
    BY <1>2, <2>2, <2>4, <2>5 DEF FakeInv
<1>. QED
  BY <1>7, <1>8

(* An event taken from the queue is the news of its key, unless another    *)
(* one of that key is still to come.                                       *)
LEMMA FakeEvent == ASSUME FakeInv, Fake!ReflectorEvent PROVE FakeInv'
<1>1. /\ FakeTypeInv /\ QueueInv /\ LastEventInv
      /\ conn # "list" => \A j \in Fake!Keys : ~Fake!Pending(j) => Shows(j)
  BY DEF FakeInv
<1> DEFINE e == Head(queue)
<1>2. /\ queue # <<>> /\ conn = "on" /\ queue' = Tail(queue)
      /\ cache' = [cache EXCEPT ![e.key] = e.obj]
      /\ UNCHANGED <<tracker, written, informer, conn, gap>>
  BY <1>1 DEF Fake!ReflectorEvent, Fake!trackerVars, QueueInv
<1>3. e \in Events /\ e = queue[1] /\ Tail(queue) \in Seq(Events)
  BY <1>1, <1>2, HeadTailProperties DEF FakeTypeInv
<1>4. /\ Len(queue) \in Nat /\ 1 \in 1..Len(queue) /\ Len(queue') = Len(queue) - 1
      /\ \A i \in 1..Len(queue') : queue'[i] = queue[i + 1]
  BY <1>1, <1>2, HeadTailProperties, LenProperties, EmptySeq DEF FakeTypeInv
<1> HIDE DEF e
<1>5. e.key \in Fake!Keys /\ e.obj \in [ver : Nat, label : BOOLEAN]
  BY <1>3 DEF Events
<1>6. cache'[e.key] = e.obj /\ \A j \in Fake!Keys : j # e.key => cache'[j] = cache[j]
  BY <1>1, <1>2, <1>5 DEF FakeTypeInv
<1>7. FakeTypeInv'
  <2>1. cache' \in [Fake!Keys -> [ver : Nat, label : BOOLEAN]]
    BY <1>1, <1>2, <1>5 DEF FakeTypeInv
  <2>. QED
    BY <1>1, <1>2, <1>3, <2>1 DEF FakeTypeInv
<1>8. ASSUME NEW j PROVE Fake!Watch(informer, j)' = Fake!Watch(informer, j)
  BY <1>2 DEF Fake!Watch, Fake!WatchReactor
<1>9. \A i \in 1..Len(queue') : i + 1 \in 1..Len(queue)
  BY <1>4
<1>10. QueueInv'
  BY <1>1, <1>2, <1>4, <1>8, <1>9 DEF QueueInv
<1>11. LastEventInv'
  <2> SUFFICES ASSUME NEW i \in 1..Len(queue'),
                      \A j \in (i + 1)..Len(queue') : queue'[j].key # queue'[i].key
               PROVE  queue'[i].obj = tracker'[queue'[i].key]
    BY DEF LastEventInv
  <2>1. ASSUME NEW j \in (i + 2)..Len(queue) PROVE queue[j].key # queue[i + 1].key
    <3>1. PICK n \in (i + 1)..Len(queue') : n \in 1..Len(queue') /\ n + 1 = j
      <4>1. j - 1 \in (i + 1)..Len(queue') /\ j - 1 \in 1..Len(queue') /\ (j - 1) + 1 = j
        BY <1>4
      <4>. QED
        BY <4>1
    <3>. QED
      BY <1>4, <3>1
  <2>2. (i + 1) + 1 = i + 2
    OBVIOUS
  <2>3. queue[i + 1].obj = tracker[queue[i + 1].key]
    BY <1>1, <1>9, <2>1, <2>2 DEF LastEventInv
  <2>. QED
    BY <1>2, <1>4, <2>3
<1>12. ASSUME NEW j \in Fake!Keys, ~Fake!Pending(j)' PROVE Shows(j)'
  <2>1. ASSUME NEW i \in 2..Len(queue) PROVE queue[i].key # j
    <3>1. PICK n \in 1..Len(queue') : n + 1 = i
      <4>1. i - 1 \in 1..Len(queue') /\ (i - 1) + 1 = i
        BY <1>4
      <4>. QED
        BY <4>1
    <3>. QED
      BY <1>4, <1>12, <3>1 DEF Fake!Pending
  <2>2. CASE j = e.key
    <3>1. \A i \in (1 + 1)..Len(queue) : queue[i].key # queue[1].key
      BY <1>3, <2>1, <2>2
    <3>2. queue[1].obj = tracker[queue[1].key]
      BY <1>1, <1>4, <3>1 DEF LastEventInv
    <3>3. Fake!Watch(informer, j)
      BY <1>1, <1>3, <1>4, <2>2 DEF QueueInv
    <3>. QED
      BY <1>2, <1>3, <1>6, <1>8, <2>2, <3>2, <3>3 DEF Shows, Expected
  <2>3. CASE j # e.key
    <3>1. \A i \in 1..Len(queue) : i = 1 \/ i \in 2..Len(queue)
      BY <1>4
    <3>2. ~Fake!Pending(j)
      BY <1>3, <2>1, <2>3, <3>1 DEF Fake!Pending
    <3>3. Shows(j)
      BY <1>1, <1>2, <3>2
    <3>. QED
      BY <1>2, <1>6, <1>8, <2>3, <3>3 DEF Shows, Expected
  <2>. QED
    BY <2>2, <2>3
<1>. QED
  BY <1>7, <1>10, <1>11, <1>12 DEF FakeInv

(* The list puts all there is into the cache; the watch begins empty.      *)
LEMMA FakeReflect == ASSUME FakeInv, Fake!ReflectorList \/ Fake!ReflectorWatch PROVE FakeInv'
<1>1. /\ FakeTypeInv /\ QueueInv /\ LastEventInv
      /\ conn # "list" => \A j \in Fake!Keys : ~Fake!Pending(j) => Shows(j)
  BY DEF FakeInv
<1>2. /\ conn # "on" /\ conn' \in {"watch", "on"}
      /\ UNCHANGED <<tracker, written, informer, queue, gap>>
  BY DEF Fake!ReflectorList, Fake!ReflectorWatch, Fake!trackerVars
<1>3. ASSUME NEW j PROVE Fake!Watch(informer, j)' = Fake!Watch(informer, j)
  BY <1>2 DEF Fake!Watch, Fake!WatchReactor
<1>4. QueueInv' /\ LastEventInv'
  BY <1>1, <1>2, <1>3 DEF QueueInv, LastEventInv
<1>5. CASE Fake!ReflectorList
  <2>1. cache' = [k \in Fake!Keys |-> IF k \in Fake!List(informer) THEN tracker[k] ELSE Fake!Nil]
    BY <1>5 DEF Fake!ReflectorList
  <2>2. Fake!Nil \in [ver : Nat, label : BOOLEAN]
    BY DEF Fake!Nil
  <2>3. cache' \in [Fake!Keys -> [ver : Nat, label : BOOLEAN]]
    BY <1>1, <2>1, <2>2 DEF FakeTypeInv
  <2>4. FakeTypeInv'
    BY <1>1, <1>2, <2>3 DEF FakeTypeInv
  <2>5. ASSUME NEW j \in Fake!Keys PROVE Shows(j)'
    <3>1. cache'[j] = IF j \in Fake!List(informer) THEN tracker[j] ELSE Fake!Nil
      BY <2>1
    <3>2. j \in Fake!List(informer) <=>
            /\ tracker[j] # Fake!Nil /\ Fake!Watch(informer, j)
            /\ informer.tweakListOptions => tracker[j].label
      BY DEF Fake!List, Fake!Watch, Fake!WatchReactor
    <3>. QED
      BY <1>2, <1>3, <3>1, <3>2 DEF Shows, Expected
  <2>. QED
    BY <1>4, <2>4, <2>5 DEF FakeInv
<1>6. CASE Fake!ReflectorWatch
  <2>1. cache' = cache /\ conn = "watch"
    BY <1>6 DEF Fake!ReflectorWatch
  <2>2. FakeTypeInv'
    BY <1>1, <1>2, <2>1 DEF FakeTypeInv
  <2>3. ASSUME NEW j \in Fake!Keys, ~Fake!Pending(j)' PROVE Shows(j)'
    <3>1. Shows(j)
      BY <1>1, <1>2, <2>1, <2>3 DEF Fake!Pending
    <3>. QED
      BY <1>2, <1>3, <2>1, <3>1 DEF Shows, Expected
  <2>. QED
    BY <1>4, <2>2, <2>3 DEF FakeInv
<1>. QED
  BY <1>5, <1>6

LEMMA FakeNext == FakeInv /\ [Fake!Next]_(Fake!vars) => FakeInv'
<1> SUFFICES ASSUME FakeInv, [Fake!Next]_(Fake!vars) PROVE FakeInv'
  OBVIOUS
<1>1. FakeTypeInv
  BY DEF FakeInv
<1>2. ASSUME NEW k \in Fake!Keys, NEW b \in BOOLEAN,
             Fake!Create(k, b) \/ Fake!Update(k, b) \/ Fake!Patch(k, b)
      PROVE  FakeInv'
  <2>1. \A l \in BOOLEAN : Fake!Object(l) \in [ver : Nat, label : BOOLEAN]
    BY <1>1 DEF Fake!Object, FakeTypeInv
  <2>2. PICK l \in BOOLEAN : Fake!Write(k, Fake!Object(l))
    <3>1. (tracker[k].label # b) \in BOOLEAN
      OBVIOUS
    <3>. QED
      BY <1>2, <3>1 DEF Fake!Create, Fake!Update, Fake!Patch
  <2>. QED
    BY <2>1, <2>2, FakeWrite
<1>3. ASSUME NEW k \in Fake!Keys, Fake!Delete(k) PROVE FakeInv'
  <2>1. Fake!Nil \in [ver : Nat, label : BOOLEAN]
    BY DEF Fake!Nil
  <2>. QED
    BY <1>3, <2>1, FakeWrite DEF Fake!Delete
<1>4. CASE UNCHANGED Fake!vars
  <2>1. UNCHANGED <<tracker, written, informer, conn, queue, cache, gap>>
    BY <1>4 DEF Fake!vars, Fake!trackerVars, Fake!informerVars
  <2>. QED
    BY <2>1 DEF FakeInv, FakeTypeInv, QueueInv, LastEventInv, Shows, Expected,
                Fake!Pending, Fake!Watch, Fake!WatchReactor
<1>. QED
  BY <1>2, <1>3, <1>4, FakeReflect, FakeEvent DEF Fake!Next, Fake!DeleteCollection

(* An informer over the fake clientset that has taken in all events shows  *)
(* what the tracker has, and nothing of another namespace; the writes that *)
(* fell between its list and its watch are all it can miss.                *)
THEOREM FakeMissesOnlyTheGap == Fake!Spec => []Fake!MissesOnlyTheGap
<1>1. FakeInv => Fake!MissesOnlyTheGap
  BY DEF FakeInv, Shows, Expected, Fake!MissesOnlyTheGap, Fake!Watch, Fake!WatchReactor
<1>. QED
  BY <1>1, FakeInit, FakeNext, PTL DEF Fake!Spec
=============================================================================
