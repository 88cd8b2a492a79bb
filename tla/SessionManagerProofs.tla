------------------------ MODULE SessionManagerProofs ------------------------
(***************************************************************************)
(* Proofs about SessionManager, for any number of clusters, sessions and   *)
(* goroutines and any backlog: its invariants, its action properties, and  *)
(* that it implements SessionPool.                                         *)
(***************************************************************************)
EXTENDS SessionManager, SequenceTheorems, TLAPS

-----------------------------------------------------------------------------
(* Lemmas about the lists.                                                 *)

(* Cut(list, i), the append(ss[:idx], ss[idx+1:]...) of DialCluster, is    *)
(* the list without its i-th element, the rest in order.                   *)
LEMMA CutProperties ==
  ASSUME NEW S, NEW list \in Seq(S), NEW i \in 1..Len(list)
  PROVE  /\ Cut(list, i) \in Seq(S)
         /\ Len(Cut(list, i)) = Len(list) - 1
         /\ \A j \in 1..(Len(list) - 1) :
              Cut(list, i)[j] = IF j < i THEN list[j] ELSE list[j + 1]
<1> DEFINE pre == SubSeq(list, 1, i - 1)
           suf == SubSeq(list, i + 1, Len(list))
<1>1. Len(list) \in Nat /\ \A j \in 1..Len(list) : list[j] \in S
  BY LenProperties
<1>2. /\ pre \in Seq(S) /\ Len(pre) = i - 1
      /\ \A j \in 1..(i - 1) : pre[j] = list[j]
  BY <1>1, SubSeqProperties
<1>3. /\ suf \in Seq(S) /\ Len(suf) = Len(list) - i
      /\ \A j \in 1..(Len(list) - i) : suf[j] = list[i + j]
  <2>1. \A j \in i + 1 .. Len(list) : list[j] \in S
    BY <1>1
  <2>2. /\ suf \in Seq(S)
        /\ Len(suf) = IF i + 1 <= Len(list) THEN Len(list) - (i + 1) + 1 ELSE 0
        /\ \A j \in 1..(Len(list) - (i + 1) + 1) : suf[j] = list[(i + 1) + j - 1]
    BY <1>1, <2>1, SubSeqProperties
  <2>. QED
    BY <1>1, <2>2
<1>4. Cut(list, i) = pre \o suf
  BY DEF Cut, RemoveAt
<1>5. /\ pre \o suf \in Seq(S)
      /\ Len(pre \o suf) = Len(pre) + Len(suf)
      /\ \A j \in 1..(Len(pre) + Len(suf)) :
           (pre \o suf)[j] = IF j <= Len(pre) THEN pre[j] ELSE suf[j - Len(pre)]
  BY <1>2, <1>3, ConcatProperties
<1> HIDE DEF pre, suf
<1>6. \A j \in 1..(Len(list) - 1) :
        (pre \o suf)[j] = IF j < i THEN list[j] ELSE list[j + 1]
  <2> DEFINE both == pre \o suf
  <2>1. SUFFICES ASSUME NEW j \in 1..(Len(list) - 1)
                 PROVE  both[j] = IF j < i THEN list[j] ELSE list[j + 1]
    OBVIOUS
  <2>2. both[j] = IF j <= i - 1 THEN pre[j] ELSE suf[j - (i - 1)]
    BY <1>1, <1>2, <1>3, <1>5
  <2> HIDE DEF both
  <2>3. CASE j < i
    BY <1>1, <1>2, <2>2, <2>3
  <2>4. CASE ~(j < i)
    <3>1. j - (i - 1) \in 1..(Len(list) - i) /\ i + (j - (i - 1)) = j + 1
      BY <1>1, <2>4
    <3>2. suf[j - (i - 1)] = list[j + 1]
      BY <1>3, <3>1
    <3>. QED
      BY <1>1, <2>2, <2>4, <3>2
  <2>. QED
    BY <2>3, <2>4
<1>. QED
  BY <1>1, <1>2, <1>3, <1>4, <1>5, <1>6

(* Cutting a list without repetitions takes exactly one session out.       *)
LEMMA CutSet ==
  ASSUME NEW S, NEW list \in Seq(S), NEW i \in 1..Len(list),
         \A j, k \in 1..Len(list) : list[j] = list[k] => j = k
  PROVE  ToSet(Cut(list, i)) = ToSet(list) \ {list[i]}
<1>1. /\ Len(list) \in Nat /\ DOMAIN list = 1..Len(list)
      /\ DOMAIN Cut(list, i) = 1..(Len(list) - 1)
  BY LenProperties, CutProperties
<1>2. \A j \in 1..(Len(list) - 1) :
        Cut(list, i)[j] = IF j < i THEN list[j] ELSE list[j + 1]
  BY CutProperties
<1>3. ASSUME NEW x \in ToSet(Cut(list, i))
      PROVE  x \in ToSet(list) \ {list[i]}
  <2>1. PICK j \in 1..(Len(list) - 1) : x = Cut(list, i)[j]
    BY <1>1 DEF ToSet
  <2>2. CASE j < i
    BY <1>1, <1>2, <2>1, <2>2 DEF ToSet
  <2>3. CASE ~(j < i)
    BY <1>1, <1>2, <2>1, <2>3 DEF ToSet
  <2>. QED
    BY <2>2, <2>3
<1>4. ASSUME NEW x \in ToSet(list) \ {list[i]}
      PROVE  x \in ToSet(Cut(list, i))
  <2>1. PICK j \in 1..Len(list) : x = list[j]
    BY <1>1 DEF ToSet
  <2>2. CASE j < i
    <3>1. j \in 1..(Len(list) - 1) /\ x = Cut(list, i)[j]
      BY <1>1, <1>2, <2>1, <2>2
    <3>. QED
      BY <1>1, <3>1 DEF ToSet
  <2>3. CASE j > i
    <3>1. j - 1 \in 1..(Len(list) - 1) /\ x = Cut(list, i)[j - 1]
      BY <1>1, <1>2, <2>1, <2>3
    <3>. QED
      BY <1>1, <3>1 DEF ToSet
  <2>. QED
    BY <2>1, <2>2, <2>3
<1>. QED
  BY <1>3, <1>4

(* Append adds its element and nothing else.                               *)
LEMMA AppendSet ==
  ASSUME NEW S, NEW list \in Seq(S), NEW e \in S
  PROVE  ToSet(Append(list, e)) = ToSet(list) \cup {e}
<1>1. /\ Append(list, e) \in Seq(S) /\ Len(Append(list, e)) = Len(list) + 1
      /\ \A i \in 1..Len(list) : Append(list, e)[i] = list[i]
      /\ Append(list, e)[Len(list) + 1] = e
  BY AppendProperties
<1>2. /\ Len(list) \in Nat /\ DOMAIN list = 1..Len(list)
      /\ DOMAIN Append(list, e) = 1..(Len(list) + 1)
  BY <1>1, LenProperties
<1>. QED
  BY <1>1, <1>2 DEF ToSet

(* key.String() tells the clusters apart.                                  *)
LEMMA StringInjective ==
  ASSUME NEW k1 \in Keys, NEW k2 \in Keys, String(k1) = String(k2)
  PROVE  k1 = k2
BY DEF Keys, String

-----------------------------------------------------------------------------
(* The inductive invariant: initially, and preserved by every action.      *)

(* A new manager, with empty lists and a free mutex, satisfies IInv.       *)
LEMMA InitIInv == Init => IInv
BY ConstantsAssumption, NoneIsNoKey, EmptySeq
   DEF Init, IInv, TypeOK, LockInv, LocalsInv, AddInv, FiledInv, NoOrphan, InDial

(* id of a key is an index of the map.                                     *)
LEMMA StringInIds == ASSUME NEW k \in Keys PROVE String(k) \in Ids
BY DEF Ids

(* A goroutine that asks for a new session to be filed preserves IInv: the *)
(* session is fresh, so nobody else has it.                                *)
LEMMA AddClusterSessionStep ==
  ASSUME IInv, NEW t \in Threads, NEW k \in Keys, NEW s \in Sessions, AddClusterSession(t, k, s)
  PROVE  IInv'
<1> USE ConstantsAssumption, NoneIsNoKey, StringInIds
        DEF IInv, InDial, mgrVars, yamuxVars, localVars, AddClusterSession
<1>1. TypeOK'
  BY EmptySeq DEF TypeOK
<1>2. LockInv'
  BY DEF TypeOK, LockInv
<1>3. LocalsInv'
  BY DEF TypeOK, LockInv, LocalsInv
<1>4. AddInv'
  BY DEF TypeOK, LockInv, AddInv, FiledInv
<1>5. FiledInv'
  BY DEF TypeOK, FiledInv
<1>6. NoOrphan'
  BY DEF TypeOK, FiledInv, NoOrphan, Listed
<1>. QED
  BY <1>1, <1>2, <1>3, <1>4, <1>5, <1>6

(* A goroutine that starts to dial preserves IInv.                         *)
LEMMA DialClusterStep ==
  ASSUME IInv, NEW t \in Threads, NEW k \in Keys, DialCluster(t, k)
  PROVE  IInv'
<1> USE ConstantsAssumption, NoneIsNoKey, StringInIds
        DEF IInv, InDial, mgrVars, yamuxVars, localVars, DialCluster
<1>1. TypeOK'
  BY EmptySeq DEF TypeOK
<1>2. LockInv'
  BY DEF TypeOK, LockInv
<1>3. LocalsInv'
  BY DEF TypeOK, LockInv, LocalsInv
<1>4. AddInv'
  BY DEF TypeOK, LockInv, AddInv, FiledInv
<1>5. FiledInv'
  BY DEF TypeOK, FiledInv
<1>6. NoOrphan'
  BY DEF TypeOK, FiledInv, NoOrphan, Listed
<1>. QED
  BY <1>1, <1>2, <1>3, <1>4, <1>5, <1>6

(* Taking the mutex preserves IInv: ss becomes the list in the map.        *)
LEMMA DialLockStep ==
  ASSUME IInv, NEW t \in Threads, DialLock(t)
  PROVE  IInv'
<1> USE ConstantsAssumption, NoneIsNoKey, StringInIds
        DEF IInv, InDial, mgrVars, yamuxVars, localVars, DialLock
<1>1. TypeOK'
  BY DEF TypeOK, LocalsInv
<1>2. LockInv'
  BY DEF TypeOK, LockInv
<1>3. LocalsInv'
  BY DEF TypeOK, LockInv, LocalsInv
<1>4. AddInv'
  BY DEF TypeOK, LockInv, AddInv, FiledInv
<1>5. FiledInv'
  BY DEF TypeOK, FiledInv
<1>6. NoOrphan'
  BY DEF TypeOK, FiledInv, NoOrphan, Listed
<1>. QED
  BY <1>1, <1>2, <1>3, <1>4, <1>5, <1>6

(* Returning the error and unlocking preserves IInv.                       *)
LEMMA NoSessionFoundStep ==
  ASSUME IInv, NEW t \in Threads, NoSessionFound(t)
  PROVE  IInv'
<1> USE ConstantsAssumption, NoneIsNoKey, StringInIds
        DEF IInv, InDial, mgrVars, yamuxVars, localVars, NoSessionFound, DialReturn
<1>1. TypeOK'
  BY EmptySeq DEF TypeOK
<1>2. LockInv'
  BY DEF TypeOK, LockInv
<1>3. LocalsInv'
  BY DEF TypeOK, LockInv, LocalsInv
<1>4. AddInv'
  BY DEF TypeOK, LockInv, AddInv, FiledInv
<1>5. FiledInv'
  BY DEF TypeOK, FiledInv
<1>6. NoOrphan'
  BY DEF TypeOK, FiledInv, NoOrphan, Listed
<1>. QED
  BY <1>1, <1>2, <1>3, <1>4, <1>5, <1>6

(* Drawing idx preserves IInv: it lies within the list.                    *)
LEMMA PickSessionStep ==
  ASSUME IInv, NEW t \in Threads, PickSession(t)
  PROVE  IInv'
<1> USE ConstantsAssumption, NoneIsNoKey, StringInIds
        DEF IInv, InDial, mgrVars, yamuxVars, localVars, PickSession
<1>1. TypeOK'
  BY EmptySeq DEF TypeOK
<1>2. LockInv'
  BY DEF TypeOK, LockInv
<1>3. LocalsInv'
  BY DEF TypeOK, LockInv, LocalsInv
<1>4. AddInv'
  BY DEF TypeOK, LockInv, AddInv, FiledInv
<1>5. FiledInv'
  BY DEF TypeOK, FiledInv
<1>6. NoOrphan'
  BY DEF TypeOK, FiledInv, NoOrphan, Listed
<1>. QED
  BY <1>1, <1>2, <1>3, <1>4, <1>5, <1>6

(* Opening a stream and unlocking preserves IInv: the backlog had room.    *)
LEMMA OpenOKStep ==
  ASSUME IInv, NEW t \in Threads, OpenOK(t)
  PROVE  IInv'
<1> USE ConstantsAssumption, NoneIsNoKey, StringInIds
        DEF IInv, InDial, mgrVars, yamuxVars, localVars, OpenOK, DialReturn, OpenReady
<1>1. TypeOK'
  <2>1. ss[t][idx[t]] \in Sessions
    BY DEF TypeOK, LocalsInv
  <2>2. syn' \in [Sessions -> 0..AcceptBacklog]
    BY <2>1 DEF TypeOK
  <2>. QED
    BY <2>1, <2>2, EmptySeq DEF TypeOK
<1>2. LockInv'
  BY DEF TypeOK, LockInv
<1>3. LocalsInv'
  BY DEF TypeOK, LockInv, LocalsInv
<1>4. AddInv'
  BY DEF TypeOK, LockInv, AddInv, FiledInv
<1>5. FiledInv'
  BY DEF TypeOK, FiledInv
<1>6. NoOrphan'
  BY DEF TypeOK, FiledInv, NoOrphan, Listed
<1>. QED
  BY <1>1, <1>2, <1>3, <1>4, <1>5, <1>6

(* A failing Open preserves IInv.                                          *)
LEMMA OpenErrorStep ==
  ASSUME IInv, NEW t \in Threads, OpenError(t)
  PROVE  IInv'
<1> USE ConstantsAssumption, NoneIsNoKey, StringInIds
        DEF IInv, InDial, mgrVars, yamuxVars, localVars, OpenError
<1>1. TypeOK'
  BY EmptySeq DEF TypeOK
<1>2. LockInv'
  BY DEF TypeOK, LockInv
<1>3. LocalsInv'
  BY DEF TypeOK, LockInv, LocalsInv
<1>4. AddInv'
  BY DEF TypeOK, LockInv, AddInv, FiledInv
<1>5. FiledInv'
  BY DEF TypeOK, FiledInv
<1>6. NoOrphan'
  BY DEF TypeOK, FiledInv, NoOrphan, Listed
<1>. QED
  BY <1>1, <1>2, <1>3, <1>4, <1>5, <1>6

(* An accept on the agent's side preserves IInv.                           *)
LEMMA AgentAcceptStep ==
  ASSUME IInv, NEW s \in Sessions, AgentAccept(s)
  PROVE  IInv'
<1> USE ConstantsAssumption, NoneIsNoKey, StringInIds
        DEF IInv, InDial, mgrVars, yamuxVars, localVars, AgentAccept
<1>1. TypeOK'
  BY EmptySeq DEF TypeOK
<1>2. LockInv'
  BY DEF TypeOK, LockInv
<1>3. LocalsInv'
  BY DEF TypeOK, LockInv, LocalsInv
<1>4. AddInv'
  BY DEF TypeOK, LockInv, AddInv, FiledInv
<1>5. FiledInv'
  BY DEF TypeOK, FiledInv
<1>6. NoOrphan'
  BY DEF TypeOK, FiledInv, NoOrphan, Listed
<1>. QED
  BY <1>1, <1>2, <1>3, <1>4, <1>5, <1>6

(* The loss of a session preserves IInv: the session stays listed, closed. *)
LEMMA SessionEndStep ==
  ASSUME IInv, NEW s \in Sessions, SessionEnd(s)
  PROVE  IInv'
<1> USE ConstantsAssumption, NoneIsNoKey, StringInIds
        DEF IInv, InDial, mgrVars, yamuxVars, localVars, SessionEnd
<1>1. TypeOK'
  BY EmptySeq DEF TypeOK
<1>2. LockInv'
  BY DEF TypeOK, LockInv
<1>3. LocalsInv'
  BY DEF TypeOK, LockInv, LocalsInv
<1>4. AddInv'
  BY DEF TypeOK, LockInv, AddInv, FiledInv
<1>5. FiledInv'
  BY DEF TypeOK, FiledInv
<1>6. NoOrphan'
  BY DEF TypeOK, FiledInv, NoOrphan, Listed
<1>. QED
  BY <1>1, <1>2, <1>3, <1>4, <1>5, <1>6

(* The mutex is free when a session is appended, so no dialling thread     *)
(* holds an older copy of the list.                                        *)
LEMMA AppendSessionStep ==
  ASSUME IInv, NEW t \in Threads, AppendSession(t)
  PROVE  IInv'
<1> USE ConstantsAssumption, NoneIsNoKey, StringInIds
        DEF IInv, InDial, mgrVars, yamuxVars, localVars, AppendSession
<1> DEFINE id == String(key[t])
           new == Append(sessionLists[id], arg[t])
<1>1. /\ key[t] \in Keys /\ arg[t] \in Sessions /\ id \in Ids
      /\ sessionLists[id] \in Seq(Sessions)
  BY DEF TypeOK, LocalsInv, AddInv
<1>2. /\ new \in Seq(Sessions) /\ Len(new) = Len(sessionLists[id]) + 1
      /\ \A i \in 1..Len(sessionLists[id]) : new[i] = sessionLists[id][i]
      /\ new[Len(sessionLists[id]) + 1] = arg[t]
      /\ Len(sessionLists[id]) \in Nat
  BY <1>1, AppendProperties, LenProperties
<1>3. ToSet(new) = ToSet(sessionLists[id]) \cup {arg[t]}
  BY <1>1, AppendSet
<1>4. /\ sessionLists' = [sessionLists EXCEPT ![id] = new]
      /\ sessionLists'[id] = new
      /\ \A d \in Ids : d # id => sessionLists'[d] = sessionLists[d]
  BY <1>1 DEF TypeOK
<1> HIDE DEF id, new
<1>5. \A d \in Ids : \A i \in 1..Len(sessionLists[d]) : sessionLists[d][i] # arg[t]
  BY DEF AddInv, FiledInv
<1>6. TypeOK'
  BY <1>1, <1>2, <1>4 DEF TypeOK
<1>7. LockInv'
  BY DEF TypeOK, LockInv
<1>8. LocalsInv'
  BY <1>4 DEF TypeOK, LockInv, LocalsInv
<1>9. AddInv'
  BY DEF TypeOK, AddInv
<1>10. FiledInv'
  <2>1. \A s \in Sessions : sess'[s] = "new" => owner'[s] = None
    BY <1>1 DEF TypeOK, AddInv, FiledInv
  <2>2. ASSUME NEW d \in Ids, NEW i \in 1..Len(sessionLists'[d])
        PROVE  /\ owner'[sessionLists'[d][i]] \in Keys
               /\ String(owner'[sessionLists'[d][i]]) = d
    <3>1. CASE d = id /\ i = Len(sessionLists[id]) + 1
      BY <1>1, <1>2, <1>4, <3>1 DEF TypeOK, id
    <3>2. CASE ~(d = id /\ i = Len(sessionLists[id]) + 1)
      <4>1. i \in 1..Len(sessionLists[d]) /\ sessionLists'[d][i] = sessionLists[d][i]
        BY <1>2, <1>4, <3>2
      <4>2. sessionLists[d][i] \in Sessions /\ sessionLists[d][i] # arg[t]
        BY <1>5, <4>1 DEF TypeOK
      <4>. QED
        BY <1>1, <4>1, <4>2 DEF TypeOK, FiledInv
    <3>. QED
      BY <3>1, <3>2
  <2>3. ASSUME NEW d \in Ids, NEW i \in 1..Len(sessionLists'[d]),
               NEW j \in 1..Len(sessionLists'[d]),
               sessionLists'[d][i] = sessionLists'[d][j]
        PROVE  i = j
    <3>1. CASE d # id
      BY <1>4, <2>3, <3>1 DEF FiledInv
    <3>2. CASE d = id
      BY <1>1, <1>2, <1>4, <1>5, <2>3, <3>2 DEF FiledInv
    <3>. QED
      BY <3>1, <3>2
  <2>. QED
    BY <2>1, <2>2, <2>3 DEF FiledInv
<1>11. NoOrphan'
  <2> SUFFICES ASSUME NEW s \in Sessions, owner'[s] # None, sess'[s] = "open"
               PROVE  s \in ToSet(sessionLists'[String(owner'[s])])
    BY DEF NoOrphan, Listed
  <2>1. CASE s = arg[t]
    BY <1>1, <1>3, <1>4, <2>1 DEF TypeOK, id
  <2>2. CASE s # arg[t]
    <3>1. owner'[s] = owner[s] /\ owner[s] \in Keys /\ s \in ToSet(sessionLists[String(owner[s])])
      BY <2>2 DEF TypeOK, NoOrphan, Listed
    <3>. QED
      BY <1>3, <1>4, <3>1
  <2>. QED
    BY <2>1, <2>2
<1>. QED
  BY <1>6, <1>7, <1>8, <1>9, <1>10, <1>11

(* DropSession removes one session, the one it closes.                     *)
LEMMA DropSessionStep ==
  ASSUME IInv, NEW t \in Threads, DropSession(t)
  PROVE  IInv'
<1> USE ConstantsAssumption, NoneIsNoKey, StringInIds
        DEF IInv, InDial, mgrVars, yamuxVars, localVars, DropSession
<1> DEFINE id == String(key[t])
           old == sessionLists[id]
           n == idx[t]
           rest == Cut(old, n)
<1>1. /\ key[t] \in Keys /\ id \in Ids /\ ss[t] = old
      /\ old \in Seq(Sessions) /\ n \in 1..Len(old) /\ Len(old) \in Nat
      /\ old[n] \in Sessions
  BY LenProperties DEF TypeOK, LocalsInv
<1>2. /\ rest \in Seq(Sessions) /\ Len(rest) = Len(old) - 1
      /\ \A j \in 1..(Len(old) - 1) : rest[j] = IF j < n THEN old[j] ELSE old[j + 1]
  BY <1>1, CutProperties
<1>3. \A i, j \in 1..Len(old) : old[i] = old[j] => i = j
  BY <1>1 DEF FiledInv
<1>4. ToSet(rest) = ToSet(old) \ {old[n]}
  BY <1>1, <1>3, CutSet
<1>5. /\ sessionLists' = [sessionLists EXCEPT ![id] = rest]
      /\ ss' = [ss EXCEPT ![t] = rest]
      /\ sess' = [sess EXCEPT ![old[n]] = "closed"]
  BY <1>1 DEF Close
<1>6. /\ sessionLists'[id] = rest
      /\ \A d \in Ids : d # id => sessionLists'[d] = sessionLists[d]
  BY <1>1, <1>5 DEF TypeOK
<1>7. mutex = t
  BY DEF LockInv
<1> HIDE DEF id, old, n, rest
<1>8. TypeOK'
  <2>1. sessionLists' \in [Ids -> Seq(Sessions)] /\ ss' \in [Threads -> Seq(Sessions)]
    BY <1>1, <1>2, <1>5 DEF TypeOK
  <2>2. /\ idx' = [idx EXCEPT ![t] = 0] /\ pc' = [pc EXCEPT ![t] = "loop"]
        /\ UNCHANGED <<mutex, syn, key, arg, ret, owner>>
    OBVIOUS
  <2>3. idx' \in [Threads -> Nat] /\ sess' = [sess EXCEPT ![old[n]] = "closed"]
    BY <1>5, <2>2 DEF TypeOK
  <2>. QED
    BY <1>1, <2>1, <2>2, <2>3 DEF TypeOK
<1>9. LockInv'
  BY DEF TypeOK, LockInv
<1>10. LocalsInv'
  <2> SUFFICES ASSUME NEW u \in Threads
               PROVE  /\ pc'[u] # "idle" => key'[u] \in Keys
                      /\ InDial(u)' => ss'[u] = sessionLists'[String(key'[u])]
                      /\ pc'[u] \in {"open", "drop"} => idx'[u] \in 1..Len(ss'[u])
    BY DEF LocalsInv
  <2>1. CASE u = t
    BY <1>1, <1>5, <1>6, <2>1 DEF TypeOK, id
  <2>2. CASE u # t
    BY <1>7, <2>2 DEF TypeOK, LockInv, LocalsInv
  <2>. QED
    BY <2>1, <2>2
<1>11. AddInv'
  BY <1>1, <1>5 DEF TypeOK, AddInv
<1>12. FiledInv'
  <2>1. \A s \in Sessions : sess'[s] = "new" => owner'[s] = None
    BY <1>1, <1>5 DEF TypeOK, FiledInv
  <2>2. ASSUME NEW d \in Ids, NEW i \in 1..Len(sessionLists'[d])
        PROVE  /\ owner'[sessionLists'[d][i]] \in Keys
               /\ String(owner'[sessionLists'[d][i]]) = d
    <3>1. PICK j \in 1..Len(sessionLists[d]) : sessionLists'[d][i] = sessionLists[d][j]
      <4>1. CASE d # id
        BY <1>6, <4>1
      <4>2. CASE d = id /\ i < n
        BY <1>1, <1>2, <1>6, <4>2 DEF old
      <4>3. CASE d = id /\ ~(i < n)
        <5>1. i + 1 \in 1..Len(old) /\ rest[i] = old[i + 1]
          BY <1>1, <1>2, <1>6, <4>3
        <5>. QED
          BY <1>6, <4>3, <5>1 DEF old
      <4>. QED
        BY <4>1, <4>2, <4>3
    <3>. QED
      BY <3>1 DEF FiledInv
  <2>3. ASSUME NEW d \in Ids, NEW i \in 1..Len(sessionLists'[d]),
               NEW j \in 1..Len(sessionLists'[d]),
               sessionLists'[d][i] = sessionLists'[d][j]
        PROVE  i = j
    <3>1. CASE d # id
      BY <1>6, <2>3, <3>1 DEF FiledInv
    <3>2. CASE d = id
      <4> DEFINE at(x) == IF x < n THEN x ELSE x + 1
      <4>1. /\ i \in 1..(Len(old) - 1) /\ j \in 1..(Len(old) - 1)
            /\ rest[i] = rest[j]
        BY <1>2, <1>6, <2>3, <3>2
      <4>2. /\ at(i) \in 1..Len(old) /\ rest[i] = old[at(i)]
            /\ at(j) \in 1..Len(old) /\ rest[j] = old[at(j)]
        BY <1>1, <1>2, <4>1
      <4>3. at(i) = at(j)
        BY <1>3, <4>1, <4>2
      <4>. QED
        BY <1>1, <4>1, <4>3
    <3>. QED
      BY <3>1, <3>2
  <2>. QED
    BY <2>1, <2>2, <2>3 DEF FiledInv
<1>13. NoOrphan'
  <2> SUFFICES ASSUME NEW s \in Sessions, owner'[s] # None, sess'[s] = "open"
               PROVE  s \in ToSet(sessionLists'[String(owner'[s])])
    BY DEF NoOrphan, Listed
  <2>1. s # old[n] /\ sess[s] = "open" /\ owner[s] \in Keys
    BY <1>1, <1>5 DEF TypeOK
  <2>2. s \in ToSet(sessionLists[String(owner[s])])
    BY <2>1 DEF NoOrphan, Listed
  <2>. QED
    BY <1>1, <1>4, <1>6, <2>1, <2>2 DEF old
<1>. QED
  BY <1>8, <1>9, <1>10, <1>11, <1>12, <1>13

(* Every step preserves IInv: one case per action.                         *)
LEMMA NextIInv == IInv /\ [Next]_vars => IInv'
<1> SUFFICES ASSUME IInv, [Next]_vars PROVE IInv'
  OBVIOUS
<1>1. CASE UNCHANGED vars
  BY <1>1 DEF vars, IInv, TypeOK, LockInv, LocalsInv, AddInv, FiledInv, NoOrphan,
              InDial, Listed
<1>2. ASSUME NEW t \in Threads, Thread(t) PROVE IInv'
  BY <1>2, AppendSessionStep, DialLockStep, NoSessionFoundStep, PickSessionStep,
     OpenOKStep, OpenErrorStep, DropSessionStep DEF Thread
<1>3. ASSUME NEW t \in Threads, NEW k \in Keys, DialCluster(t, k) PROVE IInv'
  BY <1>3, DialClusterStep
<1>4. ASSUME NEW t \in Threads, NEW k \in Keys, NEW s \in Sessions,
             AddClusterSession(t, k, s)
      PROVE  IInv'
  BY <1>4, AddClusterSessionStep
<1>5. ASSUME NEW s \in Sessions, AgentAccept(s) \/ SessionEnd(s) PROVE IInv'
  BY <1>5, AgentAcceptStep, SessionEndStep
<1>. QED
  BY <1>1, <1>2, <1>3, <1>4, <1>5 DEF Next

-----------------------------------------------------------------------------
(* Theorems                                                                *)

(* IInv holds in every reachable state.                                    *)
LEMMA Inductive == Spec => []IInv
BY InitIInv, NextIInv, PTL DEF Spec

(* Type correctness of the manager's map, mutex and threads.               *)
THEOREM TypeCorrect == Spec => []TypeOK
<1>1. IInv => TypeOK
  BY DEF IInv
<1>. QED
  BY <1>1, Inductive, PTL

(* No session that AddClusterSession filed and that is still open is ever  *)
(* missing from its cluster's list.                                        *)
THEOREM NoSessionOrphaned == Spec => []NoOrphan
<1>1. IInv => NoOrphan
  BY DEF IInv
<1>. QED
  BY <1>1, Inductive, PTL

(* No session is listed twice, in one list or in two.                      *)
THEOREM SessionsListedOnce == Spec => []ListedOnce
<1>1. IInv => ListedOnce
  <2> SUFFICES ASSUME IInv, NEW id1 \in Ids, NEW id2 \in Ids,
                      NEW i \in DOMAIN sessionLists[id1],
                      NEW j \in DOMAIN sessionLists[id2],
                      sessionLists[id1][i] = sessionLists[id2][j]
               PROVE  id1 = id2 /\ i = j
    BY DEF ListedOnce
  <2>1. i \in 1..Len(sessionLists[id1]) /\ j \in 1..Len(sessionLists[id2])
    BY LenProperties DEF IInv, TypeOK
  <2>2. id1 = id2
    BY <2>1 DEF IInv, FiledInv
  <2>. QED
    BY <2>1, <2>2 DEF IInv, FiledInv
<1>. QED
  BY <1>1, Inductive, PTL

(* A dial that succeeds ends on a session of the cluster it names.         *)
THEOREM DialsReachOwnCluster == Spec => DialsOwnCluster
<1>1. IInv /\ [Next]_vars => [OwnClusterStep]_vars
  <2> SUFFICES ASSUME IInv, Next, NEW t \in Threads,
                      ret'[t] \in Sessions, ret'[t] # ret[t]
               PROVE  owner[ret'[t]] = key[t]
    BY DEF OwnClusterStep
  <2>1. OpenOK(t)
    BY ConstantsAssumption
       DEF IInv, TypeOK, Next, Thread, AddClusterSession, AppendSession, DialCluster,
           DialLock, DialReturn, NoSessionFound, PickSession, OpenOK, OpenError,
           DropSession, AgentAccept, SessionEnd, localVars
  <2>2. /\ key[t] \in Keys /\ ss[t] = sessionLists[String(key[t])]
        /\ idx[t] \in 1..Len(ss[t]) /\ ret'[t] = ss[t][idx[t]]
    BY <2>1 DEF IInv, TypeOK, LocalsInv, InDial, OpenOK, DialReturn
  <2>3. owner[ret'[t]] \in Keys /\ String(owner[ret'[t]]) = String(key[t])
    BY <2>2, StringInIds DEF IInv, FiledInv
  <2>. QED
    BY <2>2, <2>3, StringInjective
<1>. QED
  BY <1>1, Inductive, PTL DEF Spec, DialsOwnCluster

(* A dial fails only when all sessions ever filed for its cluster are      *)
(* closed.                                                                 *)
THEOREM DialFailsOnlyWhenNoneOpen == Spec => FailsOnlyWhenNoneOpen
<1>1. IInv /\ [Next]_vars => [FailStep]_vars
  <2> SUFFICES ASSUME IInv, Next, NEW t \in Threads,
                      ret'[t] = DialError, ret[t] # DialError,
                      NEW s \in Sessions, owner[s] = key[t]
               PROVE  sess[s] = "closed"
    BY DEF FailStep
  <2>1. NoSessionFound(t)
    <3>1. ASSUME NEW u \in Threads, OpenOK(u) PROVE ss[u][idx[u]] \in Sessions
      <4>1. idx[u] \in 1..Len(ss[u]) /\ ss[u] \in Seq(Sessions)
        BY <3>1 DEF IInv, TypeOK, LocalsInv, OpenOK
      <4>. QED
        BY <4>1, ElementOfSeq
    <3>2. ASSUME NEW u \in Threads, OpenOK(u) PROVE FALSE
      <4>1. ret' = [ret EXCEPT ![u] = ss[u][idx[u]]]
        BY <3>2 DEF OpenOK, DialReturn
      <4>. QED
        BY <3>1, <3>2, <4>1, ConstantsAssumption DEF IInv, TypeOK
    <3>3. ASSUME NEW u \in Threads, NoSessionFound(u) PROVE u = t
      BY <3>3 DEF IInv, TypeOK, NoSessionFound, DialReturn
    <3>4. ASSUME NEW u \in Threads, NEW k \in Keys, DialCluster(u, k) PROVE FALSE
      BY <3>4, ConstantsAssumption DEF IInv, TypeOK, DialCluster
    <3>5. \/ UNCHANGED ret
          \/ \E u \in Threads : OpenOK(u) \/ NoSessionFound(u)
          \/ \E u \in Threads, k \in Keys : DialCluster(u, k)
      BY DEF Next, Thread, AddClusterSession, AppendSession, DialLock, PickSession,
             OpenError, DropSession, AgentAccept, SessionEnd, localVars
    <3>. QED
      BY <3>2, <3>3, <3>4, <3>5
  <2>2. key[t] \in Keys /\ Len(sessionLists[String(key[t])]) = 0
    BY <2>1 DEF IInv, LocalsInv, InDial, NoSessionFound, Exhausted
  <2>3. ToSet(sessionLists[String(key[t])]) = {}
    BY <2>2, StringInIds, LenProperties DEF IInv, TypeOK, ToSet
  <2>4. owner[s] # None
    BY <2>2, NoneIsNoKey
  <2>5. sess[s] # "open"
    BY <2>3, <2>4 DEF IInv, NoOrphan, Listed
  <2>6. sess[s] # "new"
    BY <2>4 DEF IInv, FiledInv
  <2>. QED
    BY <2>5, <2>6 DEF IInv, TypeOK
<1>. QED
  BY <1>1, Inductive, PTL DEF Spec, FailsOnlyWhenNoneOpen

-----------------------------------------------------------------------------
(* The retry loop of DialCluster.                                          *)

(* What is left of the loop for thread t: three steps for each session     *)
(* that it still has, and the return.                                      *)
LoopLeft(t) ==
  CASE pc[t] = "loop" -> 3 * Len(ss[t]) + 1
    [] pc[t] = "open" -> 3 * Len(ss[t])
    [] pc[t] = "drop" -> 3 * Len(ss[t]) - 1
    [] OTHER -> 0

(* A thread in the loop has a list with a session, unless it is at the     *)
(* head of the loop.                                                       *)
LEMMA LoopTypes ==
  ASSUME IInv, NEW t \in Threads
  PROVE  /\ ss[t] \in Seq(Sessions) /\ Len(ss[t]) \in Nat
         /\ pc[t] \in {"open", "drop"} => idx[t] \in 1..Len(ss[t])
         /\ LoopLeft(t) \in Nat
         /\ LoopLeft(t) # 0 <=> InDial(t)
<1>1. ss[t] \in Seq(Sessions) /\ Len(ss[t]) \in Nat
  BY LenProperties DEF IInv, TypeOK
<1>2. pc[t] \in {"open", "drop"} => idx[t] \in 1..Len(ss[t])
  BY DEF IInv, LocalsInv
<1>3. CASE pc[t] \in {"open", "drop"}
  <2>1. Len(ss[t]) >= 1
    BY <1>1, <1>2, <1>3
  <2>. QED
    BY <1>1, <1>2, <1>3, <2>1 DEF LoopLeft, InDial
<1>4. CASE pc[t] \notin {"open", "drop"}
  BY <1>1, <1>4 DEF LoopLeft, InDial
<1>. QED
  BY <1>1, <1>2, <1>3, <1>4

LEMMA LoopStep ==
  ASSUME IInv, NEW t \in Threads, InDial(t), Thread(t)
  PROVE  LoopLeft(t)' < LoopLeft(t)
<1> DEFINE n == Len(ss[t])
<1>1. n \in Nat /\ LoopLeft(t) \in Nat /\ LoopLeft(t) # 0
  BY LoopTypes
<1>2. pc \in [Threads -> {"idle", "addLock", "dialLock", "loop", "open", "drop"}]
      /\ ss \in [Threads -> Seq(Sessions)]
  BY DEF IInv, TypeOK
<1>3. ASSUME pc'[t] = "idle" PROVE LoopLeft(t)' < LoopLeft(t)
  <2>1. LoopLeft(t)' = 0
    BY <1>3 DEF LoopLeft
  <2>. QED
    BY <1>1, <2>1
<1>4. CASE NoSessionFound(t) \/ OpenOK(t)
  <2>1. pc'[t] = "idle"
    BY <1>2, <1>4 DEF NoSessionFound, OpenOK, DialReturn
  <2>. QED
    BY <1>3, <2>1
<1>5. CASE PickSession(t)
  <2>1. pc[t] = "loop" /\ pc'[t] = "open" /\ ss'[t] = ss[t]
    BY <1>2, <1>5 DEF PickSession
  <2>. QED
    BY <1>1, <2>1 DEF LoopLeft
<1>6. CASE OpenError(t)
  <2>1. pc[t] = "open" /\ pc'[t] = "drop" /\ ss'[t] = ss[t]
    BY <1>2, <1>6 DEF OpenError, localVars
  <2>. QED
    BY <1>1, <2>1 DEF LoopLeft
<1>7. CASE DropSession(t)
  <2>1. pc[t] = "drop" /\ pc'[t] = "loop" /\ ss'[t] = Cut(ss[t], idx[t])
    BY <1>2, <1>7 DEF DropSession
  <2>2. Len(ss'[t]) = n - 1
    BY <2>1, LoopTypes, CutProperties
  <2>. QED
    BY <1>1, <2>1, <2>2 DEF LoopLeft
<1>. QED
  BY <1>4, <1>5, <1>6, <1>7 DEF Thread, InDial, AppendSession, DialLock

LEMMA LoopAlone ==
  ASSUME IInv, [Next]_vars, NEW t \in Threads, InDial(t), ~Thread(t)
  PROVE  UNCHANGED <<pc[t], ss[t], idx[t], key[t]>>
<1> USE DEF IInv, TypeOK
<1>1. ASSUME NEW u \in Threads, Thread(u) PROVE UNCHANGED <<pc[t], ss[t], idx[t], key[t]>>
  <2>1. u # t
    BY <1>1
  <2>2. UNCHANGED <<pc[t], key[t]>>
    BY <1>1, <2>1 DEF Thread, AppendSession, DialLock, NoSessionFound, PickSession, OpenOK,
                      OpenError, DropSession, DialReturn, localVars
  <2>3. UNCHANGED <<ss[t], idx[t]>>
    BY <1>1, <2>1 DEF Thread, AppendSession, DialLock, NoSessionFound, PickSession, OpenOK,
                      OpenError, DropSession, DialReturn, localVars
  <2>. QED
    BY <2>2, <2>3
<1>2. ASSUME NEW u \in Threads, NEW k \in Keys,
             DialCluster(u, k) \/ \E s \in Sessions : AddClusterSession(u, k, s)
      PROVE  UNCHANGED <<pc[t], ss[t], idx[t], key[t]>>
  <2>1. u # t
    BY <1>2 DEF InDial, DialCluster, AddClusterSession
  <2>. QED
    BY <1>2, <2>1 DEF DialCluster, AddClusterSession
<1>3. ASSUME NEW s \in Sessions, AgentAccept(s) \/ SessionEnd(s)
      PROVE  UNCHANGED <<pc[t], ss[t], idx[t], key[t]>>
  BY <1>3 DEF AgentAccept, SessionEnd, localVars
<1>4. CASE UNCHANGED vars
  BY <1>4 DEF vars
<1>. QED
  BY <1>1, <1>2, <1>3, <1>4 DEF Next

(* The loop of DialCluster ends after as many tries as there were sessions *)
(* in the list when the mutex was taken, whatever other goroutines file    *)
(* and whatever sessions end meanwhile: each step of the thread leaves     *)
(* less of the loop, and no other step adds to it or takes the thread out  *)
(* of it.  Only a thread in the loop holds the mutex (LockInv), so that no *)
(* call returns with it.                                                   *)
LoopShrinks ==
  [][\A t \in Threads : InDial(t) =>
       \/ Thread(t) /\ LoopLeft(t)' < LoopLeft(t)
       \/ UNCHANGED <<pc[t], ss[t], idx[t], key[t], LoopLeft(t)>>]_vars

LoopIsMeasured == \A t \in Threads : LoopLeft(t) \in Nat /\ (LoopLeft(t) # 0 <=> InDial(t))

THEOREM DialLoopEnds == Spec => [](LockInv /\ LoopIsMeasured) /\ LoopShrinks
<1>1. IInv => LockInv /\ LoopIsMeasured
  BY LoopTypes DEF IInv, LoopIsMeasured
<1>2. ASSUME IInv, [Next]_vars, NEW t \in Threads, InDial(t)
      PROVE  \/ Thread(t) /\ LoopLeft(t)' < LoopLeft(t)
             \/ UNCHANGED <<pc[t], ss[t], idx[t], key[t], LoopLeft(t)>>
  <2>1. CASE Thread(t)
    BY <1>2, <2>1, LoopStep
  <2>2. CASE ~Thread(t)
    BY <1>2, <2>2, LoopAlone DEF LoopLeft
  <2>. QED
    BY <2>1, <2>2
<1>3. IInv /\ [Next]_vars =>
        [\A t \in Threads : InDial(t) =>
           \/ Thread(t) /\ LoopLeft(t)' < LoopLeft(t)
           \/ UNCHANGED <<pc[t], ss[t], idx[t], key[t], LoopLeft(t)>>]_vars
  BY <1>2
<1>. QED
  BY <1>1, <1>3, Inductive, PTL DEF Spec, LoopShrinks

-----------------------------------------------------------------------------
(* Refinement: the steps that the callers of the manager can see are the   *)
(* steps of the session pool.                                              *)

(* The abstract pool of cluster k, and the abstract pending call of t.     *)
PoolOf(k) == ToSet(sessionLists[String(k)])
CallOf(t) == IF pc[t] = "idle" THEN "idle"
             ELSE IF pc[t] = "addLock" THEN "add" ELSE "dial"

(* A step inside DialCluster that the callers cannot see.                  *)
LEMMA InvisibleSteps ==
  ASSUME IInv, NEW t \in Threads,
         DialLock(t) \/ PickSession(t) \/ OpenError(t)
  PROVE  UNCHANGED Pool!vars
BY DEF IInv, TypeOK, Pool!vars, DialLock, PickSession, OpenError, mgrVars, yamuxVars,
       localVars

(* AppendSession is the atomic Add of the pool.                            *)
LEMMA PoolAdd ==
  ASSUME IInv, NEW t \in Threads, AppendSession(t)
  PROVE  Pool!Add(t)
<1>1. /\ key[t] \in Keys /\ arg[t] \in Sessions
      /\ sessionLists[String(key[t])] \in Seq(Sessions)
  BY StringInIds DEF IInv, TypeOK, LocalsInv, AddInv, AppendSession
<1>2. ASSUME NEW k \in Keys
      PROVE  PoolOf(k)' = IF k = key[t] THEN PoolOf(k) \cup {arg[t]} ELSE PoolOf(k)
  <2>1. CASE k = key[t]
    <3>1. sessionLists'[String(k)] = Append(sessionLists[String(k)], arg[t])
      BY <1>1, <2>1, StringInIds DEF IInv, TypeOK, AppendSession
    <3>. QED
      BY <1>1, <2>1, <3>1, AppendSet DEF PoolOf
  <2>2. CASE k # key[t]
    BY <1>1, <2>2, StringInIds, StringInjective DEF IInv, TypeOK, AppendSession, PoolOf
  <2>. QED
    BY <2>1, <2>2
<1>3. [k \in Keys |-> PoolOf(k)]'
        = [[k \in Keys |-> PoolOf(k)] EXCEPT ![key[t]] = @ \cup {arg[t]}]
  BY <1>1, <1>2
<1>4. [u \in Threads |-> CallOf(u)]' = [[u \in Threads |-> CallOf(u)] EXCEPT ![t] = "idle"]
  BY DEF IInv, TypeOK, AppendSession, CallOf
<1>. QED
  BY <1>3, <1>4 DEF Pool!Add, AppendSession, PoolOf, CallOf, yamuxVars, IInv, TypeOK

(* DropSession is the atomic Evict of the pool: one session is closed and  *)
(* removed together.                                                       *)
LEMMA PoolEvict ==
  ASSUME IInv, NEW t \in Threads, DropSession(t)
  PROVE  Pool!Evict(t)
<1> DEFINE old == sessionLists[String(key[t])]
           s == old[idx[t]]
<1>1. /\ key[t] \in Keys /\ ss[t] = old /\ old \in Seq(Sessions)
      /\ idx[t] \in 1..Len(old) /\ Len(old) \in Nat
      /\ \A i, j \in 1..Len(old) : old[i] = old[j] => i = j
  BY StringInIds, LenProperties
     DEF IInv, TypeOK, LocalsInv, FiledInv, InDial, DropSession
<1>2. s \in PoolOf(key[t])
  BY <1>1, LenProperties DEF PoolOf, ToSet
<1>3. ASSUME NEW k \in Keys
      PROVE  PoolOf(k)' = IF k = key[t] THEN PoolOf(k) \ {s} ELSE PoolOf(k)
  <2>1. CASE k = key[t]
    <3>1. sessionLists'[String(k)] = Cut(old, idx[t])
      BY <1>1, <2>1, StringInIds DEF IInv, TypeOK, DropSession
    <3>. QED
      BY <1>1, <2>1, <3>1, CutSet DEF PoolOf
  <2>2. CASE k # key[t]
    BY <1>1, <2>2, StringInIds, StringInjective DEF IInv, TypeOK, DropSession, PoolOf
  <2>. QED
    BY <2>1, <2>2
<1>4. [k \in Keys |-> PoolOf(k)]'
        = [[k \in Keys |-> PoolOf(k)] EXCEPT ![key[t]] = @ \ {s}]
  BY <1>1, <1>3
<1>5. CallOf(t) = "dial" /\ [u \in Threads |-> CallOf(u)]' = [u \in Threads |-> CallOf(u)]
  BY DEF IInv, TypeOK, DropSession, CallOf
<1>6. sess' = [sess EXCEPT ![s] = "closed"]
  BY <1>1 DEF DropSession, Close
<1>7. UNCHANGED <<key, arg, ret>>
  BY DEF DropSession
<1> HIDE DEF s
<1>. QED
  BY <1>1, <1>2, <1>4, <1>5, <1>6, <1>7 DEF Pool!Evict, PoolOf, CallOf

(* The two returns of DialCluster are the pool's DialFail and DialOK.      *)
LEMMA PoolReturns ==
  ASSUME IInv, NEW t \in Threads, NoSessionFound(t) \/ OpenOK(t)
  PROVE  Pool!DialFail(t) \/ Pool!DialOK(t)
<1>1. /\ key[t] \in Keys /\ ss[t] = sessionLists[String(key[t])]
      /\ ss[t] \in Seq(Sessions) /\ DOMAIN ss[t] = 1..Len(ss[t])
  BY LenProperties DEF IInv, TypeOK, LocalsInv, InDial, NoSessionFound, OpenOK
<1>2. CallOf(t) = "dial"
      /\ [u \in Threads |-> CallOf(u)]' = [[u \in Threads |-> CallOf(u)] EXCEPT ![t] = "idle"]
  BY DEF IInv, TypeOK, NoSessionFound, OpenOK, DialReturn, CallOf
<1>3. [k \in Keys |-> PoolOf(k)]' = [k \in Keys |-> PoolOf(k)]
  BY DEF NoSessionFound, OpenOK, DialReturn, PoolOf
<1>4. CASE NoSessionFound(t)
  <2>1. PoolOf(key[t]) = {}
    BY <1>1, <1>4 DEF NoSessionFound, Exhausted, PoolOf, ToSet
  <2>. QED
    BY <1>1, <1>2, <1>3, <1>4, <2>1
       DEF Pool!DialFail, Pool!Return, NoSessionFound, DialReturn, PoolOf, CallOf
<1>5. CASE OpenOK(t)
  <2>1. ss[t][idx[t]] \in PoolOf(key[t])
    BY <1>1, <1>5 DEF IInv, LocalsInv, OpenOK, PoolOf, ToSet
  <2>. QED
    BY <1>1, <1>2, <1>3, <1>5, <2>1
       DEF Pool!DialOK, Pool!Return, OpenOK, DialReturn, PoolOf, CallOf
<1>. QED
  BY <1>4, <1>5

(* A call that begins is the call of the pool.                             *)
LEMMA PoolCalls ==
  ASSUME IInv, NEW t \in Threads, NEW k \in Keys
  PROVE  /\ DialCluster(t, k) => Pool!CallDial(t, k)
         /\ \A s \in Sessions : AddClusterSession(t, k, s) => Pool!CallAdd(t, k, s)
<1>1. DialCluster(t, k) => Pool!CallDial(t, k)
  BY DEF IInv, TypeOK, DialCluster, Pool!CallDial, mgrVars, yamuxVars
<1>2. ASSUME NEW s \in Sessions, AddClusterSession(t, k, s) PROVE Pool!CallAdd(t, k, s)
  BY <1>2 DEF IInv, TypeOK, AddClusterSession, Pool!CallAdd, mgrVars
<1>. QED
  BY <1>1, <1>2

(* The manager implements the session pool: whatever the interleaving of   *)
(* its goroutines, their calls take effect one at a time.                  *)
THEOREM ManagerImplementsPool == Spec => ImplementsPool
<1>1. Init => Pool!Init
  BY StringInIds DEF Init, Pool!Init, ToSet
<1>2. IInv /\ [Next]_vars => [Pool!Next]_(Pool!vars)
  <2> SUFFICES ASSUME IInv, [Next]_vars PROVE [Pool!Next]_(Pool!vars)
    OBVIOUS
  <2>1. CASE UNCHANGED vars
    BY <2>1 DEF vars, Pool!vars
  <2>2. ASSUME NEW t \in Threads, Thread(t) PROVE [Pool!Next]_(Pool!vars)
    BY <2>2, InvisibleSteps, PoolAdd, PoolEvict, PoolReturns DEF Thread, Pool!Next
  <2>3. ASSUME NEW t \in Threads, NEW k \in Keys,
               DialCluster(t, k) \/ \E s \in Sessions : AddClusterSession(t, k, s)
        PROVE  Pool!Next
    BY <2>3, PoolCalls DEF Pool!Next
  <2>4. ASSUME NEW s \in Sessions, AgentAccept(s) PROVE UNCHANGED Pool!vars
    BY <2>4 DEF AgentAccept, Pool!vars, mgrVars, localVars
  <2>5. ASSUME NEW s \in Sessions, SessionEnd(s) PROVE Pool!Next
    BY <2>5 DEF SessionEnd, Pool!Next, Pool!End, mgrVars, localVars
  <2>. QED
    BY <2>1, <2>2, <2>3, <2>4, <2>5 DEF Next
<1>. QED
  BY <1>1, <1>2, Inductive, PTL DEF Spec, ImplementsPool, Pool!Spec
=============================================================================
