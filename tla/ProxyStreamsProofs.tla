------------------------- MODULE ProxyStreamsProofs -------------------------
(***************************************************************************)
(* Proofs about ProxyStreams, for any number of clusters, sessions,        *)
(* requests and connect handlers.                                          *)
(***************************************************************************)
EXTENDS ProxyStreams, TLAPS

Threads == Requests \cup Connects

(* The variables of the session manager have their types.                  *)
PoolTypeOK ==
  /\ sess \in [Sessions -> {"new", "open", "closed"}]
  /\ pool \in [Keys -> SUBSET Sessions]
  /\ call \in [Threads -> {"idle", "add", "dial"}]
  /\ key \in [Threads -> Keys \cup {None}]
  /\ arg \in [Threads -> Sessions \cup {None}]
  /\ ret \in [Threads -> Sessions \cup {None, DialError}]

(* What is filed under a key, or is about to be, was connected for it; a   *)
(* session that nobody has made yet was connected for none.                *)
OwnerInv ==
  /\ \A k \in Keys : \A s \in pool[k] : owner[s] = k
  /\ \A t \in Threads : call[t] = "add" =>
       key[t] \in Keys /\ arg[t] \in Sessions /\ owner[arg[t]] = key[t]
  /\ \A s \in Sessions : sess[s] = "new" => owner[s] = None

(* A request dials exactly while it is at its dial, and its own cluster.   *)
DialInv ==
  \A r \in Requests :
    /\ call[r] # "add"
    /\ call[r] = "dial" <=> pc[r] = "dial"
    /\ pc[r] = "dial" => key[r] = target[r]

(* A transport has idle streams only when its request is done, so a        *)
(* request never finds one: streams are opened, never taken over.          *)
StreamInv ==
  /\ \A r \in Requests : pc[r] # "idle" => target[r] \in Keys
  /\ \A r \in Requests : strm[r] # None => pc[r] \in {"sent", "done"}
  /\ \A r \in Requests : pc[r] = "sent" => strm[r] # None
  /\ \A i \in idle : pc[i[1]] = "done"

(* A request that has found its Cluster, or that would find it now, is one *)
(* during which the Cluster has existed.                                   *)
SeenInv ==
  \A r \in Requests :
    pc[r] \in {"dial", "sent"} \/ (pc[r] # "idle" /\ target[r] \in cluster) => r \in seen

IInv ==
  /\ TypeOK /\ PoolTypeOK
  /\ OwnerInv /\ DialInv /\ StreamInv /\ SeenInv
  /\ ReachesOwnCluster /\ CarriedOnlyWithCluster

(* A hub without clusters, sessions and requests satisfies IInv.           *)
LEMMA InitIInv == Init => IInv
BY StreamsAssumption
   DEF Init, Manager!Init, Threads, IInv, TypeOK, PoolTypeOK, OwnerInv, DialInv, StreamInv,
       SeenInv, ReachesOwnCluster, CarriedOnlyWithCluster

(* A request that comes preserves IInv.                                    *)
LEMMA ArriveStep ==
  ASSUME IInv, NEW r \in Requests, NEW k \in Keys, Arrive(r, k)
  PROVE  IInv'
<1> USE StreamsAssumption DEF IInv, TypeOK, Arrive, Goto, poolVars
<1>1. TypeOK' /\ PoolTypeOK'
  BY DEF PoolTypeOK
<1>2. OwnerInv'
  BY DEF OwnerInv
<1>3. DialInv'
  BY DEF DialInv
<1>4. StreamInv'
  BY DEF StreamInv
<1>5. SeenInv'
  BY DEF SeenInv
<1>6. ReachesOwnCluster' /\ CarriedOnlyWithCluster'
  BY DEF StreamInv, ReachesOwnCluster, CarriedOnlyWithCluster
<1>. QED
  BY <1>1, <1>2, <1>3, <1>4, <1>5, <1>6

(* A request whose transport is its own finds no idle stream.              *)
LEMMA NoIdleStream ==
  ASSUME IInv, NEW r \in Requests, pc[r] = "get"
  PROVE  {s \in Sessions : <<Transport(r), s>> \in idle} = {}
BY DEF IInv, StreamInv, Transport

(* The lookup of the Cluster preserves IInv: a dial that it leads to is    *)
(* one of the request's own cluster, which exists at that moment.          *)
LEMMA GetClusterStep ==
  ASSUME IInv, NEW r \in Requests, GetCluster(r)
  PROVE  IInv'
<1>1. /\ pc[r] = "get"
      /\ UNCHANGED <<cluster, target, owner, seen, strm, idle>>
      /\ \/ Goto(r, "done") /\ UNCHANGED poolVars
         \/ Found(r) /\ Manager!CallDial(r, target[r]) /\ Goto(r, "dial")
  BY NoIdleStream DEF GetCluster
<1>2. CASE Goto(r, "done") /\ UNCHANGED poolVars
  <2> USE StreamsAssumption, <1>1, <1>2 DEF IInv, TypeOK, Goto, poolVars
  <2>1. TypeOK' /\ PoolTypeOK'
    BY DEF PoolTypeOK
  <2>2. OwnerInv'
    BY DEF OwnerInv
  <2>3. DialInv'
    BY DEF DialInv
  <2>4. StreamInv'
    BY DEF StreamInv
  <2>5. SeenInv'
    BY DEF SeenInv
  <2>6. ReachesOwnCluster' /\ CarriedOnlyWithCluster'
    BY DEF ReachesOwnCluster, CarriedOnlyWithCluster
  <2>. QED
    BY <2>1, <2>2, <2>3, <2>4, <2>5, <2>6
<1>3. CASE Found(r) /\ Manager!CallDial(r, target[r]) /\ Goto(r, "dial")
  <2> USE StreamsAssumption, <1>1, <1>3 DEF IInv, TypeOK, Threads, Goto, Manager!CallDial
  <2>0. target[r] \in Keys
    BY DEF StreamInv
  <2>1. TypeOK' /\ PoolTypeOK'
    BY <2>0 DEF PoolTypeOK
  <2>2. OwnerInv'
    BY DEF PoolTypeOK, OwnerInv
  <2>3. DialInv'
    BY DEF PoolTypeOK, DialInv
  <2>4. StreamInv'
    BY DEF StreamInv
  <2>5. SeenInv'
    BY DEF SeenInv, Found
  <2>6. ReachesOwnCluster' /\ CarriedOnlyWithCluster'
    BY DEF ReachesOwnCluster, CarriedOnlyWithCluster
  <2>. QED
    BY <2>1, <2>2, <2>3, <2>4, <2>5, <2>6
<1>. QED
  BY <1>1, <1>2, <1>3

(* A dial that succeeds preserves IInv: the session was filed under the    *)
(* key of the request's cluster.                                           *)
LEMMA DialOKStep == ASSUME IInv, NEW r \in Requests, DialOK(r) PROVE IInv'
<1>1. PICK s \in pool[key[r]] : sess[s] = "open" /\ Manager!Return(r, s)
  BY DEF DialOK, Manager!DialOK
<1>2. key[r] = target[r] /\ target[r] \in Keys
  BY DEF IInv, DialInv, StreamInv, DialOK
<1>3. s \in Sessions /\ owner[s] = target[r]
  BY <1>1, <1>2 DEF IInv, PoolTypeOK, OwnerInv
<1>4. /\ pc[r] = "dial" /\ pc' = [pc EXCEPT ![r] = "sent"]
      /\ strm' = [strm EXCEPT ![r] = s]
      /\ UNCHANGED <<cluster, target, idle, owner, seen>>
  BY <1>1 DEF IInv, PoolTypeOK, Threads, DialOK, Carry, Goto, Manager!Return
<1> USE StreamsAssumption, <1>1, <1>2, <1>3, <1>4 DEF IInv, TypeOK, Threads, Manager!Return
<1>5. TypeOK' /\ PoolTypeOK'
  BY DEF PoolTypeOK
<1>6. OwnerInv'
  BY DEF PoolTypeOK, OwnerInv
<1>7. DialInv'
  BY DEF PoolTypeOK, DialInv
<1>8. StreamInv'
  BY DEF StreamInv
<1>9. SeenInv'
  BY DEF SeenInv
<1>10. ReachesOwnCluster' /\ CarriedOnlyWithCluster'
  BY DEF SeenInv, ReachesOwnCluster, CarriedOnlyWithCluster
<1>. QED
  BY <1>5, <1>6, <1>7, <1>8, <1>9, <1>10

(* A dial that fails preserves IInv.                                       *)
LEMMA DialFailStep == ASSUME IInv, NEW r \in Requests, DialFail(r) PROVE IInv'
<1> USE StreamsAssumption
        DEF IInv, TypeOK, Threads, Goto, DialFail, Manager!DialFail, Manager!Return
<1>1. TypeOK' /\ PoolTypeOK'
  BY DEF PoolTypeOK
<1>2. OwnerInv'
  BY DEF PoolTypeOK, OwnerInv
<1>3. DialInv'
  BY DEF PoolTypeOK, DialInv
<1>4. StreamInv'
  BY DEF StreamInv
<1>5. SeenInv'
  BY DEF SeenInv
<1>6. ReachesOwnCluster' /\ CarriedOnlyWithCluster'
  BY DEF ReachesOwnCluster, CarriedOnlyWithCluster
<1>. QED
  BY <1>1, <1>2, <1>3, <1>4, <1>5, <1>6

(* A step that closes a session and drops the idle streams on it, and      *)
(* leaves the requests, the clusters and the history alone, preserves the  *)
(* invariants of the requests.                                             *)
LEMMA ClosingStep ==
  ASSUME IInv, DropDead, NEW s \in Sessions,
         sess[s] # "new" \/ owner[s] # None,
         sess' = [sess EXCEPT ![s] = "closed"],
         pool' \in [Keys -> SUBSET Sessions], \A k \in Keys : pool'[k] \subseteq pool[k],
         UNCHANGED <<call, key, arg, ret, cluster, pc, target, strm, owner, seen>>
  PROVE  IInv'
<1> USE StreamsAssumption DEF IInv, TypeOK, DropDead
<1>1. TypeOK'
  <2>1. idle' \subseteq Requests \X {x \in Sessions : sess'[x] = "open"}
    OBVIOUS
  <2>. QED
    BY <2>1
<1>2. PoolTypeOK'
  BY DEF PoolTypeOK
<1>3. OwnerInv'
  BY DEF PoolTypeOK, OwnerInv
<1>4. DialInv'
  BY DEF DialInv
<1>5. StreamInv'
  BY DEF StreamInv
<1>6. SeenInv'
  BY DEF SeenInv
<1>7. ReachesOwnCluster' /\ CarriedOnlyWithCluster'
  BY DEF ReachesOwnCluster, CarriedOnlyWithCluster
<1>. QED
  BY <1>1, <1>2, <1>3, <1>4, <1>5, <1>6, <1>7

(* A session that a dial finds dead is closed and leaves the pool.         *)
LEMMA DialEvictStep == ASSUME IInv, NEW r \in Requests, DialEvict(r) PROVE IInv'
<1>1. PICK s \in pool[key[r]] :
        /\ pool' = [pool EXCEPT ![key[r]] = @ \ {s}]
        /\ sess' = [sess EXCEPT ![s] = "closed"]
  BY DEF DialEvict, Manager!Evict
<1>2. key[r] \in Keys
  BY DEF IInv, DialInv, StreamInv, DialEvict
<1>3. s \in Sessions /\ owner[s] = key[r] /\ key[r] # None
  BY <1>1, <1>2, StreamsAssumption DEF IInv, PoolTypeOK, OwnerInv
<1>4. pool' \in [Keys -> SUBSET Sessions] /\ \A k \in Keys : pool'[k] \subseteq pool[k]
  BY <1>1, <1>2 DEF IInv, PoolTypeOK
<1>. QED
  BY <1>1, <1>3, <1>4, ClosingStep DEF DialEvict, Manager!Evict

(* A session ends.                                                         *)
LEMMA SessionEndStep == ASSUME IInv, NEW s \in Sessions, SessionEnd(s) PROVE IInv'
<1>1. pool' \in [Keys -> SUBSET Sessions] /\ \A k \in Keys : pool'[k] \subseteq pool[k]
  BY DEF IInv, PoolTypeOK, SessionEnd, Manager!End
<1>. QED
  BY <1>1, ClosingStep DEF SessionEnd, Manager!End

(* A response, and the cut of a request, preserve IInv: the stream goes    *)
(* back to a transport whose request is done by then.                      *)
LEMMA EndSteps ==
  ASSUME IInv, NEW r \in Requests, Respond(r) \/ Cut(r)
  PROVE  IInv'
<1> USE StreamsAssumption DEF IInv, TypeOK, Respond, Cut, Goto, poolVars
<1>1. TypeOK'
  <2>1. strm[r] \in Sessions
    BY DEF StreamInv
  <2>. QED
    BY <2>1 DEF Transport, PoolTypeOK
<1>2. PoolTypeOK'
  BY DEF PoolTypeOK
<1>3. OwnerInv'
  BY DEF OwnerInv
<1>4. DialInv'
  BY DEF DialInv
<1>5. StreamInv'
  BY DEF StreamInv, Transport
<1>6. SeenInv'
  BY DEF SeenInv
<1>7. ReachesOwnCluster' /\ CarriedOnlyWithCluster'
  BY DEF ReachesOwnCluster, CarriedOnlyWithCluster
<1>. QED
  BY <1>1, <1>2, <1>3, <1>4, <1>5, <1>6, <1>7

(* An agent that connects preserves IInv: its session is new, so it is not *)
(* in a pool and carries no request yet.                                   *)
LEMMA ConnectStep ==
  ASSUME IInv, NEW c \in Connects, NEW k \in Keys, NEW s \in Sessions, Connect(c, k, s)
  PROVE  IInv'
<1> USE StreamsAssumption DEF IInv, TypeOK, Threads, Connect, Manager!CallAdd, reqVars
<1>1. owner[s] = None /\ \A i \in idle : i[2] # s
  BY DEF PoolTypeOK, OwnerInv
<1>2. TypeOK'
  <2>1. idle' \subseteq Requests \X {x \in Sessions : sess'[x] = "open"}
    BY <1>1 DEF PoolTypeOK
  <2>. QED
    BY <2>1
<1>3. PoolTypeOK'
  BY DEF PoolTypeOK
<1>4. OwnerInv'
  BY <1>1 DEF PoolTypeOK, OwnerInv
<1>5. DialInv'
  BY DEF PoolTypeOK, DialInv
<1>6. StreamInv'
  BY DEF StreamInv
<1>7. SeenInv'
  BY DEF SeenInv
<1>8. ReachesOwnCluster' /\ CarriedOnlyWithCluster'
  BY <1>1 DEF StreamInv, ReachesOwnCluster, CarriedOnlyWithCluster
<1>. QED
  BY <1>2, <1>3, <1>4, <1>5, <1>6, <1>7, <1>8

(* Filing the session preserves IInv.                                      *)
LEMMA AddClusterSessionStep ==
  ASSUME IInv, NEW c \in Connects, AddClusterSession(c)
  PROVE  IInv'
<1> USE StreamsAssumption
        DEF IInv, TypeOK, Threads, AddClusterSession, Manager!Add, reqVars
<1>1. key[c] \in Keys /\ arg[c] \in Sessions /\ owner[arg[c]] = key[c]
  BY DEF OwnerInv
<1>2. TypeOK' /\ PoolTypeOK'
  BY <1>1 DEF PoolTypeOK
<1>3. OwnerInv'
  BY <1>1 DEF PoolTypeOK, OwnerInv
<1>4. DialInv'
  BY DEF PoolTypeOK, DialInv
<1>5. StreamInv'
  BY DEF StreamInv
<1>6. SeenInv'
  BY DEF SeenInv
<1>7. ReachesOwnCluster' /\ CarriedOnlyWithCluster'
  BY DEF ReachesOwnCluster, CarriedOnlyWithCluster
<1>. QED
  BY <1>2, <1>3, <1>4, <1>5, <1>6, <1>7

(* Clusters that are created and deleted preserve IInv.                    *)
LEMMA ClusterSteps ==
  ASSUME IInv, NEW k \in Keys, CreateCluster(k) \/ DeleteCluster(k)
  PROVE  IInv'
<1> USE DEF IInv, TypeOK, CreateCluster, DeleteCluster, poolVars, reqVars
<1>1. TypeOK' /\ PoolTypeOK'
  BY DEF PoolTypeOK
<1>2. OwnerInv'
  BY DEF OwnerInv
<1>3. DialInv'
  BY DEF DialInv
<1>4. StreamInv'
  BY DEF StreamInv
<1>5. SeenInv'
  BY DEF SeenInv
<1>6. ReachesOwnCluster' /\ CarriedOnlyWithCluster'
  BY DEF ReachesOwnCluster, CarriedOnlyWithCluster
<1>. QED
  BY <1>1, <1>2, <1>3, <1>4, <1>5, <1>6

(* Every step preserves IInv.                                              *)
LEMMA NextIInv == IInv /\ [Next]_vars => IInv'
<1> SUFFICES ASSUME IInv, [Next]_vars PROVE IInv'
  OBVIOUS
<1>1. CASE UNCHANGED vars
  BY <1>1 DEF vars, poolVars, reqVars, IInv, TypeOK, PoolTypeOK, OwnerInv, DialInv, StreamInv,
              SeenInv, ReachesOwnCluster, CarriedOnlyWithCluster
<1>. QED
  BY <1>1, ArriveStep, GetClusterStep, DialOKStep, DialFailStep, DialEvictStep, EndSteps,
     ConnectStep, AddClusterSessionStep, SessionEndStep, ClusterSteps DEF Next

-----------------------------------------------------------------------------
(* Type correctness of requests and streams; no idle stream is on a closed *)
(* session.                                                                *)
THEOREM TypeCorrect == Spec => []TypeOK
<1>1. IInv => TypeOK
  BY DEF IInv
<1>. QED
  BY <1>1, InitIInv, NextIInv, PTL DEF Spec

(* The transport of a request has no idle stream before the round trip,    *)
(* whatever streams other requests have left idle.                         *)
StreamsNotReused ==
  \A r \in Requests : pc[r] \in {"idle", "get", "dial"} =>
    \A s \in Sessions : <<Transport(r), s>> \notin idle

(* Every request is carried by a stream that was opened for it, on a       *)
(* session of its own cluster: its transport is its own, so that the       *)
(* streams which earlier requests, also to other clusters, have left idle  *)
(* under the same address are never taken for it.                          *)
THEOREM RequestsReachOwnCluster == Spec => [](ReachesOwnCluster /\ StreamsNotReused)
<1>1. IInv => ReachesOwnCluster
  BY DEF IInv
<1>2. IInv => StreamsNotReused
  BY DEF IInv, StreamInv, StreamsNotReused, Transport
<1>3. IInv => ReachesOwnCluster /\ StreamsNotReused
  BY <1>1, <1>2
<1>. QED
  BY <1>3, InitIInv, NextIInv, PTL DEF Spec

(* A request is carried only if its Cluster existed at some time during it,*)
(* although sessions outlive their Cluster.                                *)
THEOREM RequestsCarriedOnlyWithCluster == Spec => []CarriedOnlyWithCluster
<1>1. IInv => CarriedOnlyWithCluster
  BY DEF IInv
<1>. QED
  BY <1>1, InitIInv, NextIInv, PTL DEF Spec

(* The handlers of the hub touch the session manager only through the      *)
(* calls of its interface, one at a time each: what SessionManager         *)
(* promises, it promises to them.                                          *)
THEOREM HandlersUsePool == Spec => Manager!Spec
<1>1. Init => Manager!Init
  BY DEF Init
<1>2. IInv /\ [Next]_vars => [Manager!Next]_(Manager!vars)
  <2> SUFFICES ASSUME IInv, [Next]_vars PROVE Manager!Next \/ UNCHANGED Manager!vars
    OBVIOUS
  <2> USE DEF Manager!Next, Manager!vars, poolVars
  <2>1. ASSUME NEW r \in Requests, GetCluster(r)
        PROVE  Manager!Next \/ UNCHANGED Manager!vars
    <3>1. target[r] \in Keys
      BY <2>1 DEF IInv, StreamInv, GetCluster
    <3>. QED
      BY <2>1, <3>1 DEF GetCluster
  <2>2. ASSUME NEW r \in Requests, DialOK(r) \/ DialFail(r) \/ DialEvict(r)
        PROVE  Manager!Next
    BY <2>2 DEF DialOK, DialFail, DialEvict
  <2>3. ASSUME NEW r \in Requests, (\E k \in Keys : Arrive(r, k)) \/ Respond(r) \/ Cut(r)
        PROVE  UNCHANGED Manager!vars
    BY <2>3 DEF Arrive, Respond, Cut
  <2>4. ASSUME NEW c \in Connects,
               AddClusterSession(c) \/ \E k \in Keys, s \in Sessions : Connect(c, k, s)
        PROVE  Manager!Next
    BY <2>4 DEF AddClusterSession, Connect
  <2>5. ASSUME NEW s \in Sessions, SessionEnd(s)
        PROVE  Manager!Next
    BY <2>5 DEF SessionEnd
  <2>6. ASSUME NEW k \in Keys, CreateCluster(k) \/ DeleteCluster(k)
        PROVE  UNCHANGED Manager!vars
    BY <2>6 DEF CreateCluster, DeleteCluster
  <2>7. CASE UNCHANGED vars
    BY <2>7 DEF vars
  <2>. QED
    BY <2>1, <2>2, <2>3, <2>4, <2>5, <2>6, <2>7 DEF Next
<1>. QED
  BY <1>1, <1>2, InitIInv, NextIInv, PTL DEF Spec, Manager!Spec
=============================================================================
