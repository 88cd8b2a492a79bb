--------------------------- MODULE HubProxyProofs ---------------------------
(***************************************************************************)
(* Proofs about HubProxy, for any finite set of hubs and any numbers of    *)
(* sessions, requests and faults; and at the end about the paths that the  *)
(* requests have on their way, of PeerRouting.                             *)
(***************************************************************************)
EXTENDS HubProxy, SequenceTheorems, FiniteSetTheorems, WellFoundedInduction, TLAPS

(* Where a request is: nothing has happened before it arrives; peers are   *)
(* listed once, by the front, and hop is the front before and the peer at  *)
(* idx after; there is no answer before the end.                           *)
PhaseInv(r) ==
  /\ pc[r] = "idle" =>
       /\ body[r] = "none" /\ peers[r] = <<>> /\ idx[r] = 0
       /\ execs[r] = 0 /\ late[r] = 0 /\ cuts[r] = 0 /\ own502[r] = 0
  /\ pc[r] # "idle" => front[r] \in Hubs /\ hop[r] \in Hubs
  /\ pc[r] # "done" => ans[r] = None
  /\ pc[r] = "error" => hop[r] = front[r]
  /\ pc[r] \in {"get", "dial", "sent", "executed", "error"} /\ hop[r] = front[r] =>
       peers[r] = <<>> /\ idx[r] = 0
  /\ Active(r) /\ hop[r] # front[r] =>
       idx[r] \in 1..Len(peers[r]) /\ hop[r] = peers[r][idx[r]]
  /\ idx[r] <= Len(peers[r])

(* The list of peers has no hub twice, and not the front.                  *)
ListInv(r) ==
  /\ \A i, j \in 1..Len(peers[r]) : peers[r][i] = peers[r][j] => i = j
  /\ \A i \in 1..Len(peers[r]) : peers[r][i] # front[r]

(* Dials were made on the front and on the peers up to idx only, and none  *)
(* yet on the hub that is about to dial.                                   *)
TriedInv(r) ==
  /\ \A h \in Hubs : tried[r][h] \in {0, 1}
  /\ pc[r] = "idle" => \A h \in Hubs : tried[r][h] = 0
  /\ pc[r] \in {"get", "dial"} => tried[r][hop[r]] = 0
  /\ Active(r) => \A h \in Hubs :
       tried[r][h] # 0 => h = front[r] \/ \E j \in 1..idx[r] : peers[r][j] = h

(* How many copies of a request there are at each point of its way: every  *)
(* one but the last has been cut or answered with 502 by the member; one   *)
(* with a body is sent by the front, or not at all.                        *)
CopyInv(r) ==
  /\ execs[r] + late[r] <= cuts[r] + own502[r] + 1
  /\ pc[r] \notin {"executed", "done"} => execs[r] + late[r] <= cuts[r] + own502[r]
  /\ pc[r] = "executed" => execs[r] > 0
  /\ body[r] # "none" => execs[r] + late[r] <= 1
  /\ body[r] # "none" /\ Active(r) => hop[r] = front[r]
  /\ body[r] = "fresh" /\ Active(r) => pc[r] \in {"get", "dial"}
  /\ body[r] = "spent" /\ Active(r) => pc[r] \in {"sent", "executed", "error", "next"}
  /\ body[r] # "none" /\ pc[r] \in {"get", "dial", "sent"} => execs[r] + late[r] = 0

(* AnswerTruthful, of one request.                                         *)
TruthInv(r) ==
  pc[r] = "done" =>
    /\ ans[r] = "ok" => execs[r] > 0
    /\ ans[r] \in {"404", "500", "502"} => execs[r] + late[r] <= cuts[r] + own502[r]

RequestInv(r) == PhaseInv(r) /\ ListInv(r) /\ TriedInv(r) /\ CopyInv(r) /\ TruthInv(r)

(* The invariant that does not depend on the pools.                        *)
WalkInv == TypeOK /\ \A r \in Requests : RequestInv(r)

(* A session is in one pool at most, and in none before it has connected.  *)
PoolInv ==
  /\ \A s \in Sessions : sess[s] = "new" => \A h \in Hubs : s \notin pool[h]
  /\ \A s \in Sessions, h1, h2 \in Hubs : s \in pool[h1] /\ s \in pool[h2] => h1 = h2

(* Hubs that the request has been turned away by.                          *)
Passed(r) ==
  {h \in Hubs :
     \/ h = front[r] /\ (pc[r] \in {"error", "next"} \/ AtPeer(r))
     \/ \E j \in 1..idx[r] : h = peers[r][j] /\ (j < idx[r] \/ pc[r] = "next")}

(* No round trip of r was cut, and the member never answered it with 502.  *)
Unharmed(r) == cuts[r] = 0 /\ own502[r] = 0

(* Steady sessions are usable; as long as the request is unharmed, none is *)
(* on a hub that has turned it away; and once the peers are listed, all    *)
(* are on the front or on a listed peer.                                   *)
SteadyInv(r) ==
  Active(r) =>
    /\ steady[r] \subseteq Usable
    /\ Unharmed(r) => \A h \in Passed(r) : pool[h] \cap steady[r] = {}
    /\ pc[r] = "next" \/ AtPeer(r) =>
         \A h \in Hubs : pool[h] \cap steady[r] # {} =>
           h = front[r] \/ \E j \in 1..Len(peers[r]) : peers[r][j] = h

(* NoNeedless502, of one request.                                          *)
RefusedInv(r) ==
  ans[r] = "502" /\ body[r] = "none" /\ Unharmed(r) /\ ~stopped[r] => steady[r] = {}

(* The inductive invariant.                                                *)
IInv == WalkInv /\ PoolInv /\ \A r \in Requests : SteadyInv(r) /\ RefusedInv(r)

-----------------------------------------------------------------------------
(* Lemmas about the operators.                                             *)

(* Every order in which a finite set can be listed is a sequence of its    *)
(* elements in which each of them is found exactly once.                   *)
LEMMA ListingProperties ==
  ASSUME NEW S, IsFiniteSet(S), NEW list \in SetToSeqs(S)
  PROVE  /\ list \in Seq(S)
         /\ \A i, j \in 1..Len(list) : list[i] = list[j] => i = j
         /\ \A x \in S : \E j \in 1..Len(list) : list[j] = x
<1> DEFINE n == Cardinality(S)
<1>1. n \in Nat
  BY FS_CardinalityType
<1>2. /\ list \in [1..n -> S]
      /\ \A i, j \in 1..n : i # j => list[i] # list[j]
  BY DEF SetToSeqs
<1> HIDE DEF n
<1>3. list \in Seq(S) /\ Len(list) = n
  <2>1. list \in Seq(S)
    BY <1>1, <1>2, SeqDef
  <2>2. DOMAIN list = 1..n /\ DOMAIN list = 1..Len(list) /\ Len(list) \in Nat
    BY <1>2, <2>1, LenProperties
  <2>. QED
    BY <1>1, <2>1, <2>2
<1>4. list \in Injection(1..n, S)
  BY <1>2 DEF Injection, IsInjective
<1>5. Cardinality(1..n) = n
  BY <1>1, FS_Interval
<1>6. list \in Surjection(1..n, S)
  BY <1>4, <1>5, FS_Injection DEF n
<1>. QED
  BY <1>2, <1>3, <1>6 DEF Surjection

(* A request moves on to l, with the answer a, carried by v.               *)
Moved(r, l, a, v) ==
  /\ pc'  = [pc EXCEPT ![r] = l]
  /\ ans' = [ans EXCEPT ![r] = a]
  /\ via' = [via EXCEPT ![r] = v]

(* What Goto and Finish do, in these terms.                                *)
LEMMA GotoMoves ==
  ASSUME TypeOK, NEW r \in Requests, NEW l, Goto(r, l)
  PROVE  Moved(r, l, ans[r], None)
BY DEF TypeOK, Goto, Moved

LEMMA FinishMoves ==
  ASSUME NEW r \in Requests, NEW a, Finish(r, a)
  PROVE  Moved(r, "done", a, None)
BY DEF Finish, Moved

(* An answer of a hub ends the request, unless it is the 502 of a peer,    *)
(* which makes the front go on.                                            *)
LEMMA AnswerMoves ==
  ASSUME TypeOK, NEW r \in Requests, NEW a, Answer(r, a)
  PROVE  \/ Moved(r, "done", a, None) /\ ~(AtPeer(r) /\ a = "502")
         \/ Moved(r, "next", ans[r], None) /\ AtPeer(r) /\ a = "502"
BY GotoMoves, FinishMoves DEF Answer, PassedOver

(* A failed round trip makes the front list its peers, or go on with them. *)
LEMMA RoundTripErrorMoves ==
  ASSUME TypeOK, NEW r \in Requests, RoundTripError(r)
  PROVE  \/ Moved(r, "next", ans[r], None) /\ AtPeer(r)
         \/ Moved(r, "error", ans[r], None) /\ ~AtPeer(r)
BY GotoMoves, AnswerMoves DEF RoundTripError

(* RoundTrip leaves a body spent.                                          *)
LEMMA SpendBodyType ==
  ASSUME TypeOK, NEW r \in Requests, SpendBody(r)
  PROVE  /\ body' \in [Requests -> {"none", "fresh", "spent"}]
         /\ body'[r] = IF body[r] = "none" THEN "none" ELSE "spent"
         /\ \A q \in Requests : q # r => body'[q] = body[q]
BY DEF TypeOK, SpendBody

(* Of a request that is given up at most one copy straggles.               *)
LEMMA MayStraggleType ==
  ASSUME TypeOK, NEW r \in Requests, MayStraggle(r)
  PROVE  /\ late' \in [Requests -> Nat]
         /\ late'[r] = late[r] \/ late'[r] = late[r] + 1
         /\ \A q \in Requests : q # r => late'[q] = late[q]
BY DEF TypeOK, MayStraggle

-----------------------------------------------------------------------------
(* The walk: TypeOK and RequestInv.                                        *)

(* What stays as it is at one request.                                     *)
SameWalk(q)  == front'[q] = front[q] /\ hop'[q] = hop[q] /\ peers'[q] = peers[q] /\ idx'[q] = idx[q]
SameCount(q) ==
  execs'[q] = execs[q] /\ late'[q] = late[q] /\ cuts'[q] = cuts[q] /\ own502'[q] = own502[q]
SameStage(q) == pc'[q] = pc[q] /\ ans'[q] = ans[q] /\ body'[q] = body[q] /\ tried'[q] = tried[q]

(* The types of what there is to one request.                              *)
RequestType(r) ==
  /\ pc[r] \in {"idle", "get", "dial", "sent", "executed", "error", "next", "done"}
  /\ body[r] \in {"none", "fresh", "spent"}
  /\ idx[r] \in Nat /\ Len(peers[r]) \in Nat
  /\ execs[r] \in Nat /\ late[r] \in Nat /\ cuts[r] \in Nat /\ own502[r] \in Nat
  /\ tried[r] \in [Hubs -> 0..2]

LEMMA RequestTypes == ASSUME TypeOK, NEW r \in Requests PROVE RequestType(r)
<1>1. Len(peers[r]) \in Nat
  BY LenProperties DEF TypeOK
<1>. QED
  BY <1>1 DEF TypeOK, RequestType

(* What holds of a request that nothing happens to goes on to hold.        *)
LEMMA SameKeeps ==
  ASSUME WalkInv, NEW q \in Requests, SameStage(q), SameWalk(q), SameCount(q)
  PROVE  RequestInv(q)'
<1> USE DEF WalkInv, RequestInv, SameStage, SameWalk, SameCount, Active
<1>1. PhaseInv(q)' /\ ListInv(q)'
  BY DEF PhaseInv, ListInv
<1>2. TriedInv(q)'
  BY DEF TriedInv
<1>3. CopyInv(q)' /\ TruthInv(q)'
  BY DEF CopyInv, TruthInv
<1>. QED
  BY <1>1, <1>2, <1>3

(* The initial state satisfies IInv.                                       *)
LEMMA InitIInv == Init => IInv
<1> SUFFICES ASSUME Init PROVE IInv
  OBVIOUS
<1> USE HubProxyAssumption DEF Init
<1>1. TypeOK
  BY EmptySeq DEF TypeOK
<1>2. ASSUME NEW r \in Requests PROVE RequestInv(r)
  BY EmptySeq DEF RequestInv, PhaseInv, ListInv, TriedInv, CopyInv, TruthInv, Active
<1>3. PoolInv
  BY DEF PoolInv
<1>4. ASSUME NEW r \in Requests PROVE SteadyInv(r)
  BY DEF SteadyInv, Active
<1>5. ASSUME NEW r \in Requests PROVE RefusedInv(r)
  BY DEF RefusedInv
<1>. QED
  BY <1>1, <1>2, <1>3, <1>4, <1>5 DEF IInv, WalkInv

(* The lookup of the Cluster: on to the dial, or an answer, before which   *)
(* nothing was sent that was not cut.                                      *)
LEMMA GetClusterWalk == ASSUME WalkInv, NEW r \in Requests, GetCluster(r) PROVE WalkInv'
<1>1. PICK l \in {"dial", "done"}, a \in {"404", "500", None} :
        /\ Moved(r, l, a, None)
        /\ a # None <=> l = "done"
  BY GotoMoves, AnswerMoves, HubProxyAssumption
     DEF WalkInv, RequestInv, PhaseInv, GetCluster
<1>2. /\ pc[r] = "get"
      /\ UNCHANGED <<hubUp, endpoints, cluster, sess, pool, front, hop, peers, idx, body, faults,
                     execs, late, cuts, own502, stopped, tried, steady>>
  BY DEF GetCluster, hubVars, poolVars, walkVars, histVars, countVars
<1>3. TypeOK'
  BY <1>1, <1>2 DEF WalkInv, TypeOK, Moved
<1>4. ASSUME NEW q \in Requests, q # r PROVE RequestInv(q)'
  BY <1>1, <1>2, <1>4, SameKeeps DEF WalkInv, TypeOK, Moved, SameStage, SameWalk, SameCount
<1>5. RequestInv(r)'
  <2>1. pc'[r] = l /\ ans'[r] = a
    BY <1>1 DEF WalkInv, TypeOK, Moved
  <2> USE <1>1, <1>2, <2>1, RequestTypes, HubProxyAssumption
      DEF WalkInv, RequestInv, RequestType, Active
  <2>2. PhaseInv(r)' /\ ListInv(r)'
    BY DEF PhaseInv, ListInv
  <2>3. TriedInv(r)'
    BY DEF TriedInv
  <2>4. CopyInv(r)'
    BY DEF CopyInv
  <2>5. TruthInv(r)'
    <3>1. execs[r] + late[r] <= cuts[r] + own502[r]
      BY DEF CopyInv
    <3>2. ans'[r] # "ok"
      BY <2>1, HubProxyAssumption
    <3>. QED
      BY <3>1, <3>2 DEF TruthInv
  <2>. QED
    BY <2>2, <2>3, <2>4, <2>5
<1>. QED
  BY <1>3, <1>4, <1>5 DEF WalkInv

(* The dial of a request is counted, and is its first on this hub.         *)
LEMMA FirstDial ==
  ASSUME WalkInv, NEW r \in Requests, pc[r] = "dial", CountDial(r)
  PROVE  /\ hop[r] \in Hubs /\ tried[r][hop[r]] = 0
         /\ tried' \in [Requests -> [Hubs -> 0..2]]
         /\ \A q \in Requests : q # r => tried'[q] = tried[q]
         /\ \A h \in Hubs : tried'[r][h] = IF h = hop[r] THEN 1 ELSE tried[r][h]
<1>1. hop[r] \in Hubs /\ tried[r][hop[r]] = 0
  BY DEF WalkInv, RequestInv, PhaseInv, TriedInv
<1>2. tried \in [Requests -> [Hubs -> 0..2]]
  BY DEF WalkInv, TypeOK
<1>3. tried' = [tried EXCEPT ![r] = [tried[r] EXCEPT ![hop[r]] = 1]]
  BY <1>1, <1>2 DEF CountDial
<1>. QED
  BY <1>1, <1>2, <1>3

(* It leaves dials on the front and the peers so far only.                 *)
LEMMA FirstDialTried ==
  ASSUME WalkInv, NEW r \in Requests, pc[r] = "dial", CountDial(r), SameWalk(r),
         pc'[r] \in {"sent", "next", "error"}
  PROVE  TriedInv(r)'
<1>0. hop[r] = front[r] \/ (hop[r] = peers[r][idx[r]] /\ idx[r] \in 1..idx[r])
  <2>1. PhaseInv(r) /\ RequestType(r)
    BY RequestTypes DEF WalkInv, RequestInv
  <2>. QED
    BY <2>1 DEF RequestType, PhaseInv, Active
<1>1. \A h \in Hubs : tried'[r][h] = IF h = hop[r] THEN 1 ELSE tried[r][h]
  BY FirstDial
<1>2. \A h \in Hubs : tried[r][h] # 0 => h = front[r] \/ \E j \in 1..idx[r] : peers[r][j] = h
  BY DEF WalkInv, RequestInv, TriedInv, Active
<1>3. \A h \in Hubs : tried[r][h] \in {0, 1}
  BY DEF WalkInv, RequestInv, TriedInv
<1>4. ASSUME NEW h \in Hubs, tried'[r][h] # 0
      PROVE  h = front[r] \/ \E j \in 1..idx[r] : peers[r][j] = h
  BY <1>0, <1>1, <1>2, <1>4
<1>. QED
  BY <1>1, <1>3, <1>4 DEF TriedInv, SameWalk

(* A stream is opened.                                                     *)
LEMMA OpenStreamWalk ==
  ASSUME WalkInv, NEW r \in Requests, NEW s \in Sessions, OpenStream(r, s)
  PROVE  WalkInv'
<1>1. /\ pc[r] = "dial" /\ pc' = [pc EXCEPT ![r] = "sent"] /\ via' = [via EXCEPT ![r] = s]
      /\ UNCHANGED <<hubUp, endpoints, cluster, sess, pool, front, hop, peers, idx, ans, faults,
                     execs, late, cuts, own502, stopped, steady>>
      /\ SpendBody(r) /\ CountDial(r)
  BY DEF OpenStream, hubVars, poolVars, walkVars
<1>2. /\ tried' \in [Requests -> [Hubs -> 0..2]]
      /\ \A q \in Requests : q # r => tried'[q] = tried[q]
  BY <1>1, FirstDial
<1>3. TypeOK'
  BY <1>1, <1>2, SpendBodyType DEF WalkInv, TypeOK
<1>4. ASSUME NEW q \in Requests, q # r PROVE RequestInv(q)'
  BY <1>1, <1>2, <1>4, SameKeeps, SpendBodyType
     DEF WalkInv, TypeOK, SameStage, SameWalk, SameCount
<1>5. RequestInv(r)'
  <2>1. pc'[r] = "sent" /\ body'[r] = IF body[r] = "none" THEN "none" ELSE "spent"
    BY <1>1, SpendBodyType DEF WalkInv, TypeOK
  <2>2. TriedInv(r)'
    BY <1>1, <2>1, FirstDialTried DEF SameWalk
  <2> USE <1>1, <2>1, RequestTypes, HubProxyAssumption
      DEF WalkInv, RequestInv, RequestType, Active
  <2>3. PhaseInv(r)' /\ ListInv(r)'
    BY DEF PhaseInv, ListInv
  <2>4. CopyInv(r)' /\ TruthInv(r)'
    BY DEF CopyInv, TruthInv
  <2>. QED
    BY <2>2, <2>3, <2>4
<1>. QED
  BY <1>3, <1>4, <1>5 DEF WalkInv

(* There is no session.                                                    *)
LEMMA NoSessionWalk == ASSUME WalkInv, NEW r \in Requests, NoSession(r) PROVE WalkInv'
<1>1. PICK l \in {"next", "error"} : Moved(r, l, ans[r], None) /\ (l = "next" <=> AtPeer(r))
  BY RoundTripErrorMoves DEF WalkInv, NoSession
<1>2. /\ pc[r] = "dial"
      /\ UNCHANGED <<hubUp, endpoints, cluster, sess, pool, front, hop, peers, idx, faults,
                     execs, late, cuts, own502, stopped, steady>>
      /\ SpendBody(r) /\ CountDial(r)
  BY DEF NoSession, hubVars, poolVars, walkVars
<1>3. /\ tried' \in [Requests -> [Hubs -> 0..2]]
      /\ \A q \in Requests : q # r => tried'[q] = tried[q]
  BY <1>2, FirstDial
<1>4. TypeOK'
  BY <1>1, <1>2, <1>3, SpendBodyType DEF WalkInv, TypeOK, Moved
<1>5. ASSUME NEW q \in Requests, q # r PROVE RequestInv(q)'
  BY <1>1, <1>2, <1>3, <1>5, SameKeeps, SpendBodyType
     DEF WalkInv, TypeOK, Moved, SameStage, SameWalk, SameCount
<1>6. RequestInv(r)'
  <2>1. /\ pc'[r] = l /\ ans'[r] = ans[r]
        /\ body'[r] = IF body[r] = "none" THEN "none" ELSE "spent"
    BY <1>1, <1>2, SpendBodyType DEF WalkInv, TypeOK, Moved
  <2>2. TriedInv(r)'
    BY <1>1, <1>2, <2>1, FirstDialTried DEF SameWalk
  <2> USE <1>1, <1>2, <2>1, RequestTypes, HubProxyAssumption
      DEF WalkInv, RequestInv, RequestType, Active, AtPeer
  <2>3. PhaseInv(r)' /\ ListInv(r)'
    BY DEF PhaseInv, ListInv
  <2>4. CopyInv(r)' /\ TruthInv(r)'
    BY DEF CopyInv, TruthInv
  <2>. QED
    BY <2>2, <2>3, <2>4
<1>. QED
  BY <1>4, <1>5, <1>6 DEF WalkInv

(* A stream breaks: a round trip more that was cut, and the request goes   *)
(* on.                                                                     *)
LEMMA StreamErrorWalk == ASSUME WalkInv, NEW r \in Requests, StreamError(r) PROVE WalkInv'
<1>1. PICK l \in {"next", "error"} : Moved(r, l, ans[r], None) /\ (l = "next" <=> AtPeer(r))
  BY RoundTripErrorMoves DEF WalkInv, StreamError
<1>2. /\ pc[r] \in {"sent", "executed"} /\ cuts' = [cuts EXCEPT ![r] = @ + 1]
      /\ UNCHANGED <<hubUp, endpoints, cluster, sess, pool, front, hop, peers, idx, body, faults,
                     execs, own502, stopped, tried, steady>>
  BY DEF StreamError, hubVars, poolVars, walkVars
<1>3. /\ late' \in [Requests -> Nat]
      /\ late'[r] = late[r] \/ (pc[r] = "sent" /\ late'[r] = late[r] + 1)
      /\ \A q \in Requests : q # r => late'[q] = late[q]
  <2>1. (MayStraggle(r) /\ pc[r] = "sent") \/ late' = late
    BY DEF StreamError
  <2>2. TypeOK /\ late \in [Requests -> Nat]
    BY DEF WalkInv, TypeOK
  <2>3. CASE MayStraggle(r) /\ pc[r] = "sent"
    BY <2>2, <2>3, MayStraggleType
  <2>4. CASE late' = late
    BY <2>2, <2>4
  <2>. QED
    BY <2>1, <2>3, <2>4
<1>4. TypeOK'
  <2>1. cuts' \in [Requests -> Nat]
    BY <1>2 DEF WalkInv, TypeOK
  <2>. QED
    BY <1>1, <1>2, <1>3, <2>1 DEF WalkInv, TypeOK, Moved
<1>5. ASSUME NEW q \in Requests, q # r PROVE RequestInv(q)'
  BY <1>1, <1>2, <1>3, <1>5, SameKeeps
     DEF WalkInv, TypeOK, Moved, SameStage, SameWalk, SameCount
<1>6. RequestInv(r)'
  <2>1. /\ pc'[r] = l /\ ans'[r] = ans[r] /\ cuts'[r] = cuts[r] + 1
        /\ late'[r] = late[r] \/ (pc[r] = "sent" /\ late'[r] = late[r] + 1)
    BY <1>1, <1>2, <1>3 DEF WalkInv, TypeOK, Moved
  <2>2. RequestType(r) /\ RequestInv(r)
    BY RequestTypes DEF WalkInv
  <2>3. (l = "next" /\ AtPeer(r)) \/ (l = "error" /\ ~AtPeer(r))
    BY <1>1
  <2> USE <1>2, <2>1, <2>2, <2>3, HubProxyAssumption DEF RequestInv, RequestType, Active, AtPeer
  <2>4. PhaseInv(r)' /\ ListInv(r)'
    BY DEF PhaseInv, ListInv
  <2>5. TriedInv(r)'
    BY DEF TriedInv
  <2>6. CopyInv(r)'
    <3>1. /\ execs'[r] = execs[r] /\ own502'[r] = own502[r]
          /\ body'[r] = body[r] /\ hop'[r] = hop[r] /\ front'[r] = front[r]
      OBVIOUS
    <3>2. /\ pc[r] = "sent" => execs[r] + late[r] <= cuts[r] + own502[r]
          /\ execs[r] + late[r] <= cuts[r] + own502[r] + 1
      BY DEF CopyInv
    <3>3. execs'[r] + late'[r] <= cuts'[r] + own502'[r]
      BY <3>1, <3>2
    <3>4. execs'[r] + late'[r] <= cuts'[r] + own502'[r] + 1
      BY <3>1, <3>3
    <3>5. body'[r] # "none" => execs'[r] + late'[r] <= 1 /\ pc'[r] = "error" /\ body'[r] = "spent"
      BY <3>1 DEF CopyInv
    <3>6. body'[r] # "none" => hop'[r] = front'[r]
      BY <3>1 DEF CopyInv
    <3>7. pc'[r] \in {"error", "next"}
      OBVIOUS
    <3>. QED
      BY <3>3, <3>4, <3>5, <3>6, <3>7 DEF CopyInv
  <2>7. TruthInv(r)'
    BY DEF TruthInv
  <2>. QED
    BY <2>4, <2>5, <2>6, <2>7
<1>. QED
  BY <1>4, <1>5, <1>6 DEF WalkInv

(* The response is passed on, or aborted: the member has executed the      *)
(* request.                                                                *)
LEMMA ResponseWalk ==
  ASSUME WalkInv, NEW r \in Requests, AbortResponse(r) \/ Respond(r)
  PROVE  WalkInv'
<1>1. PICK a \in {"ok", "lost"} : Moved(r, "done", a, None)
  BY FinishMoves, AnswerMoves DEF WalkInv, AbortResponse, Respond
<1>2. /\ pc[r] = "executed"
      /\ UNCHANGED <<hubUp, endpoints, cluster, sess, pool, front, hop, peers, idx, body, faults,
                     execs, late, cuts, own502, stopped, tried, steady>>
  BY DEF AbortResponse, Respond, hubVars, poolVars, walkVars, histVars, countVars
<1>3. TypeOK'
  BY <1>1, <1>2 DEF WalkInv, TypeOK, Moved
<1>4. ASSUME NEW q \in Requests, q # r PROVE RequestInv(q)'
  BY <1>1, <1>2, <1>4, SameKeeps DEF WalkInv, TypeOK, Moved, SameStage, SameWalk, SameCount
<1>5. RequestInv(r)'
  <2>1. pc'[r] = "done" /\ ans'[r] = a
    BY <1>1 DEF WalkInv, TypeOK, Moved
  <2> USE <1>2, <2>1, RequestTypes DEF WalkInv, RequestInv, RequestType, Active
  <2>2. PhaseInv(r)' /\ ListInv(r)'
    BY DEF PhaseInv, ListInv
  <2>3. TriedInv(r)'
    BY DEF TriedInv
  <2>4. CopyInv(r)'
    BY DEF CopyInv
  <2>5. TruthInv(r)'
    BY DEF CopyInv, TruthInv
  <2>. QED
    BY <2>2, <2>3, <2>4, <2>5
<1>. QED
  BY <1>3, <1>4, <1>5 DEF WalkInv

(* The front lists its peers: each other ready hub once.                   *)
LEMMA ListPeersProperties ==
  ASSUME TypeOK, NEW h \in Hubs, NEW list \in ListPeers(h)
  PROVE  /\ list \in Seq(Hubs) /\ Len(list) \in Nat
         /\ \A i, j \in 1..Len(list) : list[i] = list[j] => i = j
         /\ \A i \in 1..Len(list) : list[i] # h
         /\ \A x \in endpoints \ {h} : \E j \in 1..Len(list) : list[j] = x
<1> DEFINE others == endpoints \ {h}
<1>1. others \subseteq Hubs /\ h \notin others /\ list \in SetToSeqs(others)
  BY DEF TypeOK, ListPeers
<1> HIDE DEF others
<1>2. IsFiniteSet(others)
  BY <1>1, HubProxyAssumption, FS_Subset
<1>3. /\ list \in Seq(others)
      /\ \A i, j \in 1..Len(list) : list[i] = list[j] => i = j
      /\ \A x \in others : \E j \in 1..Len(list) : list[j] = x
  BY <1>1, <1>2, ListingProperties
<1>4. list \in Seq(Hubs) /\ Len(list) \in Nat
  BY <1>1, <1>3, SeqMonotonic, LenProperties
<1>5. \A i \in 1..Len(list) : list[i] \in others
  BY <1>3, ElementOfSeq
<1>. QED
  BY <1>1, <1>3, <1>4, <1>5 DEF others

LEMMA ErrorHandlerWalk == ASSUME WalkInv, NEW r \in Requests, ErrorHandler(r) PROVE WalkInv'
<1>1. /\ pc[r] = "error" /\ hop[r] = front[r] /\ front[r] \in Hubs /\ TypeOK
      /\ UNCHANGED <<hubUp, endpoints, cluster, sess, pool, front, hop, body, faults,
                     execs, late, cuts, own502, stopped, tried, steady>>
  BY DEF ErrorHandler, WalkInv, RequestInv, PhaseInv, hubVars, poolVars, histVars, countVars
<1>2. CASE Finish(r, "500") /\ UNCHANGED <<peers, idx>>
  <2>1. Moved(r, "done", "500", None)
    BY <1>2, FinishMoves
  <2>2. TypeOK'
    BY <1>1, <1>2, <2>1 DEF TypeOK, Moved
  <2>3. ASSUME NEW q \in Requests, q # r PROVE RequestInv(q)'
    BY <1>1, <1>2, <2>1, <2>3, SameKeeps DEF TypeOK, Moved, SameStage, SameWalk, SameCount
  <2>4. RequestInv(r)'
    <3>1. pc'[r] = "done" /\ ans'[r] = "500"
      BY <1>1, <2>1 DEF TypeOK, Moved
    <3> USE <1>1, <1>2, <3>1, RequestTypes DEF WalkInv, RequestInv, RequestType, Active
    <3>2. PhaseInv(r)' /\ ListInv(r)'
      BY DEF PhaseInv, ListInv
    <3>3. TriedInv(r)'
      BY DEF TriedInv
    <3>4. CopyInv(r)'
      BY DEF CopyInv
    <3>5. TruthInv(r)'
      BY DEF CopyInv, TruthInv
    <3>. QED
      BY <3>2, <3>3, <3>4, <3>5
  <2>. QED
    BY <2>2, <2>3, <2>4 DEF WalkInv
<1>3. ASSUME NEW list \in ListPeers(front[r]),
             peers' = [peers EXCEPT ![r] = list], idx' = [idx EXCEPT ![r] = 0], Goto(r, "next")
      PROVE  WalkInv'
  <2>1. Moved(r, "next", ans[r], None)
    BY <1>1, <1>3, GotoMoves
  <2>2. /\ list \in Seq(Hubs) /\ Len(list) \in Nat
        /\ \A i, j \in 1..Len(list) : list[i] = list[j] => i = j
        /\ \A i \in 1..Len(list) : list[i] # front[r]
    BY <1>1, ListPeersProperties
  <2>3. TypeOK'
    BY <1>1, <1>3, <2>1, <2>2 DEF TypeOK, Moved
  <2>4. ASSUME NEW q \in Requests, q # r PROVE RequestInv(q)'
    BY <1>1, <1>3, <2>1, <2>4, SameKeeps DEF TypeOK, Moved, SameStage, SameWalk, SameCount
  <2>5. RequestInv(r)'
    <3>1. pc'[r] = "next" /\ ans'[r] = ans[r] /\ peers'[r] = list /\ idx'[r] = 0
      BY <1>1, <1>3, <2>1 DEF TypeOK, Moved
    <3> USE <1>1, <2>2, <3>1, RequestTypes DEF WalkInv, RequestInv, RequestType, Active
    <3>2. PhaseInv(r)' /\ ListInv(r)'
      BY DEF PhaseInv, ListInv
    <3>3. TriedInv(r)'
      <4>1. idx[r] = 0
        BY DEF PhaseInv
      <4>. QED
        BY <4>1 DEF TriedInv
    <3>4. CopyInv(r)' /\ TruthInv(r)'
      BY DEF CopyInv, TruthInv
    <3>. QED
      BY <3>2, <3>3, <3>4
  <2>. QED
    BY <2>3, <2>4, <2>5 DEF WalkInv
<1>. QED
  BY <1>2, <1>3 DEF ErrorHandler

(* The next peer is one that has not been dialled for the request; there   *)
(* is none for a request with a body.                                      *)
LEMMA TryNextPeerWalk == ASSUME WalkInv, NEW r \in Requests, TryNextPeer(r) PROVE WalkInv'
<1>1. /\ pc[r] = "next" /\ TypeOK /\ RequestType(r) /\ RequestInv(r)
      /\ UNCHANGED <<hubUp, endpoints, cluster, sess, pool, front, peers, body, faults,
                     execs, late, cuts, own502, tried, steady>>
      /\ stopped' \in [Requests -> BOOLEAN]
  BY RequestTypes DEF TryNextPeer, WalkInv, TypeOK, hubVars, poolVars
<1>2. CASE \E a \in {"500", "502"} :
             Finish(r, a) /\ UNCHANGED hop /\ (UNCHANGED idx \/ (~NoMorePeers(r) /\ Advance(r)))
  <2>1. PICK a \in {"500", "502"} :
          /\ Moved(r, "done", a, None) /\ UNCHANGED hop
          /\ UNCHANGED idx \/ (~NoMorePeers(r) /\ Advance(r))
    BY <1>2, FinishMoves
  <2>2. /\ idx' \in [Requests -> Nat]
        /\ idx'[r] <= Len(peers[r])
        /\ \A q \in Requests : q # r => idx'[q] = idx[q]
    <3>1. idx \in [Requests -> Nat] /\ Len(peers[r]) \in Nat /\ idx[r] <= Len(peers[r])
      BY <1>1 DEF TypeOK, RequestType, RequestInv, PhaseInv
    <3>2. CASE UNCHANGED idx
      BY <3>1, <3>2
    <3>3. CASE ~NoMorePeers(r) /\ Advance(r)
      BY <3>1, <3>3 DEF NoMorePeers, Advance
    <3>. QED
      BY <2>1, <3>2, <3>3
  <2>3. TypeOK'
    BY <1>1, <2>1, <2>2 DEF TypeOK, Moved
  <2>4. ASSUME NEW q \in Requests, q # r PROVE RequestInv(q)'
    BY <1>1, <2>1, <2>2, <2>4, SameKeeps DEF TypeOK, Moved, SameStage, SameWalk, SameCount
  <2>5. RequestInv(r)'
    <3>1. pc'[r] = "done" /\ ans'[r] = a
      BY <1>1, <2>1 DEF TypeOK, Moved
    <3> USE <1>1, <2>1, <2>2, <3>1 DEF RequestInv, RequestType, Active
    <3>2. PhaseInv(r)' /\ ListInv(r)'
      BY DEF PhaseInv, ListInv
    <3>3. TriedInv(r)'
      BY DEF TriedInv
    <3>4. CopyInv(r)'
      BY DEF CopyInv
    <3>5. TruthInv(r)'
      BY DEF CopyInv, TruthInv
    <3>. QED
      BY <3>2, <3>3, <3>4, <3>5
  <2>. QED
    BY <2>3, <2>4, <2>5 DEF WalkInv
<1>3. CASE /\ ~NoMorePeers(r) /\ Advance(r) /\ Resendable(r)
           /\ hop' = [hop EXCEPT ![r] = peers[r][idx[r] + 1]]
           /\ Goto(r, "get")
  <2>1. Moved(r, "get", ans[r], None)
    BY <1>1, <1>3, GotoMoves
  <2>2. idx[r] + 1 \in 1..Len(peers[r]) /\ peers[r][idx[r] + 1] \in Hubs
    BY <1>1, <1>3, ElementOfSeq DEF TypeOK, RequestType, NoMorePeers
  <2>3. TypeOK'
    BY <1>1, <1>3, <2>1, <2>2 DEF TypeOK, Moved, Advance
  <2>4. ASSUME NEW q \in Requests, q # r PROVE RequestInv(q)'
    BY <1>1, <1>3, <2>1, <2>4, SameKeeps
       DEF TypeOK, Moved, Advance, SameStage, SameWalk, SameCount
  <2>5. RequestInv(r)'
    <3>1. /\ pc'[r] = "get" /\ ans'[r] = ans[r] /\ idx'[r] = idx[r] + 1
          /\ hop'[r] = peers[r][idx[r] + 1] /\ body[r] = "none"
      BY <1>1, <1>3, <2>1 DEF TypeOK, Moved, Advance, Resendable, RequestInv, CopyInv, Active
    <3> USE <1>1, <2>2, <3>1 DEF RequestInv, RequestType, Active
    <3>2. PhaseInv(r)' /\ ListInv(r)'
      BY DEF PhaseInv, ListInv
    <3>3. TriedInv(r)'
      <4>1. tried[r][peers[r][idx[r] + 1]] = 0
        <5>1. \A j \in 1..idx[r] : j \in 1..Len(peers[r]) /\ j # idx[r] + 1
          OBVIOUS
        <5>2. \A j \in 1..idx[r] : peers[r][j] # peers[r][idx[r] + 1]
          BY <5>1 DEF ListInv
        <5>3. peers[r][idx[r] + 1] # front[r]
          BY DEF ListInv
        <5>. QED
          BY <5>2, <5>3 DEF TriedInv
      <4>2. \A j \in 1..idx[r] : j \in 1..(idx[r] + 1)
        OBVIOUS
      <4>. QED
        BY <4>1, <4>2 DEF TriedInv
    <3>4. CopyInv(r)' /\ TruthInv(r)'
      BY DEF CopyInv, TruthInv
    <3>. QED
      BY <3>2, <3>3, <3>4
  <2>. QED
    BY <2>3, <2>4, <2>5 DEF WalkInv
<1>. QED
  BY <1>2, <1>3 DEF TryNextPeer

(* The member executes the request that is on its way, or a late copy.     *)
LEMMA ExecuteWalk ==
  ASSUME WalkInv, NEW r \in Requests, Execute(r) \/ LateExecute(r)
  PROVE  WalkInv'
<1>1. /\ TypeOK /\ RequestType(r) /\ RequestInv(r)
      /\ execs' = [execs EXCEPT ![r] = @ + 1]
      /\ UNCHANGED <<hubUp, endpoints, cluster, sess, pool, front, hop, peers, idx, via, body, ans,
                     faults, cuts, own502, stopped, tried, steady>>
  BY RequestTypes DEF WalkInv, Execute, LateExecute, hubVars, poolVars, walkVars, legVars
<1>2. \/ pc[r] = "sent" /\ pc' = [pc EXCEPT ![r] = "executed"] /\ late' = late
      \/ pc' = pc /\ late[r] > 0 /\ late' = [late EXCEPT ![r] = @ - 1]
  BY DEF Execute, LateExecute
<1>3. /\ pc' \in [Requests -> {"idle", "get", "dial", "sent", "executed", "error", "next", "done"}]
      /\ execs' \in [Requests -> Nat] /\ late' \in [Requests -> Nat]
  <2>1. execs' \in [Requests -> Nat]
    BY <1>1 DEF TypeOK
  <2>2. CASE pc[r] = "sent" /\ pc' = [pc EXCEPT ![r] = "executed"] /\ late' = late
    BY <2>1, <2>2, <1>1 DEF TypeOK
  <2>3. CASE pc' = pc /\ late[r] > 0 /\ late' = [late EXCEPT ![r] = @ - 1]
    <3>1. late[r] - 1 \in Nat
      BY <1>1, <2>3 DEF RequestType
    <3>. QED
      BY <1>1, <2>1, <2>3, <3>1 DEF TypeOK
  <2>. QED
    BY <1>2, <2>2, <2>3
<1>4. TypeOK'
  BY <1>1, <1>3 DEF TypeOK
<1>5. ASSUME NEW q \in Requests, q # r PROVE RequestInv(q)'
  BY <1>1, <1>2, <1>5, SameKeeps DEF TypeOK, SameStage, SameWalk, SameCount
<1>6. RequestInv(r)'
  <2>1. /\ execs'[r] = execs[r] + 1
        /\ \/ pc[r] = "sent" /\ pc'[r] = "executed" /\ late'[r] = late[r]
           \/ pc'[r] = pc[r] /\ late[r] > 0 /\ late'[r] = late[r] - 1
    BY <1>1, <1>2 DEF TypeOK
  <2> USE <1>1, <2>1 DEF RequestInv, RequestType, Active
  <2>2. PhaseInv(r)' /\ ListInv(r)'
    BY DEF PhaseInv, ListInv
  <2>3. TriedInv(r)'
    BY DEF TriedInv
  <2>4. CopyInv(r)'
    <3>1. UNCHANGED <<front, hop, body, cuts, own502>>
      OBVIOUS
    <3>2. CASE pc[r] = "sent" /\ pc'[r] = "executed" /\ late'[r] = late[r]
      <4>1. /\ execs'[r] + late'[r] <= cuts[r] + own502[r] + 1 /\ execs'[r] > 0
            /\ body[r] # "none" => execs'[r] + late'[r] <= 1
        BY <3>2 DEF CopyInv
      <4>2. body[r] # "none" => hop[r] = front[r] /\ body[r] = "spent"
        BY <3>2 DEF CopyInv
      <4> HIDE <1>1, <2>1 DEF RequestInv, RequestType
      <4>. QED
        BY <1>1, <3>1, <3>2, <4>1, <4>2 DEF CopyInv, RequestType
    <3>3. CASE pc'[r] = pc[r] /\ late[r] > 0 /\ late'[r] = late[r] - 1
      <4>1. execs'[r] + late'[r] = execs[r] + late[r]
        BY <3>3
      <4>2. pc[r] = "executed" => execs'[r] > 0
        OBVIOUS
      <4> HIDE <2>1 DEF RequestType
      <4>. QED
        BY <3>1, <3>3, <4>1, <4>2 DEF CopyInv
    <3>. QED
      BY <2>1, <3>2, <3>3
  <2>5. TruthInv(r)'
    BY DEF TruthInv
  <2>. QED
    BY <2>2, <2>3, <2>4, <2>5
<1>. QED
  BY <1>4, <1>5, <1>6 DEF WalkInv

(* The agent answers 502: a round trip that was cut.                       *)
LEMMA AgentBadGatewayWalk ==
  ASSUME WalkInv, NEW r \in Requests, AgentBadGateway(r)
  PROVE  WalkInv'
<1>1. /\ TypeOK /\ RequestType(r) /\ RequestInv(r)
      /\ pc[r] = "sent" /\ cuts' = [cuts EXCEPT ![r] = @ + 1]
      /\ faults < MaxFaults /\ faults' = faults + 1
      /\ UNCHANGED <<hubUp, endpoints, cluster, sess, pool, front, hop, peers, idx, body,
                     execs, own502, stopped, tried, steady>>
  BY RequestTypes DEF WalkInv, AgentBadGateway, Fault, hubVars, poolVars, walkVars
<1>2. \/ Moved(r, "done", "502", None) /\ ~AtPeer(r)
      \/ Moved(r, "next", ans[r], None) /\ AtPeer(r)
  BY <1>1, AnswerMoves DEF AgentBadGateway
<1>3. /\ late' \in [Requests -> Nat]
      /\ late'[r] = late[r] \/ late'[r] = late[r] + 1
      /\ \A q \in Requests : q # r => late'[q] = late[q]
  BY <1>1, MayStraggleType DEF AgentBadGateway
<1>4. TypeOK'
  <2>1. cuts' \in [Requests -> Nat] /\ faults' \in 0..MaxFaults
    BY <1>1, HubProxyAssumption DEF TypeOK
  <2>. QED
    BY <1>1, <1>2, <1>3, <2>1 DEF TypeOK, Moved
<1>5. ASSUME NEW q \in Requests, q # r PROVE RequestInv(q)'
  BY <1>1, <1>2, <1>3, <1>5, SameKeeps DEF TypeOK, Moved, SameStage, SameWalk, SameCount
<1>6. RequestInv(r)'
  <2>1. /\ cuts'[r] = cuts[r] + 1
        /\ \/ pc'[r] = "done" /\ ans'[r] = "502"
           \/ pc'[r] = "next" /\ ans'[r] = ans[r] /\ AtPeer(r)
    BY <1>1, <1>2 DEF TypeOK, Moved
  <2>2. /\ pc[r] = "sent" /\ RequestType(r) /\ RequestInv(r)
        /\ late'[r] \in Nat /\ (late'[r] = late[r] \/ late'[r] = late[r] + 1)
        /\ UNCHANGED <<front, hop, peers, idx, body, execs, own502, tried>>
    BY <1>1, <1>3
  <2> USE <2>1, <2>2 DEF RequestInv, RequestType, Active, AtPeer
  <2>3. PhaseInv(r)' /\ ListInv(r)'
    BY DEF PhaseInv, ListInv
  <2>4. TriedInv(r)'
    BY DEF TriedInv
  <2>5. execs'[r] + late'[r] <= cuts'[r] + own502'[r]
    <3>1. execs[r] + late[r] <= cuts[r] + own502[r]
      BY DEF CopyInv
    <3>2. execs'[r] = execs[r] /\ own502'[r] = own502[r]
      OBVIOUS
    <3>. QED
      BY <3>1, <3>2
  <2>6. CopyInv(r)'
    <3>1. /\ body[r] # "none" => execs[r] + late[r] = 0
          /\ body[r] # "none" => body[r] = "spent" /\ hop[r] = front[r]
      BY DEF CopyInv
    <3>2. execs'[r] = execs[r] /\ body'[r] = body[r] /\ hop'[r] = hop[r] /\ front'[r] = front[r]
      OBVIOUS
    <3>3. /\ execs'[r] + late'[r] <= cuts'[r] + own502'[r] + 1
          /\ body'[r] # "none" => execs'[r] + late'[r] <= 1
      BY <2>5, <3>1, <3>2
    <3>4. pc'[r] = "done" \/ (pc'[r] = "next" /\ body'[r] = "none")
      BY <3>1, <3>2
    <3>. QED
      BY <2>5, <3>1, <3>2, <3>3, <3>4 DEF CopyInv
  <2>7. TruthInv(r)'
    BY <2>5, HubProxyAssumption DEF TruthInv
  <2>. QED
    BY <2>3, <2>4, <2>6, <2>7
<1>. QED
  BY <1>4, <1>5, <1>6 DEF WalkInv

(* The member answers 502 itself, which is passed on to the client, or     *)
(* makes the front go on with the next peer.                               *)
LEMMA MemberBadGatewayWalk ==
  ASSUME WalkInv, NEW r \in Requests, MemberBadGateway(r)
  PROVE  WalkInv'
<1>1. /\ TypeOK /\ RequestType(r) /\ RequestInv(r)
      /\ pc[r] = "executed" /\ own502' = [own502 EXCEPT ![r] = @ + 1]
      /\ UNCHANGED <<hubUp, endpoints, cluster, sess, pool, front, hop, peers, idx, body, faults,
                     execs, late, cuts, stopped, tried, steady>>
  BY RequestTypes DEF WalkInv, MemberBadGateway, hubVars, poolVars, walkVars
<1>2. \/ Moved(r, "done", "502", None) /\ ~AtPeer(r)
      \/ Moved(r, "next", ans[r], None) /\ AtPeer(r)
  BY <1>1, AnswerMoves DEF MemberBadGateway
<1>3. TypeOK'
  <2>1. own502' \in [Requests -> Nat]
    BY <1>1 DEF TypeOK
  <2>. QED
    BY <1>1, <1>2, <2>1 DEF TypeOK, Moved
<1>4. ASSUME NEW q \in Requests, q # r PROVE RequestInv(q)'
  BY <1>1, <1>2, <1>4, SameKeeps DEF TypeOK, Moved, SameStage, SameWalk, SameCount
<1>5. RequestInv(r)'
  <2>1. /\ own502'[r] = own502[r] + 1
        /\ \/ pc'[r] = "done" /\ ans'[r] = "502"
           \/ pc'[r] = "next" /\ ans'[r] = ans[r] /\ AtPeer(r)
    BY <1>1, <1>2 DEF TypeOK, Moved
  <2> USE <1>1, <2>1 DEF RequestInv, RequestType, Active, AtPeer
  <2>2. PhaseInv(r)' /\ ListInv(r)'
    BY DEF PhaseInv, ListInv
  <2>3. TriedInv(r)'
    BY DEF TriedInv
  <2>4. CopyInv(r)'
    BY DEF CopyInv
  <2>5. TruthInv(r)'
    BY HubProxyAssumption DEF CopyInv, TruthInv
  <2>. QED
    BY <2>2, <2>3, <2>4, <2>5
<1>. QED
  BY <1>3, <1>4, <1>5 DEF WalkInv

(* The client gives up: at most the copy that was on its way straggles.    *)
LEMMA ClientCancelWalk == ASSUME WalkInv, NEW r \in Requests, ClientCancel(r) PROVE WalkInv'
<1>1. /\ TypeOK /\ RequestType(r) /\ RequestInv(r) /\ Active(r)
      /\ Moved(r, "done", "lost", None)
      /\ UNCHANGED <<hubUp, endpoints, cluster, sess, pool, front, hop, peers, idx, body, faults,
                     execs, cuts, own502, stopped, tried, steady>>
  BY RequestTypes, FinishMoves DEF WalkInv, ClientCancel, hubVars, poolVars, walkVars
<1>2. /\ late' \in [Requests -> Nat]
      /\ late'[r] = late[r] \/ (pc[r] \in {"get", "dial", "sent"} /\ late'[r] = late[r] + 1)
      /\ \A q \in Requests : q # r => late'[q] = late[q]
  <2>1. (MayStraggle(r) /\ pc[r] \in {"get", "dial", "sent"}) \/ late' = late
    BY DEF ClientCancel
  <2>2. CASE MayStraggle(r) /\ pc[r] \in {"get", "dial", "sent"}
    BY <1>1, <2>2, MayStraggleType
  <2>3. CASE late' = late
    BY <1>1, <2>3 DEF TypeOK
  <2>. QED
    BY <2>1, <2>2, <2>3
<1>3. TypeOK'
  BY <1>1, <1>2 DEF TypeOK, Moved
<1>4. ASSUME NEW q \in Requests, q # r PROVE RequestInv(q)'
  BY <1>1, <1>2, <1>4, SameKeeps DEF TypeOK, Moved, SameStage, SameWalk, SameCount
<1>5. RequestInv(r)'
  <2>1. pc'[r] = "done" /\ ans'[r] = "lost"
    BY <1>1 DEF TypeOK, Moved
  <2> USE <1>1, <1>2, <2>1 DEF RequestInv, RequestType, Active
  <2>2. PhaseInv(r)' /\ ListInv(r)'
    BY DEF PhaseInv, ListInv
  <2>3. TriedInv(r)'
    BY DEF TriedInv
  <2>4. CopyInv(r)'
    BY DEF CopyInv
  <2>5. TruthInv(r)'
    BY DEF TruthInv
  <2>. QED
    BY <2>2, <2>3, <2>4, <2>5
<1>. QED
  BY <1>3, <1>4, <1>5 DEF WalkInv

(* A request arrives.                                                      *)
LEMMA ArriveWalk ==
  ASSUME WalkInv, NEW r \in Requests, NEW h \in Hubs, Arrive(r, h)
  PROVE  WalkInv'
<1>1. /\ TypeOK /\ RequestType(r) /\ RequestInv(r) /\ pc[r] = "idle"
      /\ pc' = [pc EXCEPT ![r] = "get"]
      /\ front' = [front EXCEPT ![r] = h] /\ hop' = [hop EXCEPT ![r] = h]
      /\ UNCHANGED <<hubUp, endpoints, cluster, sess, pool, peers, idx, via, ans, faults,
                     execs, late, cuts, own502, stopped, tried>>
  BY RequestTypes DEF WalkInv, Arrive, hubVars, poolVars, countVars
<1>2. PICK b \in {"none", "fresh"} : body' = [body EXCEPT ![r] = b]
  BY DEF Arrive
<1>3. TypeOK'
  <2>1. steady' \in [Requests -> SUBSET Sessions]
    BY <1>1 DEF TypeOK, Arrive, Usable
  <2>. QED
    BY <1>1, <1>2, <2>1 DEF TypeOK
<1>4. ASSUME NEW q \in Requests, q # r PROVE RequestInv(q)'
  BY <1>1, <1>2, <1>4, SameKeeps DEF TypeOK, SameStage, SameWalk, SameCount
<1>5. RequestInv(r)'
  <2>1. pc'[r] = "get" /\ front'[r] = h /\ hop'[r] = h /\ body'[r] = b
    BY <1>1, <1>2 DEF TypeOK
  <2> USE <1>1, <2>1, EmptySeq DEF RequestInv, RequestType, Active
  <2>2. PhaseInv(r)' /\ ListInv(r)'
    BY DEF PhaseInv, ListInv
  <2>3. TriedInv(r)'
    BY DEF TriedInv
  <2>4. CopyInv(r)'
    BY DEF CopyInv, PhaseInv
  <2>5. TruthInv(r)'
    BY DEF TruthInv
  <2>. QED
    BY <2>2, <2>3, <2>4, <2>5
<1>. QED
  BY <1>3, <1>4, <1>5 DEF WalkInv

(* A hub crashes: its own requests are lost, those that it served as a     *)
(* peer are aborted or end with 502 at their fronts, and nothing happens   *)
(* to the others.                                                          *)
CrashLoses(q, h) ==
  /\ Active(q) /\ (front[q] = h \/ pc[q] = "executed")
  /\ pc'[q] = "done" /\ ans'[q] = "lost" /\ cuts'[q] = cuts[q]
  /\ \/ late'[q] = late[q]
     \/ late'[q] = late[q] + 1 /\ (pc[q] = "sent" \/ (AtPeer(q) /\ pc[q] \in {"get", "dial"}))

CrashAtPeer(q, h) ==
  /\ front[q] # h /\ hop[q] = h /\ pc[q] \in {"get", "dial", "sent", "executed"}
  /\ pc'[q] = "done" /\ ans'[q] = "502" /\ stopped'[q]
  /\ \/ pc[q] \in {"sent", "executed"} /\ cuts'[q] = cuts[q] + 1
     \/ pc[q] \in {"get", "dial"} /\ cuts'[q] = cuts[q]
  /\ \/ late'[q] = late[q]
     \/ late'[q] = late[q] + 1 /\ pc[q] = "sent"

CrashSpares(q) ==
  pc'[q] = pc[q] /\ ans'[q] = ans[q] /\ cuts'[q] = cuts[q] /\ late'[q] = late[q] /\ stopped'[q] = stopped[q]

LEMMA HubCrashCases ==
  ASSUME TypeOK, NEW h \in Hubs, HubCrash(h), NEW q \in Requests
  PROVE  CrashLoses(q, h) \/ CrashAtPeer(q, h) \/ CrashSpares(q)
<1> DEFINE fronted == {r \in Requests : Active(r) /\ front[r] = h}
           peered  == {r \in Requests : /\ front[r] # h /\ hop[r] = h
                                        /\ pc[r] \in {"get", "dial", "sent", "executed"}}
           sent    == {r \in fronted \cup peered : pc[r] = "sent"}
           ahead   == {r \in fronted : AtPeer(r) /\ pc[r] \in {"get", "dial"}}
<1>0. PICK begun \in SUBSET {r \in peered : pc[r] = "executed"} :
        /\ ans' = [r \in Requests |-> IF r \in fronted \cup begun THEN "lost"
                                      ELSE IF r \in peered THEN "502" ELSE ans[r]]
        /\ stopped' = [r \in Requests |-> stopped[r] \/ r \in peered \ begun]
        /\ cuts' = [r \in Requests |->
                      IF r \in peered \ begun /\ pc[r] \in {"sent", "executed"}
                      THEN cuts[r] + 1 ELSE cuts[r]]
  BY DEF HubCrash
<1>1. /\ pc'[q] = IF q \in fronted \cup peered THEN "done" ELSE pc[q]
      /\ ans'[q] = IF q \in fronted \cup begun THEN "lost"
                   ELSE IF q \in peered THEN "502" ELSE ans[q]
      /\ cuts'[q] = IF q \in peered \ begun /\ pc[q] \in {"sent", "executed"}
                    THEN cuts[q] + 1 ELSE cuts[q]
      /\ stopped'[q] = (stopped[q] \/ q \in peered \ begun)
      /\ q \in begun => q \in peered /\ pc[q] = "executed"
  BY <1>0 DEF HubCrash
<1>2. late'[q] = late[q] \/ (late'[q] = late[q] + 1 /\ q \in sent \cup ahead)
  <2>1. PICK strag \in SUBSET (sent \cup ahead) :
          late' = [r \in Requests |-> IF r \in strag THEN late[r] + 1 ELSE late[r]]
    BY DEF HubCrash
  <2>. QED
    BY <2>1
<1>3. q \in fronted <=> Active(q) /\ front[q] = h
  OBVIOUS
<1>4. q \in peered <=> front[q] # h /\ hop[q] = h /\ pc[q] \in {"get", "dial", "sent", "executed"}
  OBVIOUS
<1>5. q \in sent <=> (q \in fronted \/ q \in peered) /\ pc[q] = "sent"
  OBVIOUS
<1>6. q \in ahead <=> q \in fronted /\ AtPeer(q) /\ pc[q] \in {"get", "dial"}
  OBVIOUS
<1>7. stopped[q] \in BOOLEAN
  BY DEF TypeOK
<1> HIDE DEF fronted, peered, sent, ahead
<1>8. CASE q \in fronted
  BY <1>1, <1>2, <1>3, <1>4, <1>5, <1>6, <1>8 DEF CrashLoses
<1>9. CASE q \in peered /\ q \notin begun
  BY <1>1, <1>2, <1>3, <1>4, <1>5, <1>6, <1>9 DEF CrashAtPeer, Active
<1>10. CASE q \in begun
  BY <1>1, <1>2, <1>3, <1>4, <1>5, <1>6, <1>10 DEF CrashLoses, Active
<1>11. CASE q \notin fronted /\ q \notin peered
  BY <1>1, <1>2, <1>5, <1>6, <1>7, <1>11 DEF CrashSpares
<1>. QED
  BY <1>8, <1>9, <1>10, <1>11

(* Track only takes sessions away.                                         *)
LEMMA TrackType ==
  ASSUME TypeOK, Track
  PROVE  steady' \in [Requests -> SUBSET Sessions]
BY DEF TypeOK, Track

LEMMA FaultType ==
  ASSUME TypeOK, Fault
  PROVE  faults' \in 0..MaxFaults
BY HubProxyAssumption DEF TypeOK, Fault

LEMMA HubCrashWalk == ASSUME WalkInv, NEW h \in Hubs, HubCrash(h) PROVE WalkInv'
<1>1. /\ TypeOK /\ Track /\ Fault
      /\ UNCHANGED <<endpoints, cluster, front, hop, peers, idx, body, execs, own502, tried>>
  BY DEF WalkInv, HubCrash, walkVars
<1>2. \A q \in Requests : CrashLoses(q, h) \/ CrashAtPeer(q, h) \/ CrashSpares(q)
  BY <1>1, HubCrashCases
<1>3. TypeOK'
  <2>1. /\ hubUp' \in [Hubs -> BOOLEAN]
        /\ sess' \in [Sessions -> {"new", "open", "broken", "closed"}]
        /\ pool' \in [Hubs -> SUBSET Sessions]
    BY <1>1 DEF TypeOK, HubCrash
  <2>2. pc' \in [Requests -> {"idle", "get", "dial", "sent", "executed", "error", "next", "done"}]
    BY <1>1 DEF TypeOK, HubCrash
  <2>3. ans' \in [Requests -> {"ok", "404", "500", "502", "lost", None}]
    <3> DEFINE fronted == {r \in Requests : Active(r) /\ front[r] = h}
               peered  == {r \in Requests : /\ front[r] # h /\ hop[r] = h
                                            /\ pc[r] \in {"get", "dial", "sent", "executed"}}
    <3>1. PICK begun \in SUBSET {r \in peered : pc[r] = "executed"} :
            ans' = [r \in Requests |-> IF r \in fronted \cup begun THEN "lost"
                                      ELSE IF r \in peered THEN "502" ELSE ans[r]]
      BY DEF HubCrash
    <3> HIDE DEF fronted, peered
    <3>. QED
      BY <1>1, <3>1 DEF TypeOK
  <2>4. via' \in [Requests -> Sessions \cup {None}]
    BY <1>1 DEF TypeOK, HubCrash
  <2>5. stopped' \in [Requests -> BOOLEAN]
    <3>1. PICK unreached : stopped' = [r \in Requests |-> stopped[r] \/ r \in unreached]
      BY DEF HubCrash
    <3>. QED
      BY <1>1, <3>1 DEF TypeOK
  <2>6. cuts' \in [Requests -> Nat]
    <3>1. PICK cut : cuts' = [r \in Requests |-> IF r \in cut THEN cuts[r] + 1 ELSE cuts[r]]
      <4>1. PICK unreached :
              cuts' = [r \in Requests |-> IF r \in unreached /\ pc[r] \in {"sent", "executed"}
                                         THEN cuts[r] + 1 ELSE cuts[r]]
        BY DEF HubCrash
      <4>2. cuts' = [r \in Requests |->
                       IF r \in {q \in Requests : q \in unreached /\ pc[q] \in {"sent", "executed"}}
                       THEN cuts[r] + 1 ELSE cuts[r]]
        BY <4>1
      <4>. QED
        BY <4>2
    <3>. QED
      BY <1>1, <3>1 DEF TypeOK
  <2>7. late' \in [Requests -> Nat]
    <3>1. PICK strag : late' = [r \in Requests |-> IF r \in strag THEN late[r] + 1 ELSE late[r]]
      BY DEF HubCrash
    <3>2. \A r \in Requests : late[r] \in Nat /\ late[r] + 1 \in Nat
      BY <1>1 DEF TypeOK
    <3>. QED
      BY <3>1, <3>2
  <2>8. steady' \in [Requests -> SUBSET Sessions] /\ faults' \in 0..MaxFaults
    BY <1>1, TrackType, FaultType
  <2>. QED
    BY <1>1, <2>1, <2>2, <2>3, <2>4, <2>5, <2>6, <2>7, <2>8 DEF TypeOK
<1>4. ASSUME NEW q \in Requests PROVE RequestInv(q)'
  <2>1. RequestType(q) /\ RequestInv(q)
    BY RequestTypes DEF WalkInv
  <2>2. CASE CrashSpares(q)
    BY <1>1, <2>2, SameKeeps DEF CrashSpares, SameStage, SameWalk, SameCount
  <2>3. CASE CrashLoses(q, h) \/ CrashAtPeer(q, h)
    <3>1. pc'[q] = "done"
      BY <2>3 DEF CrashLoses, CrashAtPeer
    <3>2. PhaseInv(q)' /\ ListInv(q)' /\ TriedInv(q)'
      <4> USE <1>1, <2>1, <3>1 DEF RequestInv, RequestType, Active
      <4>1. PhaseInv(q)'
        BY <2>3 DEF PhaseInv, CrashLoses, CrashAtPeer
      <4>2. ListInv(q)'
        BY DEF ListInv
      <4>3. TriedInv(q)'
        BY DEF TriedInv
      <4>. QED
        BY <4>1, <4>2, <4>3
    <3>3. CASE CrashLoses(q, h)
      <4> USE <1>1, <2>1, <3>1, <3>3 DEF RequestInv, RequestType, Active, CrashLoses, AtPeer
      <4>1. CopyInv(q)'
        BY DEF CopyInv
      <4>2. TruthInv(q)'
        BY DEF TruthInv
      <4>. QED
        BY <3>2, <4>1, <4>2 DEF RequestInv
    <3>4. CASE CrashAtPeer(q, h)
      <4>0. UNCHANGED <<front, hop, body, execs, own502>>
        BY <1>1
      <4> USE <2>1, <3>1, <3>4, <4>0 DEF RequestInv, RequestType, Active, CrashAtPeer
      <4>1. CopyInv(q)'
        BY DEF CopyInv
      <4>2. TruthInv(q)'
        BY DEF TruthInv, CopyInv
      <4>. QED
        BY <3>2, <4>1, <4>2 DEF RequestInv
    <3>. QED
      BY <2>3, <3>3, <3>4
  <2>. QED
    BY <1>2, <2>2, <2>3
<1>. QED
  BY <1>3, <1>4 DEF WalkInv

(* Other events of the environment, and a session that a dial evicts, do   *)
(* not touch what there is to a request.                                   *)
SameRequests ==
  UNCHANGED <<pc, ans, via, front, hop, peers, idx, body, execs, late, cuts, own502, stopped,
              tried>>

EnvironmentStep ==
  \/ \E r \in Requests, s \in Sessions : DialEvict(r, s)
  \/ \E s \in Sessions, h \in Hubs : Connect(s, h)
  \/ \E s \in Sessions : SessionBreak(s) \/ SessionDetect(s)
  \/ \E h \in Hubs : HubStart(h) \/ EndpointsSync(h)
  \/ ClusterChange

LEMMA EnvironmentSame == ASSUME WalkInv, EnvironmentStep PROVE TypeOK' /\ SameRequests
<1>0. TypeOK
  BY DEF WalkInv
<1>1. TypeOK' /\ SameRequests
  <2> USE DEF SameRequests, hubVars, poolVars, walkVars, legVars, histVars, countVars
  <2>1. ASSUME NEW r \in Requests, NEW s \in Sessions, DialEvict(r, s)
        PROVE  TypeOK' /\ SameRequests
    <3>1. hop[r] \in Hubs
      BY <2>1 DEF WalkInv, RequestInv, PhaseInv, DialEvict
    <3>2. /\ sess' \in [Sessions -> {"new", "open", "broken", "closed"}]
          /\ pool' \in [Hubs -> SUBSET Sessions]
      BY <1>0, <2>1, <3>1 DEF TypeOK, DialEvict
    <3>3. steady' \in [Requests -> SUBSET Sessions]
      BY <1>0, <2>1, TrackType DEF DialEvict
    <3>4. faults' \in 0..MaxFaults
      <4>1. Fault \/ faults' = faults
        BY <2>1 DEF DialEvict
      <4>2. faults \in 0..MaxFaults
        BY <1>0 DEF TypeOK
      <4>. QED
        BY <1>0, <4>1, <4>2, FaultType
    <3>. QED
      BY <1>0, <2>1, <3>2, <3>3, <3>4 DEF TypeOK, DialEvict
  <2>2. ASSUME NEW s \in Sessions, NEW h \in Hubs, Connect(s, h)
        PROVE  TypeOK' /\ SameRequests
    <3>1. /\ sess' \in [Sessions -> {"new", "open", "broken", "closed"}]
          /\ pool' \in [Hubs -> SUBSET Sessions]
      BY <1>0, <2>2 DEF TypeOK, Connect
    <3>. QED
      BY <1>0, <2>2, <3>1 DEF TypeOK, Connect
  <2>3. ASSUME NEW s \in Sessions, SessionBreak(s)
        PROVE  TypeOK' /\ SameRequests
    <3>1. steady' \in [Requests -> SUBSET Sessions] /\ faults' \in 0..MaxFaults
      BY <1>0, <2>3, TrackType, FaultType DEF SessionBreak
    <3>. QED
      BY <1>0, <2>3, <3>1 DEF TypeOK, SessionBreak
  <2>4. ASSUME NEW s \in Sessions, SessionDetect(s)
        PROVE  TypeOK' /\ SameRequests
    BY <1>0, <2>4 DEF TypeOK, SessionDetect
  <2>5. ASSUME NEW h \in Hubs, HubStart(h)
        PROVE  TypeOK' /\ SameRequests
    BY <1>0, <2>5 DEF TypeOK, HubStart
  <2>6. ASSUME NEW h \in Hubs, EndpointsSync(h)
        PROVE  TypeOK' /\ SameRequests
    <3>1. steady' \in [Requests -> SUBSET Sessions]
      BY <1>0, <2>6, TrackType DEF EndpointsSync
    <3>2. endpoints' \subseteq Hubs
      BY <1>0, <2>6 DEF TypeOK, EndpointsSync
    <3>. QED
      BY <1>0, <2>6, <3>1, <3>2 DEF TypeOK, EndpointsSync
  <2>7. CASE ClusterChange
    BY <1>0, <2>7 DEF TypeOK, ClusterChange
  <2>. QED
    BY <2>1, <2>2, <2>3, <2>4, <2>5, <2>6, <2>7 DEF EnvironmentStep
<1>. QED
  BY <1>1

LEMMA EnvironmentWalk == ASSUME WalkInv, EnvironmentStep PROVE WalkInv'
<1>1. TypeOK' /\ SameRequests
  BY EnvironmentSame
<1>2. ASSUME NEW q \in Requests PROVE RequestInv(q)'
  BY <1>1, SameKeeps DEF SameRequests, SameStage, SameWalk, SameCount
<1>. QED
  BY <1>1, <1>2 DEF WalkInv

LEMMA NextWalk == WalkInv /\ [Next]_vars => WalkInv'
<1> SUFFICES ASSUME WalkInv, [Next]_vars PROVE WalkInv'
  OBVIOUS
<1>1. ASSUME NEW r \in Requests, HubStep(r) \/ MemberStep(r)
      PROVE  WalkInv'
  <2>1. ASSUME NEW s \in Sessions, DialEvict(r, s) PROVE WalkInv'
    BY <2>1, EnvironmentWalk DEF EnvironmentStep
  <2>2. ASSUME NEW s \in Sessions, OpenStream(r, s) PROVE WalkInv'
    BY <2>2, OpenStreamWalk
  <2>3. CASE GetCluster(r) \/ NoSession(r) \/ StreamError(r)
    BY <2>3, GetClusterWalk, NoSessionWalk, StreamErrorWalk
  <2>4. CASE AbortResponse(r) \/ Respond(r)
    BY <2>4, ResponseWalk
  <2>5. CASE ErrorHandler(r) \/ TryNextPeer(r)
    BY <2>5, ErrorHandlerWalk, TryNextPeerWalk
  <2>6. CASE Execute(r) \/ MemberBadGateway(r) \/ AgentBadGateway(r)
    BY <2>6, ExecuteWalk, MemberBadGatewayWalk, AgentBadGatewayWalk
  <2>. QED
    BY <1>1, <2>1, <2>2, <2>3, <2>4, <2>5, <2>6 DEF HubStep, MemberStep
<1>2. ASSUME NEW r \in Requests, LateExecute(r) \/ ClientCancel(r) \/ \E h \in Hubs : Arrive(r, h)
      PROVE  WalkInv'
  BY <1>2, ExecuteWalk, ClientCancelWalk, ArriveWalk
<1>3. ASSUME NEW h \in Hubs, HubCrash(h) PROVE WalkInv'
  BY <1>3, HubCrashWalk
<1>4. CASE EnvironmentStep
  BY <1>4, EnvironmentWalk
<1>5. CASE UNCHANGED vars
  <2>1. TypeOK' /\ SameRequests
    BY <1>5 DEF WalkInv, TypeOK, SameRequests, vars, hubVars, poolVars, walkVars, legVars,
                histVars, countVars
  <2>2. ASSUME NEW q \in Requests PROVE RequestInv(q)'
    BY <2>1, SameKeeps DEF SameRequests, SameStage, SameWalk, SameCount
  <2>. QED
    BY <2>1, <2>2 DEF WalkInv
<1>6. ASSUME Environment PROVE WalkInv'
  BY <1>6, <1>2, <1>3, <1>4 DEF Environment, EnvironmentStep
<1>. QED
  BY <1>1, <1>5, <1>6 DEF Next

LEMMA WalkInvariant == Spec => []WalkInv
<1>1. Init => WalkInv
  BY InitIInv DEF IInv
<1>. QED
  BY <1>1, NextWalk, PTL DEF Spec

-----------------------------------------------------------------------------
(* What the walk along the hubs does to a request.                         *)

(* Hubs, sessions and requests keep their types.                           *)
THEOREM TypeCorrect == Spec => []TypeOK
<1>1. WalkInv => TypeOK
  BY DEF WalkInv
<1>. QED
  BY <1>1, WalkInvariant, PTL

(* No hub dials a session for the same request twice, however many         *)
(* replicas there are and in whatever order and state the Endpoints object *)
(* lists them.                                                             *)
THEOREM HubsTriedOnce == Spec => []EachHubTriedOnce
<1>1. WalkInv => EachHubTriedOnce
  BY DEF WalkInv, RequestInv, TriedInv, EachHubTriedOnce
<1>. QED
  BY <1>1, WalkInvariant, PTL

(* A request with a body is executed once at most by the member cluster.   *)
THEOREM BodiedExecutedOnce == Spec => []BodiedAtMostOnce
<1>1. ASSUME WalkInv, NEW r \in Requests, body[r] # "none" PROVE Copies(r) <= 1
  <2>1. RequestType(r) /\ CopyInv(r)
    BY <1>1, RequestTypes DEF WalkInv, RequestInv
  <2>. QED
    BY <1>1, <2>1 DEF RequestType, CopyInv, Copies
<1>2. WalkInv => BodiedAtMostOnce
  BY <1>1 DEF BodiedAtMostOnce
<1>. QED
  BY <1>2, WalkInvariant, PTL

(* The hubs repeat a request only after a round trip that was cut, or      *)
(* after a 502 of the member's own that came by a peer.                    *)
THEOREM RepeatsOnlyFailures == Spec => []RepeatedOnlyAfterFailure
<1>1. ASSUME WalkInv, NEW r \in Requests PROVE Copies(r) <= 1 + cuts[r] + own502[r]
  <2>1. RequestType(r) /\ CopyInv(r)
    BY <1>1, RequestTypes DEF WalkInv, RequestInv
  <2>. QED
    BY <2>1 DEF RequestType, CopyInv, Copies
<1>2. WalkInv => RepeatedOnlyAfterFailure
  BY <1>1 DEF RepeatedOnlyAfterFailure
<1>. QED
  BY <1>2, WalkInvariant, PTL

(* An answer tells the truth about what the member cluster has executed:   *)
(* behind an error there are only copies that were cut, or that the member *)
(* itself answered with 502.                                               *)
THEOREM AnswersTruthful == Spec => []AnswerTruthful
<1>1. ASSUME WalkInv, NEW r \in Requests, pc[r] = "done"
      PROVE  /\ ans[r] = "ok" => execs[r] > 0
             /\ ans[r] \in {"404", "500", "502"} => Copies(r) <= cuts[r] + own502[r]
  <2>1. RequestType(r) /\ TruthInv(r)
    BY <1>1, RequestTypes DEF WalkInv, RequestInv
  <2>. QED
    BY <1>1, <2>1 DEF RequestType, TruthInv, Copies
<1>2. WalkInv => AnswerTruthful
  BY <1>1 DEF AnswerTruthful
<1>. QED
  BY <1>2, WalkInvariant, PTL

-----------------------------------------------------------------------------
(* The pools and the steady sessions.                                      *)

(* Nothing happens to request q, and sessions of it at most go.            *)
Untouched(q) ==
  /\ SameStage(q) /\ SameWalk(q) /\ SameCount(q)
  /\ stopped'[q] = stopped[q] /\ steady'[q] \subseteq steady[q]

(* Then, if its sessions are still usable and no pool has another of them, *)
(* what holds of it goes on to hold.                                       *)
LEMMA UntouchedKeeps ==
  ASSUME NEW q \in Requests, SteadyInv(q), RefusedInv(q), Untouched(q),
         Active(q) => /\ steady'[q] \subseteq Usable'
                      /\ \A h \in Hubs : pool'[h] \cap steady'[q] \subseteq pool[h]
  PROVE  SteadyInv(q)' /\ RefusedInv(q)'
<1> USE DEF Untouched, SameStage, SameWalk, SameCount
<1>1. RefusedInv(q)'
  BY DEF RefusedInv, Unharmed
<1>2. Active(q)' = Active(q) /\ AtPeer(q)' = AtPeer(q)
  BY DEF Active, AtPeer
<1>3. Passed(q)' = Passed(q)
  BY <1>2 DEF Passed
<1>4. ASSUME Active(q) PROVE SteadyInv(q)'
  <2>1. \A h \in Hubs : pool'[h] \cap steady'[q] \subseteq pool[h] \cap steady[q]
    BY <1>4
  <2>2. Passed(q) \subseteq Hubs
    BY DEF Passed
  <2>3. Unharmed(q)' => \A h \in Passed(q) : pool'[h] \cap steady'[q] = {}
    BY <1>4, <2>1, <2>2 DEF SteadyInv, Unharmed
  <2>4. ASSUME NEW h \in Hubs, pc[q] = "next" \/ AtPeer(q), pool'[h] \cap steady'[q] # {}
        PROVE  h = front[q] \/ \E j \in 1..Len(peers[q]) : peers[q][j] = h
    <3>1. pool[h] \cap steady[q] # {}
      BY <2>1, <2>4
    <3>. QED
      BY <1>4, <2>4, <3>1 DEF SteadyInv
  <2>. QED
    BY <1>2, <1>3, <1>4, <2>3, <2>4 DEF SteadyInv
<1>. QED
  BY <1>1, <1>2, <1>4 DEF SteadyInv

(* Steps of one request, which leave hubs, sessions and other requests     *)
(* alone.                                                                  *)
QuietStep(r) ==
  \/ GetCluster(r) \/ NoSession(r) \/ StreamError(r) \/ AbortResponse(r)
  \/ ErrorHandler(r) \/ TryNextPeer(r) \/ \E s \in Sessions : OpenStream(r, s)
  \/ Execute(r) \/ Respond(r) \/ MemberBadGateway(r) \/ AgentBadGateway(r)
  \/ LateExecute(r) \/ ClientCancel(r) \/ \E h \in Hubs : Arrive(r, h)

SamePools == UNCHANGED <<hubUp, endpoints, sess, pool>>

Alone(r) == SamePools /\ \A q \in Requests : q # r => Untouched(q)

LEMMA QuietAlone ==
  ASSUME TypeOK, NEW r \in Requests, QuietStep(r)
  PROVE  Alone(r)
<1> DEFINE Same(f, g) == \A q \in Requests : q # r => g[q] = f[q]
<1>1. SamePools
  BY DEF QuietStep, SamePools, GetCluster, NoSession, StreamError, AbortResponse, ErrorHandler,
         TryNextPeer, OpenStream, Execute, Respond, MemberBadGateway, AgentBadGateway, LateExecute,
         ClientCancel, Arrive, hubVars, poolVars
<1>2. Same(pc, pc') /\ Same(ans, ans')
  <2>1. CASE \E l, a, v : Moved(r, l, a, v)
    BY <2>1 DEF TypeOK, Moved
  <2>2. CASE UNCHANGED ans /\ \E l : pc' = [pc EXCEPT ![r] = l]
    BY <2>2 DEF TypeOK
  <2>3. CASE UNCHANGED <<pc, ans>>
    BY <2>3
  <2>4. GetCluster(r) => \E l, a, v : Moved(r, l, a, v)
    BY GotoMoves, AnswerMoves DEF GetCluster
  <2>5. NoSession(r) \/ StreamError(r) => \E l, a, v : Moved(r, l, a, v)
    BY RoundTripErrorMoves DEF NoSession, StreamError
  <2>6. AbortResponse(r) \/ Respond(r) \/ MemberBadGateway(r) \/ AgentBadGateway(r)
            \/ ClientCancel(r)
          => \E l, a, v : Moved(r, l, a, v)
    BY FinishMoves, AnswerMoves
       DEF AbortResponse, Respond, MemberBadGateway, AgentBadGateway, ClientCancel
  <2>7. ErrorHandler(r) \/ TryNextPeer(r) => \E l, a, v : Moved(r, l, a, v)
    BY FinishMoves, GotoMoves DEF ErrorHandler, TryNextPeer
  <2>8. ASSUME NEW s \in Sessions, OpenStream(r, s) PROVE Same(pc, pc') /\ Same(ans, ans')
    BY <2>8, <2>2 DEF OpenStream
  <2>9. ASSUME NEW h \in Hubs, Arrive(r, h) PROVE Same(pc, pc') /\ Same(ans, ans')
    BY <2>9, <2>2 DEF Arrive
  <2>10. CASE Execute(r)
    BY <2>10, <2>2 DEF Execute
  <2>11. CASE LateExecute(r)
    BY <2>11, <2>3 DEF LateExecute
  <2> HIDE DEF Same
  <2>. QED
    BY <2>1, <2>4, <2>5, <2>6, <2>7, <2>8, <2>9, <2>10, <2>11 DEF QuietStep
<1>3. Same(front, front') /\ Same(hop, hop')
  BY DEF TypeOK, QuietStep, GetCluster, NoSession, StreamError, AbortResponse, ErrorHandler,
         TryNextPeer, OpenStream, Execute, Respond, MemberBadGateway, AgentBadGateway, LateExecute,
         ClientCancel, Arrive, walkVars
<1>4. Same(peers, peers') /\ Same(idx, idx')
  BY DEF TypeOK, QuietStep, GetCluster, NoSession, StreamError, AbortResponse, ErrorHandler,
         TryNextPeer, OpenStream, Execute, Respond, MemberBadGateway, AgentBadGateway, LateExecute,
         ClientCancel, Arrive, walkVars, Advance
<1>5. Same(body, body') /\ Same(tried, tried')
  BY DEF TypeOK, QuietStep, GetCluster, NoSession, StreamError, AbortResponse, ErrorHandler,
         TryNextPeer, OpenStream, Execute, Respond, MemberBadGateway, AgentBadGateway, LateExecute,
         ClientCancel, Arrive, legVars, histVars, countVars, SpendBody, CountDial
<1>6. Same(execs, execs') /\ Same(late, late')
  BY DEF TypeOK, QuietStep, GetCluster, NoSession, StreamError, AbortResponse, ErrorHandler,
         TryNextPeer, OpenStream, Execute, Respond, MemberBadGateway, AgentBadGateway, LateExecute,
         ClientCancel, Arrive, histVars, countVars, MayStraggle
<1>7. Same(cuts, cuts') /\ Same(own502, own502') /\ Same(stopped, stopped') /\ Same(steady, steady')
  BY DEF TypeOK, QuietStep, GetCluster, NoSession, StreamError, AbortResponse, ErrorHandler,
         TryNextPeer, OpenStream, Execute, Respond, MemberBadGateway, AgentBadGateway, LateExecute,
         ClientCancel, Arrive, histVars, countVars
<1>. QED
  BY <1>1, <1>2, <1>3, <1>4, <1>5, <1>6, <1>7
     DEF Alone, Untouched, SameStage, SameWalk, SameCount

LEMMA SamePoolsKeeps ==
  ASSUME SamePools
  PROVE  Usable' = Usable /\ (PoolInv => PoolInv')
BY DEF SamePools, Usable, PoolInv

(* A request moves on, and no session of its is on another hub that has    *)
(* turned it away, as long as it is unharmed.                              *)
LEMMA MovesOn ==
  ASSUME NEW r \in Requests, SteadyInv(r), Active(r), SamePools,
         steady'[r] = steady[r], front'[r] = front[r], peers'[r] = peers[r],
         Unharmed(r)' => Unharmed(r) /\ \A h \in Passed(r)' : h \in Passed(r) \/ pool[h] = {},
         pc'[r] = "next" \/ AtPeer(r)' => pc[r] = "next" \/ AtPeer(r)
  PROVE  SteadyInv(r)'
<1>1. Usable' = Usable /\ pool' = pool
  BY SamePoolsKeeps DEF SamePools
<1>2. steady'[r] \subseteq Usable'
  BY <1>1 DEF SteadyInv
<1>3. ASSUME Unharmed(r)', NEW h \in Passed(r)' PROVE pool'[h] \cap steady'[r] = {}
  BY <1>1, <1>3 DEF SteadyInv
<1>4. ASSUME pc'[r] = "next" \/ AtPeer(r)', NEW h \in Hubs, pool'[h] \cap steady'[r] # {}
      PROVE  h = front'[r] \/ \E j \in 1..Len(peers'[r]) : peers'[r][j] = h
  BY <1>1, <1>4 DEF SteadyInv
<1>. QED
  BY <1>2, <1>3, <1>4 DEF SteadyInv

(* What turns a request away has no session, when the request has not been *)
(* sent.                                                                   *)
LEMMA NoSessionSteady ==
  ASSUME IInv, WalkInv', NEW r \in Requests, NoSession(r)
  PROVE  SteadyInv(r)' /\ RefusedInv(r)'
<1>1. /\ TypeOK /\ PhaseInv(r) /\ RequestType(r) /\ SteadyInv(r)
      /\ pc[r] = "dial" /\ pool[hop[r]] = {} /\ hop[r] \in Hubs /\ Active(r)
      /\ SamePools /\ UNCHANGED <<front, hop, peers, idx, cuts, own502, steady>>
  BY RequestTypes DEF IInv, WalkInv, RequestInv, PhaseInv, NoSession, SamePools, hubVars, poolVars,
     walkVars, Active
<1>2. PICK l \in {"next", "error"} : Moved(r, l, ans[r], None) /\ (l = "next" <=> AtPeer(r))
  BY <1>1, RoundTripErrorMoves DEF NoSession
<1>3. pc'[r] = l
  BY <1>1, <1>2 DEF TypeOK, Moved
<1>4. RefusedInv(r)'
  <2>1. pc'[r] # "done"
    BY <1>3
  <2>2. ans'[r] = None
    BY <2>1 DEF WalkInv, RequestInv, PhaseInv
  <2>. QED
    BY <2>2, HubProxyAssumption DEF RefusedInv
<1>5. ASSUME NEW h \in Passed(r)' PROVE h \in Passed(r) \/ h = hop[r]
  <2>1. h \in Hubs
    BY DEF Passed
  <2>2. CASE hop[r] = front[r]
    BY <1>1, <2>2 DEF Passed, PhaseInv
  <2>3. CASE hop[r] # front[r]
    <3>1. idx[r] \in 1..Len(peers[r]) /\ hop[r] = peers[r][idx[r]]
      BY <1>1, <2>3 DEF PhaseInv
    <3>2. CASE h = front[r]
      BY <1>1, <2>1, <2>3, <3>2 DEF Passed, AtPeer
    <3>3. CASE \E j \in 1..idx[r] : h = peers[r][j]
      <4>1. PICK j \in 1..idx[r] : h = peers[r][j]
        BY <3>3
      <4>2. j < idx[r] \/ j = idx[r]
        BY <1>1 DEF RequestType
      <4>. QED
        BY <2>1, <3>1, <4>1, <4>2 DEF Passed
    <3>. QED
      BY <1>1, <3>2, <3>3 DEF Passed
  <2>. QED
    BY <2>2, <2>3
<1>6. pc'[r] = "next" \/ AtPeer(r)' => AtPeer(r)
  BY <1>1, <1>2, <1>3 DEF AtPeer
<1>7. \A h \in Passed(r)' : h \in Passed(r) \/ pool[h] = {}
  BY <1>1, <1>5
<1>8. SteadyInv(r)'
  BY <1>1, <1>6, <1>7, MovesOn DEF Unharmed
<1>. QED
  BY <1>4, <1>8

(* A round trip that was cut excuses everything, and so does a 502 of the  *)
(* member.                                                                 *)
LEMMA HarmedSteady ==
  ASSUME IInv, WalkInv', NEW r \in Requests,
         StreamError(r) \/ MemberBadGateway(r) \/ AgentBadGateway(r)
  PROVE  SteadyInv(r)' /\ RefusedInv(r)'
<1>1. /\ TypeOK /\ RequestType(r) /\ SteadyInv(r) /\ Active(r)
      /\ SamePools /\ UNCHANGED <<front, hop, peers, idx, steady>>
      /\ \/ cuts' = [cuts EXCEPT ![r] = @ + 1]
         \/ own502' = [own502 EXCEPT ![r] = @ + 1]
  BY RequestTypes DEF IInv, WalkInv, StreamError, MemberBadGateway, AgentBadGateway, SamePools,
     hubVars, poolVars, walkVars, Active
<1>2. ~Unharmed(r)'
  BY <1>1 DEF TypeOK, Unharmed
<1>3. RefusedInv(r)'
  BY <1>2 DEF RefusedInv
<1>4. CASE pc'[r] = "done"
  BY <1>3, <1>4 DEF SteadyInv, Active
<1>5. CASE pc'[r] # "done"
  <2>1. pc'[r] = "next" => AtPeer(r)
    <3>1. \/ \E l : Moved(r, l, ans[r], None) /\ (l = "next" => AtPeer(r))
          \/ Moved(r, "done", "502", None)
      BY <1>1, RoundTripErrorMoves, AnswerMoves
         DEF StreamError, MemberBadGateway, AgentBadGateway
    <3>. QED
      BY <1>1, <1>5, <3>1 DEF TypeOK, Moved
  <2>2. AtPeer(r)' => AtPeer(r)
    BY <1>1 DEF AtPeer
  <2>3. SteadyInv(r)'
    BY <1>1, <1>2, <2>1, <2>2, MovesOn
  <2>. QED
    BY <1>3, <2>3
<1>. QED
  BY <1>4, <1>5

(* Every steady session is on a ready hub: the front or one of the peers   *)
(* that it lists.                                                          *)
LEMMA ErrorHandlerSteady ==
  ASSUME IInv, WalkInv', NEW r \in Requests, ErrorHandler(r)
  PROVE  SteadyInv(r)' /\ RefusedInv(r)'
<1>1. /\ TypeOK /\ PhaseInv(r) /\ SteadyInv(r) /\ PoolInv /\ Active(r)
      /\ pc[r] = "error" /\ hop[r] = front[r] /\ front[r] \in Hubs
      /\ SamePools /\ UNCHANGED <<front, hop, cuts, own502, steady>>
  BY DEF IInv, WalkInv, RequestInv, PhaseInv, ErrorHandler, SamePools, hubVars, poolVars,
     histVars, countVars, Active
<1>2. CASE Finish(r, "500")
  <2>1. pc'[r] = "done" /\ ans'[r] = "500"
    BY <1>1, <1>2, FinishMoves DEF TypeOK, Moved
  <2>. QED
    BY <2>1 DEF SteadyInv, RefusedInv, Active
<1>3. ASSUME NEW list \in ListPeers(front[r]),
             peers' = [peers EXCEPT ![r] = list], idx' = [idx EXCEPT ![r] = 0], Goto(r, "next")
      PROVE  SteadyInv(r)' /\ RefusedInv(r)'
  <2>1. pc'[r] = "next" /\ peers'[r] = list /\ idx'[r] = 0 /\ ans'[r] = ans[r] /\ ans[r] = None
    BY <1>1, <1>3, GotoMoves DEF TypeOK, Moved, PhaseInv
  <2>2. RefusedInv(r)'
    BY <2>1, HubProxyAssumption DEF RefusedInv
  <2>3. Passed(r)' = {front[r]} /\ front[r] \in Passed(r)
    BY <1>1, <2>1 DEF Passed, AtPeer
  <2>4. Usable' = Usable /\ pool' = pool
    BY <1>1, SamePoolsKeeps DEF SamePools
  <2>5. \A x \in endpoints \ {front[r]} : \E j \in 1..Len(list) : list[j] = x
    BY <1>1, ListPeersProperties
  <2>6. ASSUME NEW h \in Hubs, pool[h] \cap steady[r] # {}
        PROVE  h = front[r] \/ \E j \in 1..Len(list) : list[j] = h
    <3>1. PICK s \in Sessions : s \in pool[h] /\ s \in steady[r]
      BY <1>1, <2>6 DEF TypeOK
    <3>2. PICK k \in endpoints : s \in pool[k]
      BY <1>1, <3>1 DEF SteadyInv, Usable
    <3>3. k = h
      BY <1>1, <3>1, <3>2 DEF PoolInv, TypeOK
    <3>. QED
      BY <2>5, <3>2, <3>3
  <2>7. steady'[r] \subseteq Usable'
    BY <1>1, <2>4 DEF SteadyInv
  <2>8. Unharmed(r)' => \A h \in Passed(r)' : pool'[h] \cap steady'[r] = {}
    BY <1>1, <2>3, <2>4 DEF SteadyInv, Unharmed
  <2>9. SteadyInv(r)'
    BY <1>1, <2>1, <2>4, <2>6, <2>7, <2>8 DEF SteadyInv
  <2>. QED
    BY <2>2, <2>9
<1>. QED
  BY <1>2, <1>3 DEF ErrorHandler

(* When no more peers are left, all hubs with a steady session have turned *)
(* the request away, which they do only without a session.                 *)
LEMMA TryNextPeerSteady ==
  ASSUME IInv, WalkInv', NEW r \in Requests, TryNextPeer(r)
  PROVE  SteadyInv(r)' /\ RefusedInv(r)'
<1>1. /\ TypeOK /\ RequestType(r) /\ PhaseInv(r) /\ ListInv(r) /\ SteadyInv(r) /\ Active(r)
      /\ pc[r] = "next" /\ front[r] \in Hubs
      /\ SamePools /\ UNCHANGED <<front, peers, body, cuts, own502, steady>>
  BY RequestTypes DEF IInv, WalkInv, RequestInv, PhaseInv, TryNextPeer, SamePools, hubVars,
     poolVars, Active
<1>2. CASE Finish(r, "500")
  <2>1. pc'[r] = "done" /\ ans'[r] = "500"
    BY <1>1, <1>2, FinishMoves DEF TypeOK, Moved
  <2>. QED
    BY <2>1 DEF SteadyInv, RefusedInv, Active
<1>3. CASE Finish(r, "502")
  <2>1. pc'[r] = "done"
    BY <1>1, <1>3, FinishMoves DEF TypeOK, Moved
  <2>2. SteadyInv(r)'
    BY <2>1 DEF SteadyInv, Active
  <2>3. CASE NoMorePeers(r)
    <3>1. idx[r] = Len(peers[r])
      BY <1>1, <2>3 DEF NoMorePeers, PhaseInv, RequestType
    <3>2. ASSUME Unharmed(r), NEW s \in steady[r] PROVE FALSE
      <4>1. PICK h \in Hubs : s \in pool[h]
        BY <1>1 DEF SteadyInv, Usable, TypeOK
      <4>2. h = front[r] \/ \E j \in 1..Len(peers[r]) : peers[r][j] = h
        BY <1>1, <4>1 DEF SteadyInv
      <4>3. h \in Passed(r)
        BY <1>1, <3>1, <4>2 DEF Passed
      <4>. QED
        BY <1>1, <3>2, <4>1, <4>3 DEF SteadyInv
    <3>. QED
      BY <1>1, <2>2, <3>2 DEF RefusedInv, Unharmed
  <2>4. CASE ~Resendable(r)
    BY <1>1, <2>2, <2>4 DEF RefusedInv, Resendable
  <2>5. CASE stopped' = [stopped EXCEPT ![r] = TRUE]
    BY <1>1, <2>2, <2>5 DEF RefusedInv, TypeOK
  <2>6. pc'[r] # "get"
    BY <2>1
  <2>7. NoMorePeers(r) \/ ~Resendable(r) \/ stopped' = [stopped EXCEPT ![r] = TRUE]
    <3>1. ~Goto(r, "get")
      BY <1>1, <2>6 DEF Goto, TypeOK
    <3>2. ~Finish(r, "500")
      BY <1>1, <1>3 DEF Finish, TypeOK
    <3>. QED
      BY <3>1, <3>2 DEF TryNextPeer
  <2>. QED
    BY <2>3, <2>4, <2>5, <2>7
<1>4. CASE /\ ~NoMorePeers(r) /\ Advance(r)
           /\ hop' = [hop EXCEPT ![r] = peers[r][idx[r] + 1]]
           /\ Goto(r, "get")
  <2>1. /\ pc'[r] = "get" /\ ans'[r] = ans[r] /\ ans[r] = None /\ idx'[r] = idx[r] + 1
        /\ hop'[r] = peers[r][idx[r] + 1]
    BY <1>1, <1>4, GotoMoves DEF TypeOK, Moved, Advance, PhaseInv
  <2>2. RefusedInv(r)'
    BY <2>1, HubProxyAssumption DEF RefusedInv
  <2>3. ASSUME NEW h \in Passed(r)' PROVE h \in Passed(r)
    <3>1. h \in Hubs
      BY DEF Passed
    <3>2. CASE h = front[r]
      BY <1>1, <3>1, <3>2 DEF Passed
    <3>3. CASE \E j \in 1..(idx[r] + 1) : h = peers[r][j] /\ j < idx[r] + 1
      <4>1. PICK j \in 1..(idx[r] + 1) : h = peers[r][j] /\ j < idx[r] + 1
        BY <3>3
      <4>2. j \in 1..idx[r]
        BY <1>1, <4>1 DEF RequestType
      <4>. QED
        BY <1>1, <3>1, <4>1, <4>2 DEF Passed
    <3>. QED
      BY <1>1, <2>1, <3>2, <3>3 DEF Passed
  <2>4. SteadyInv(r)'
    BY <1>1, <2>3, MovesOn DEF Unharmed
  <2>. QED
    BY <2>2, <2>4
<1>. QED
  BY <1>2, <1>3, <1>4 DEF TryNextPeer

(* A request arrives: the sessions that are usable now.                    *)
LEMMA ArriveSteady ==
  ASSUME IInv, NEW r \in Requests, NEW h \in Hubs, Arrive(r, h)
  PROVE  SteadyInv(r)' /\ RefusedInv(r)'
<1>1. /\ TypeOK /\ PhaseInv(r) /\ pc[r] = "idle" /\ ans[r] = None /\ idx[r] = 0
      /\ SamePools /\ UNCHANGED <<peers, idx, ans, cuts, own502>>
  BY DEF IInv, WalkInv, RequestInv, PhaseInv, Arrive, SamePools, hubVars, poolVars, countVars
<1>2. pc'[r] = "get" /\ front'[r] = h /\ hop'[r] = h /\ steady'[r] = Usable
  BY <1>1 DEF Arrive, TypeOK
<1>3. RefusedInv(r)'
  BY <1>1, HubProxyAssumption DEF RefusedInv
<1>4. Passed(r)' = {} /\ ~AtPeer(r)'
  BY <1>1, <1>2 DEF Passed, AtPeer
<1>5. Usable' = Usable
  BY <1>1, SamePoolsKeeps
<1>6. SteadyInv(r)'
  BY <1>2, <1>4, <1>5 DEF SteadyInv
<1>. QED
  BY <1>3, <1>6

(* The other steps of a request neither turn it away nor end it with 502.  *)
LEMMA OtherSteady ==
  ASSUME IInv, WalkInv', NEW r \in Requests,
         \/ GetCluster(r) \/ \E s \in Sessions : OpenStream(r, s)
         \/ Execute(r) \/ LateExecute(r)
         \/ AbortResponse(r) \/ Respond(r) \/ ClientCancel(r)
  PROVE  SteadyInv(r)' /\ RefusedInv(r)'
<1>0. TypeOK /\ SteadyInv(r) /\ RefusedInv(r) /\ (pc[r] # "done" => ans[r] = None)
  BY DEF IInv, WalkInv, RequestInv, PhaseInv
<1>1. /\ SamePools /\ UNCHANGED <<front, hop, peers, idx, cuts, own502, stopped, steady>>
      /\ body'[r] = "none" => body[r] = "none"
  <2>1. SamePools /\ UNCHANGED <<front, hop, peers, idx, cuts, own502, stopped, steady>>
    BY DEF GetCluster, OpenStream, Execute, LateExecute, AbortResponse, Respond, ClientCancel,
           SamePools, hubVars, poolVars, walkVars, histVars, countVars
  <2>2. SpendBody(r) \/ UNCHANGED body
    BY DEF GetCluster, OpenStream, Execute, LateExecute, AbortResponse, Respond, ClientCancel, legVars
  <2>. QED
    BY <1>0, <2>1, <2>2, SpendBodyType
<1>2. \/ pc'[r] = "done" /\ ans'[r] # "502"
      \/ pc'[r] \in {"dial", "sent", "executed"} /\ pc[r] \in {"get", "dial", "sent"} /\ ans'[r] = None
      \/ pc'[r] = pc[r] /\ ans'[r] = ans[r]
  <2>1. CASE GetCluster(r)
    <3>1. PICK l, a : /\ pc[r] = "get" /\ Moved(r, l, a, None)
                      /\ \/ l = "dial" /\ a = ans[r]
                         \/ l = "done" /\ a \in {"404", "500"}
      BY <1>0, <2>1, GotoMoves, AnswerMoves DEF GetCluster
    <3>2. pc'[r] = l /\ ans'[r] = a
      BY <1>0, <3>1 DEF Moved, TypeOK
    <3>. QED
      BY <1>0, <3>1, <3>2
  <2>2. CASE \E s \in Sessions : OpenStream(r, s)
    BY <1>0, <2>2 DEF OpenStream, TypeOK
  <2>3. CASE Execute(r)
    BY <1>0, <2>3 DEF Execute, TypeOK
  <2>4. CASE LateExecute(r)
    BY <2>4 DEF LateExecute
  <2>5. CASE AbortResponse(r) \/ Respond(r) \/ ClientCancel(r)
    BY <1>0, <2>5, FinishMoves, AnswerMoves
       DEF AbortResponse, Respond, ClientCancel, Moved, TypeOK
  <2>. QED
    BY <2>1, <2>2, <2>3, <2>4, <2>5
<1>3. CASE pc'[r] = "done" /\ ans'[r] # "502"
  BY <1>3 DEF SteadyInv, RefusedInv, Active
<1>4. CASE pc'[r] \in {"dial", "sent", "executed"} /\ pc[r] \in {"get", "dial", "sent"} /\ ans'[r] = None
  <2>1. RefusedInv(r)'
    BY <1>4, HubProxyAssumption DEF RefusedInv
  <2>2. AtPeer(r)' = AtPeer(r) /\ Active(r)
    BY <1>1, <1>4 DEF AtPeer, Active
  <2>3. Passed(r)' = Passed(r)
    BY <1>1, <1>4, <2>2 DEF Passed
  <2>4. SteadyInv(r)'
    BY <1>0, <1>1, <1>4, <2>2, <2>3, MovesOn DEF Unharmed
  <2>. QED
    BY <2>1, <2>4
<1>5. CASE pc'[r] = pc[r] /\ ans'[r] = ans[r]
  <2>1. RefusedInv(r)'
    BY <1>0, <1>1, <1>5 DEF RefusedInv, Unharmed
  <2>2. AtPeer(r)' = AtPeer(r) /\ Active(r)' = Active(r)
    BY <1>1, <1>5 DEF AtPeer, Active
  <2>3. Passed(r)' = Passed(r)
    BY <1>1, <1>5, <2>2 DEF Passed
  <2>4. CASE Active(r)
    BY <1>0, <1>1, <1>5, <2>1, <2>2, <2>3, <2>4, MovesOn DEF Unharmed
  <2>5. CASE ~Active(r)
    BY <2>1, <2>2, <2>5 DEF SteadyInv
  <2>. QED
    BY <2>4, <2>5
<1>. QED
  BY <1>2, <1>3, <1>4, <1>5

LEMMA QuietIInv == ASSUME IInv, NEW r \in Requests, QuietStep(r), WalkInv' PROVE IInv'
<1>1. TypeOK /\ PoolInv /\ \A q \in Requests : SteadyInv(q) /\ RefusedInv(q)
  BY DEF IInv, WalkInv
<1>2. Alone(r)
  BY <1>1, QuietAlone
<1>3. PoolInv' /\ Usable' = Usable /\ pool' = pool
  BY <1>1, <1>2, SamePoolsKeeps DEF Alone, SamePools
<1>4. ASSUME NEW q \in Requests, q # r PROVE SteadyInv(q)' /\ RefusedInv(q)'
  <2>1. Untouched(q)
    BY <1>2, <1>4 DEF Alone
  <2>2. Active(q) => steady'[q] \subseteq Usable'
    BY <1>1, <1>3, <2>1 DEF SteadyInv, Untouched
  <2>3. \A h \in Hubs : pool'[h] \cap steady'[q] \subseteq pool[h]
    BY <1>3
  <2>. QED
    BY <1>1, <2>1, <2>2, <2>3, UntouchedKeeps
<1>5. SteadyInv(r)' /\ RefusedInv(r)'
  BY NoSessionSteady, HarmedSteady, ErrorHandlerSteady, TryNextPeerSteady, ArriveSteady, OtherSteady
     DEF QuietStep
<1>. QED
  BY <1>3, <1>4, <1>5 DEF IInv

(* A step that only takes sessions from pools, and after which the history *)
(* is brought up to date.                                                  *)
LEMMA TrackKeeps ==
  ASSUME IInv, NEW q \in Requests, Track,
         SameStage(q), SameWalk(q), SameCount(q), stopped'[q] = stopped[q],
         \A h \in Hubs : pool'[h] \subseteq pool[h]
  PROVE  SteadyInv(q)' /\ RefusedInv(q)'
<1>1. steady'[q] = IF Active(q) THEN steady[q] \cap Usable' ELSE steady[q]
  BY DEF Track
<1>2. Untouched(q)
  BY <1>1 DEF Untouched
<1>3. Active(q) => steady'[q] \subseteq Usable'
  BY <1>1
<1>4. SteadyInv(q) /\ RefusedInv(q)
  BY DEF IInv
<1>. QED
  BY <1>2, <1>3, <1>4, UntouchedKeeps

(* A step that makes sessions usable at most, and none that is steady      *)
(* already.                                                                *)
LEMMA GrowthKeeps ==
  ASSUME IInv, NEW q \in Requests, SameRequests, UNCHANGED steady,
         Usable \subseteq Usable',
         \A h \in Hubs, s \in Usable : s \in pool'[h] => s \in pool[h]
  PROVE  SteadyInv(q)' /\ RefusedInv(q)'
<1>1. SteadyInv(q) /\ RefusedInv(q)
  BY DEF IInv
<1>2. Untouched(q)
  BY DEF Untouched, SameRequests, SameStage, SameWalk, SameCount
<1>3. Active(q) => /\ steady'[q] \subseteq Usable'
                   /\ \A h \in Hubs : pool'[h] \cap steady'[q] \subseteq pool[h]
  BY <1>1 DEF SteadyInv
<1>. QED
  BY <1>1, <1>2, <1>3, UntouchedKeeps

LEMMA EnvironmentIInv == ASSUME IInv, EnvironmentStep, WalkInv' PROVE IInv'
<1>0. TypeOK /\ PoolInv
  BY DEF IInv, WalkInv
<1> SUFFICES PoolInv' /\ \A q \in Requests : SteadyInv(q)' /\ RefusedInv(q)'
  BY DEF IInv
<1> DEFINE Goal == PoolInv' /\ \A q \in Requests : SteadyInv(q)' /\ RefusedInv(q)'
<1>1. ASSUME Track, SameRequests, \A h \in Hubs : pool'[h] \subseteq pool[h], PoolInv'
      PROVE  Goal
  BY <1>1, TrackKeeps DEF SameRequests, SameStage, SameWalk, SameCount
<1>2. ASSUME SameRequests, UNCHANGED steady, Usable \subseteq Usable',
             \A h \in Hubs, s \in Usable : s \in pool'[h] => s \in pool[h], PoolInv'
      PROVE  Goal
  BY <1>2, GrowthKeeps
<1> HIDE DEF Goal
<1> USE DEF hubVars, poolVars, walkVars, legVars, histVars, countVars
<1>3. ASSUME NEW r \in Requests, NEW s \in Sessions, DialEvict(r, s) PROVE Goal
  <2>1. hop[r] \in Hubs /\ s \in pool[hop[r]]
    BY <1>3 DEF IInv, WalkInv, RequestInv, PhaseInv, DialEvict
  <2>2. sess' = [sess EXCEPT ![s] = "closed"] /\ pool' = [pool EXCEPT ![hop[r]] = @ \ {s}]
    BY <1>3 DEF DialEvict
  <2>3. \A h \in Hubs : pool'[h] \subseteq pool[h]
    BY <1>0, <2>1, <2>2 DEF TypeOK
  <2>4. \A t \in Sessions : sess'[t] = "new" => sess[t] = "new"
    BY <1>0, <2>2 DEF TypeOK
  <2>5. PoolInv'
    BY <1>0, <2>3, <2>4 DEF PoolInv
  <2>6. Track /\ SameRequests
    BY <1>3 DEF DialEvict, SameRequests
  <2>. QED
    BY <1>1, <2>3, <2>5, <2>6
<1>4. ASSUME NEW s \in Sessions, NEW h \in Hubs, Connect(s, h) PROVE Goal
  <2>1. /\ sess[s] = "new" /\ sess' = [sess EXCEPT ![s] = "open"]
        /\ pool' = [pool EXCEPT ![h] = @ \cup {s}]
        /\ SameRequests /\ UNCHANGED <<hubUp, endpoints, steady>>
    BY <1>4 DEF Connect, SameRequests
  <2>2. \A k \in Hubs : s \notin pool[k]
    BY <1>0, <2>1 DEF PoolInv
  <2>3. /\ \A k \in Hubs : pool'[k] = IF k = h THEN pool[k] \cup {s} ELSE pool[k]
        /\ \A t \in Sessions : sess'[t] = IF t = s THEN "open" ELSE sess[t]
    BY <1>0, <2>1 DEF TypeOK
  <2>4. PoolInv'
    BY <1>0, <2>2, <2>3 DEF PoolInv
  <2>5. s \notin Usable
    BY <2>1 DEF Usable
  <2>6. Usable \subseteq Usable'
    BY <1>0, <2>1, <2>3, <2>5 DEF Usable, TypeOK
  <2>7. \A k \in Hubs, t \in Usable : t \in pool'[k] => t \in pool[k]
    BY <2>3, <2>5
  <2>. QED
    BY <1>2, <2>1, <2>4, <2>6, <2>7
<1>5. ASSUME NEW s \in Sessions, SessionBreak(s) PROVE Goal
  <2>1. sess[s] = "open" /\ sess' = [sess EXCEPT ![s] = "broken"] /\ UNCHANGED pool
    BY <1>5 DEF SessionBreak
  <2>2. PoolInv'
    BY <1>0, <2>1 DEF PoolInv, TypeOK
  <2>3. Track /\ SameRequests
    BY <1>5 DEF SessionBreak, SameRequests
  <2>. QED
    BY <1>1, <2>1, <2>2, <2>3
<1>6. ASSUME NEW s \in Sessions, SessionDetect(s) PROVE Goal
  <2>1. /\ sess[s] = "broken" /\ sess' = [sess EXCEPT ![s] = "closed"]
        /\ UNCHANGED <<hubUp, endpoints, pool, steady>> /\ SameRequests
    BY <1>6 DEF SessionDetect, SameRequests
  <2>2. PoolInv'
    BY <1>0, <2>1 DEF PoolInv, TypeOK
  <2>3. Usable \subseteq Usable'
    BY <1>0, <2>1 DEF Usable, TypeOK
  <2>. QED
    BY <1>2, <2>1, <2>2, <2>3
<1>7. ASSUME NEW h \in Hubs, HubStart(h) PROVE Goal
  <2>1. /\ hubUp' = [hubUp EXCEPT ![h] = TRUE]
        /\ UNCHANGED <<endpoints, sess, pool, steady>> /\ SameRequests
    BY <1>7 DEF HubStart, SameRequests
  <2>2. PoolInv'
    BY <1>0, <2>1 DEF PoolInv
  <2>3. Usable \subseteq Usable'
    BY <1>0, <2>1 DEF Usable, TypeOK
  <2>. QED
    BY <1>2, <2>1, <2>2, <2>3
<1>8. ASSUME NEW h \in Hubs, EndpointsSync(h) PROVE Goal
  <2>1. UNCHANGED <<sess, pool>> /\ Track /\ SameRequests
    BY <1>8 DEF EndpointsSync, SameRequests
  <2>2. PoolInv'
    BY <1>0, <2>1 DEF PoolInv
  <2>. QED
    BY <1>1, <2>1, <2>2
<1>9. ASSUME ClusterChange PROVE Goal
  <2>1. UNCHANGED <<hubUp, endpoints, sess, pool, steady>> /\ SameRequests
    BY <1>9 DEF ClusterChange, SameRequests
  <2>2. PoolInv' /\ Usable' = Usable
    BY <1>0, <2>1 DEF PoolInv, Usable
  <2>3. Usable \subseteq Usable' /\ \A h \in Hubs, s \in Usable : s \in pool'[h] => s \in pool[h]
    BY <2>1, <2>2
  <2>. QED
    BY <1>2, <2>1, <2>2, <2>3
<1>10. Goal
  BY <1>3, <1>4, <1>5, <1>6, <1>7, <1>8, <1>9 DEF EnvironmentStep
<1>. QED
  BY <1>10 DEF Goal

(* A crash takes all of the hub's sessions; it ends a request with 502     *)
(* only by making its peer unreachable.                                    *)
LEMMA HubCrashIInv == ASSUME IInv, NEW h \in Hubs, HubCrash(h), WalkInv' PROVE IInv'
<1>0. TypeOK /\ PoolInv
  BY DEF IInv, WalkInv
<1>1. /\ sess' = [s \in Sessions |-> IF s \in pool[h] THEN "closed" ELSE sess[s]]
      /\ pool' = [pool EXCEPT ![h] = {}] /\ Track
      /\ UNCHANGED <<front, hop, peers, idx, body, execs, own502, tried>>
  BY DEF HubCrash, walkVars
<1>2. \A k \in Hubs : pool'[k] \subseteq pool[k]
  BY <1>0, <1>1 DEF TypeOK
<1>3. \A s \in Sessions : sess'[s] = "new" => sess[s] = "new"
  BY <1>1
<1>4. PoolInv'
  BY <1>0, <1>2, <1>3 DEF PoolInv
<1>5. ASSUME NEW q \in Requests PROVE SteadyInv(q)' /\ RefusedInv(q)'
  <2>1. CASE CrashSpares(q)
    BY <1>1, <1>2, <2>1, TrackKeeps DEF CrashSpares, SameStage, SameWalk, SameCount
  <2>2. CASE CrashLoses(q, h)
    BY <2>2 DEF CrashLoses, SteadyInv, RefusedInv, Active
  <2>3. CASE CrashAtPeer(q, h)
    BY <2>3 DEF CrashAtPeer, SteadyInv, RefusedInv, Active
  <2>. QED
    BY <1>0, <2>1, <2>2, <2>3, HubCrashCases
<1>. QED
  BY <1>4, <1>5 DEF IInv

LEMMA NextIInv == IInv /\ [Next]_vars => IInv'
<1> SUFFICES ASSUME IInv, [Next]_vars PROVE IInv'
  OBVIOUS
<1>1. WalkInv'
  BY NextWalk DEF IInv
<1>2. ASSUME NEW r \in Requests, QuietStep(r) PROVE IInv'
  BY <1>1, <1>2, QuietIInv
<1>3. CASE EnvironmentStep
  BY <1>1, <1>3, EnvironmentIInv
<1>4. ASSUME NEW h \in Hubs, HubCrash(h) PROVE IInv'
  BY <1>1, <1>4, HubCrashIInv
<1>5. CASE UNCHANGED vars
  <2>1. /\ SamePools /\ UNCHANGED steady /\ SameRequests
    BY <1>5 DEF vars, hubVars, poolVars, walkVars, legVars, histVars, countVars, SamePools,
                SameRequests
  <2>2. PoolInv' /\ Usable' = Usable
    BY <2>1, SamePoolsKeeps DEF IInv
  <2>3. \A q \in Requests : SteadyInv(q)' /\ RefusedInv(q)'
    BY <2>1, <2>2, GrowthKeeps DEF SamePools
  <2>. QED
    BY <1>1, <2>2, <2>3 DEF IInv
<1>6. CASE \E r \in Requests : HubStep(r) \/ MemberStep(r)
  <2>1. PICK r \in Requests : HubStep(r) \/ MemberStep(r)
    BY <1>6
  <2>2. QuietStep(r) \/ \E s \in Sessions : DialEvict(r, s)
    BY <2>1 DEF HubStep, MemberStep, QuietStep
  <2>. QED
    BY <1>2, <1>3, <2>2 DEF EnvironmentStep
<1>7. CASE Environment
  BY <1>2, <1>3, <1>4, <1>7 DEF Environment, QuietStep, EnvironmentStep
<1>. QED
  BY <1>5, <1>6, <1>7 DEF Next

(* A request without a body is refused with 502 only when no session was   *)
(* usable all the time on a ready hub, or after a failure that it met: a   *)
(* peer out of reach, a cut, or a 502 of the member's own.                 *)
THEOREM RefusedOnlyWithoutSession == Spec => []NoNeedless502
<1>1. IInv => NoNeedless502
  BY DEF IInv, RefusedInv, Unharmed, NoNeedless502
<1>. QED
  BY <1>1, InitIInv, NextIInv, PTL DEF Spec

-----------------------------------------------------------------------------
(* The way of a request is finite, and so are its copies.                  *)

(* One step on the way of r: it ends; it arrives; it goes on at its hub;   *)
(* the front lists the peers; it goes to the next one; or it stays.        *)
Ends(r) ==
  /\ Active(r) /\ pc'[r] = "done"
  /\ front'[r] = front[r] /\ peers'[r] = peers[r] /\ idx'[r] \in {idx[r], idx[r] + 1}
  /\ Copies(r)' <= IF pc[r] \in {"get", "dial"} THEN Copies(r) + 1 ELSE Copies(r)

Arrives(r) ==
  /\ pc[r] = "idle" /\ pc'[r] = "get" /\ hop'[r] = front'[r]
  /\ peers'[r] = peers[r] /\ idx'[r] = idx[r] /\ Copies(r)' = Copies(r)

Dials(r)  == pc[r] = "dial" /\ pc'[r] = "sent" /\ Copies(r)' = Copies(r) + 1

Turns(r) ==
  /\ \/ pc[r] = "get" /\ pc'[r] = "dial"
     \/ pc[r] = "sent" /\ pc'[r] = "executed"
     \/ pc[r] \in {"get", "dial", "sent", "executed"} /\ AtPeer(r) /\ pc'[r] = "next"
     \/ pc[r] \in {"dial", "sent", "executed"} /\ ~AtPeer(r) /\ pc'[r] = "error"
  /\ Copies(r)' <= Copies(r)

Lists(r) ==
  /\ pc[r] = "error" /\ pc'[r] = "next" /\ front'[r] = front[r] /\ hop'[r] = hop[r]
  /\ idx'[r] = 0 /\ Copies(r)' = Copies(r)

Forwards(r) ==
  /\ pc[r] = "next" /\ pc'[r] = "get" /\ idx[r] < Len(peers[r])
  /\ hop'[r] = peers[r][idx[r] + 1] /\ idx'[r] = idx[r] + 1
  /\ front'[r] = front[r] /\ peers'[r] = peers[r] /\ Copies(r)' = Copies(r)

Stays(r) == pc'[r] = pc[r] /\ SameWalk(r) /\ Copies(r)' = Copies(r)

OnItsWay(r) ==
  Ends(r) \/ Arrives(r) \/ (SameWalk(r) /\ (Dials(r) \/ Turns(r))) \/ Lists(r) \/ Forwards(r) \/ Stays(r)

(* The copies, by the counters.                                            *)
LEMMA CopyCounts ==
  ASSUME TypeOK, NEW r \in Requests
  PROVE  /\ Copies(r) \in Nat
         /\ pc[r] = "sent" => Copies(r) = execs[r] + late[r] + 1
         /\ pc[r] # "sent" => Copies(r) = execs[r] + late[r]
<1>1. execs[r] \in Nat /\ late[r] \in Nat
  BY DEF TypeOK
<1>. QED
  BY <1>1 DEF Copies

(* ... before and after a step.                                            *)
CountsAre(r) ==
  /\ pc[r] = "sent" => Copies(r) = execs[r] + late[r] + 1
  /\ pc[r] # "sent" => Copies(r) = execs[r] + late[r]

LEMMA CountsHold == TypeOK => \A r \in Requests : CountsAre(r)
BY CopyCounts DEF CountsAre

LEMMA CountsHoldNext == TypeOK' => \A r \in Requests : CountsAre(r)'
<1>1. (TypeOK => \A r \in Requests : CountsAre(r))'
  BY CountsHold, PTL
<1>. QED
  BY <1>1

LEMMA CopyCountsBoth ==
  ASSUME TypeOK, TypeOK', NEW r \in Requests
  PROVE  /\ pc[r] = "sent" => Copies(r) = execs[r] + late[r] + 1
         /\ pc[r] # "sent" => Copies(r) = execs[r] + late[r]
         /\ pc'[r] = "sent" => Copies(r)' = execs'[r] + late'[r] + 1
         /\ pc'[r] # "sent" => Copies(r)' = execs'[r] + late'[r]
<1>1. CountsAre(r) /\ CountsAre(r)'
  BY CountsHold, CountsHoldNext
<1>. QED
  BY <1>1 DEF CountsAre

(* What a step of a request does to its stage and its copies.              *)
LEMMA QuietWay ==
  ASSUME WalkInv, WalkInv', NEW r \in Requests, QuietStep(r)
  PROVE  OnItsWay(r)
<1>1. TypeOK /\ TypeOK' /\ PhaseInv(r) /\ RequestType(r)
  BY RequestTypes DEF WalkInv, RequestInv
<1>2. /\ pc[r] = "sent" => Copies(r) = execs[r] + late[r] + 1
      /\ pc[r] # "sent" => Copies(r) = execs[r] + late[r]
      /\ pc'[r] = "sent" => Copies(r)' = execs'[r] + late'[r] + 1
      /\ pc'[r] # "sent" => Copies(r)' = execs'[r] + late'[r]
  BY <1>1, CopyCountsBoth
<1>3. /\ execs[r] \in Nat /\ late[r] \in Nat /\ execs'[r] \in Nat /\ late'[r] \in Nat
      /\ idx[r] \in Nat
  BY <1>1 DEF TypeOK
<1>4. ASSUME NEW l, NEW a, NEW v, Moved(r, l, a, v) PROVE pc'[r] = l
  BY <1>1, <1>4 DEF TypeOK, Moved
<1> USE DEF OnItsWay, Active
<1>5. CASE GetCluster(r)
  <2>1. /\ pc[r] = "get" /\ SameWalk(r) /\ execs'[r] = execs[r] /\ late'[r] = late[r]
        /\ pc'[r] = "dial" \/ pc'[r] = "done" \/ (pc'[r] = "next" /\ AtPeer(r))
    BY <1>1, <1>4, <1>5, GotoMoves, AnswerMoves
       DEF GetCluster, SameWalk, walkVars, histVars, countVars
  <2>. QED
    BY <1>2, <1>3, <2>1 DEF Ends, Turns, SameWalk
<1>6. ASSUME NEW s \in Sessions, OpenStream(r, s) PROVE OnItsWay(r)
  <2>1. /\ pc[r] = "dial" /\ pc'[r] = "sent" /\ SameWalk(r)
        /\ execs'[r] = execs[r] /\ late'[r] = late[r]
    BY <1>1, <1>6 DEF TypeOK, OpenStream, SameWalk, walkVars
  <2>. QED
    BY <1>2, <1>3, <2>1 DEF Dials
<1>7. CASE NoSession(r)
  <2>1. /\ pc[r] = "dial" /\ SameWalk(r) /\ execs'[r] = execs[r] /\ late'[r] = late[r]
        /\ (pc'[r] = "next" /\ AtPeer(r)) \/ (pc'[r] = "error" /\ ~AtPeer(r))
    BY <1>1, <1>4, <1>7, RoundTripErrorMoves DEF NoSession, SameWalk, walkVars
  <2>. QED
    BY <1>2, <1>3, <2>1 DEF Turns
<1>8. CASE StreamError(r)
  <2>1. /\ pc[r] \in {"sent", "executed"} /\ SameWalk(r) /\ execs'[r] = execs[r]
        /\ pc[r] = "sent" => late'[r] = late[r] \/ late'[r] = late[r] + 1
        /\ pc[r] # "sent" => late'[r] = late[r]
    BY <1>1, <1>8, MayStraggleType DEF StreamError, SameWalk, walkVars
  <2>2. (pc'[r] = "next" /\ AtPeer(r)) \/ (pc'[r] = "error" /\ ~AtPeer(r))
    BY <1>1, <1>4, <1>8, RoundTripErrorMoves DEF StreamError
  <2>. QED
    BY <1>2, <1>3, <2>1, <2>2 DEF Turns
<1>9. CASE AbortResponse(r) \/ Respond(r) \/ MemberBadGateway(r)
  <2>1. /\ pc[r] = "executed" /\ SameWalk(r) /\ execs'[r] = execs[r] /\ late'[r] = late[r]
        /\ pc'[r] = "done" \/ (pc'[r] = "next" /\ AtPeer(r))
    BY <1>1, <1>4, <1>9, FinishMoves, AnswerMoves
       DEF AbortResponse, Respond, MemberBadGateway, SameWalk, walkVars, histVars, countVars
  <2>. QED
    BY <1>2, <1>3, <2>1 DEF Ends, Turns, SameWalk
<1>10. CASE AgentBadGateway(r)
  <2>1. /\ pc[r] = "sent" /\ SameWalk(r) /\ execs'[r] = execs[r]
        /\ late'[r] = late[r] \/ late'[r] = late[r] + 1
        /\ pc'[r] = "done" \/ (pc'[r] = "next" /\ AtPeer(r))
    BY <1>1, <1>4, <1>10, AnswerMoves, MayStraggleType DEF AgentBadGateway, SameWalk, walkVars
  <2>. QED
    BY <1>2, <1>3, <2>1 DEF Ends, Turns, SameWalk
<1>11. CASE ErrorHandler(r)
  <2>1. /\ pc[r] = "error" /\ front'[r] = front[r] /\ hop'[r] = hop[r]
        /\ execs'[r] = execs[r] /\ late'[r] = late[r]
        /\ \/ pc'[r] = "next" /\ idx'[r] = 0
           \/ pc'[r] = "done" /\ peers'[r] = peers[r] /\ idx'[r] = idx[r]
    BY <1>1, <1>4, <1>11, GotoMoves, FinishMoves DEF TypeOK, ErrorHandler, histVars, countVars
  <2>. QED
    BY <1>2, <1>3, <2>1 DEF Ends, Lists
<1>12. CASE TryNextPeer(r)
  <2>1. /\ pc[r] = "next" /\ front'[r] = front[r] /\ peers'[r] = peers[r]
        /\ execs'[r] = execs[r] /\ late'[r] = late[r]
    BY <1>12 DEF TryNextPeer
  <2>2. \/ pc'[r] = "done" /\ idx'[r] \in {idx[r], idx[r] + 1}
        \/ /\ pc'[r] = "get" /\ ~NoMorePeers(r)
           /\ hop'[r] = peers[r][idx[r] + 1] /\ idx'[r] = idx[r] + 1
    BY <1>1, <1>4, <1>12, GotoMoves, FinishMoves DEF TypeOK, TryNextPeer, Advance
  <2>3. ~NoMorePeers(r) => idx[r] < Len(peers[r])
    BY <1>1 DEF NoMorePeers, RequestType
  <2>. QED
    BY <1>2, <1>3, <2>1, <2>2, <2>3 DEF Ends, Forwards
<1>13. CASE Execute(r)
  <2>1. /\ pc[r] = "sent" /\ pc'[r] = "executed" /\ SameWalk(r)
        /\ execs'[r] = execs[r] + 1 /\ late'[r] = late[r]
    BY <1>1, <1>13 DEF TypeOK, Execute, SameWalk, walkVars
  <2>. QED
    BY <1>2, <1>3, <2>1 DEF Turns
<1>14. CASE LateExecute(r)
  <2>1. /\ pc'[r] = pc[r] /\ SameWalk(r) /\ execs'[r] = execs[r] + 1 /\ late'[r] = late[r] - 1
    BY <1>1, <1>14 DEF TypeOK, LateExecute, SameWalk, walkVars
  <2>. QED
    BY <1>2, <1>3, <2>1 DEF Stays
<1>15. CASE ClientCancel(r)
  <2>1. /\ Active(r) /\ pc'[r] = "done" /\ SameWalk(r) /\ execs'[r] = execs[r]
        /\ pc[r] \in {"get", "dial", "sent"} => late'[r] = late[r] \/ late'[r] = late[r] + 1
        /\ pc[r] \notin {"get", "dial", "sent"} => late'[r] = late[r]
    BY <1>1, <1>4, <1>15, FinishMoves, MayStraggleType DEF ClientCancel, SameWalk, walkVars
  <2>. QED
    BY <1>2, <1>3, <2>1 DEF Ends, SameWalk
<1>16. ASSUME NEW h \in Hubs, Arrive(r, h) PROVE OnItsWay(r)
  <2>1. /\ pc[r] = "idle" /\ pc'[r] = "get" /\ front'[r] = h /\ hop'[r] = h
        /\ peers'[r] = peers[r] /\ idx'[r] = idx[r]
        /\ execs'[r] = execs[r] /\ late'[r] = late[r]
    BY <1>1, <1>16 DEF TypeOK, Arrive, countVars
  <2>. QED
    BY <1>2, <1>3, <2>1 DEF Arrives
<1>. QED
  BY <1>5, <1>6, <1>7, <1>8, <1>9, <1>10, <1>11, <1>12, <1>13, <1>14, <1>15, <1>16 DEF QuietStep

LEMMA CrashWay ==
  ASSUME WalkInv, WalkInv', NEW h \in Hubs, HubCrash(h), NEW r \in Requests
  PROVE  OnItsWay(r)
<1>1. TypeOK /\ TypeOK' /\ RequestType(r)
  BY RequestTypes DEF WalkInv
<1>2. /\ pc[r] = "sent" => Copies(r) = execs[r] + late[r] + 1
      /\ pc[r] # "sent" => Copies(r) = execs[r] + late[r]
      /\ pc'[r] = "sent" => Copies(r)' = execs'[r] + late'[r] + 1
      /\ pc'[r] # "sent" => Copies(r)' = execs'[r] + late'[r]
  BY <1>1, CopyCountsBoth
<1>3. execs'[r] = execs[r] /\ SameWalk(r) /\ execs[r] \in Nat /\ late[r] \in Nat /\ idx[r] \in Nat
  BY <1>1 DEF HubCrash, SameWalk, walkVars, RequestType
<1>4. CrashLoses(r, h) \/ CrashAtPeer(r, h) \/ CrashSpares(r)
  BY <1>1, HubCrashCases
<1>5. CASE CrashSpares(r)
  BY <1>2, <1>3, <1>5 DEF CrashSpares, OnItsWay, Stays
<1>6. CASE CrashLoses(r, h)
  BY <1>2, <1>3, <1>6 DEF CrashLoses, OnItsWay, Ends, SameWalk
<1>7. CASE CrashAtPeer(r, h)
  BY <1>2, <1>3, <1>7 DEF CrashAtPeer, OnItsWay, Ends, SameWalk, Active
<1>. QED
  BY <1>4, <1>5, <1>6, <1>7

LEMMA SameWay ==
  ASSUME NEW r \in Requests, SameStage(r), SameWalk(r), SameCount(r)
  PROVE  OnItsWay(r)
BY DEF SameStage, SameCount, OnItsWay, Stays, Copies

(* Every step of the system is a step on the way of each request.          *)
LEMMA NextWay ==
  ASSUME WalkInv, [Next]_vars, NEW r \in Requests
  PROVE  OnItsWay(r)
<1>1. WalkInv'
  BY NextWalk
<1>2. ASSUME NEW q \in Requests, QuietStep(q) PROVE OnItsWay(r)
  <2>1. CASE q = r
    BY <1>1, <1>2, <2>1, QuietWay
  <2>2. CASE q # r
    BY <1>2, <2>2, QuietAlone, SameWay DEF WalkInv, Alone, Untouched
  <2>. QED
    BY <2>1, <2>2
<1>3. ASSUME NEW h \in Hubs, HubCrash(h) PROVE OnItsWay(r)
  BY <1>1, <1>3, CrashWay
<1>4. CASE EnvironmentStep
  BY <1>4, EnvironmentSame, SameWay DEF SameRequests, SameStage, SameWalk, SameCount
<1>5. CASE UNCHANGED vars
  BY <1>5, SameWay DEF vars, hubVars, poolVars, walkVars, legVars, histVars, countVars,
     SameStage, SameWalk, SameCount
<1>6. CASE \E q \in Requests : HubStep(q) \/ MemberStep(q)
  <2>1. PICK q \in Requests : HubStep(q) \/ MemberStep(q)
    BY <1>6
  <2>2. QuietStep(q) \/ \E s \in Sessions : DialEvict(q, s)
    BY <2>1 DEF HubStep, MemberStep, QuietStep
  <2>. QED
    BY <1>2, <1>4, <2>2 DEF EnvironmentStep
<1>7. CASE Environment
  BY <1>2, <1>3, <1>4, <1>7 DEF Environment, QuietStep, EnvironmentStep
<1>. QED
  BY <1>5, <1>6, <1>7 DEF Next

(* A request has fewer peers than there are hubs: the front is none.       *)
LEMMA PeersFewer ==
  ASSUME WalkInv, NEW r \in Requests, pc[r] # "idle"
  PROVE  Cardinality(Hubs) \in Nat /\ Len(peers[r]) < Cardinality(Hubs)
<1> DEFINE n == Len(peers[r])
           others == Hubs \ {front[r]}
<1>1. /\ front[r] \in Hubs /\ peers[r] \in Seq(Hubs)
      /\ \A i, j \in 1..n : peers[r][i] = peers[r][j] => i = j
      /\ \A i \in 1..n : peers[r][i] # front[r]
  BY DEF WalkInv, TypeOK, RequestInv, PhaseInv, ListInv
<1>2. n \in Nat /\ DOMAIN peers[r] = 1..n /\ peers[r] \in [1..n -> Hubs]
  BY <1>1, LenProperties
<1>3. peers[r] \in [1..n -> others]
  BY <1>1, <1>2
<1>4. /\ IsFiniteSet(others) /\ Cardinality(Hubs) \in Nat
      /\ Cardinality(others) = Cardinality(Hubs) - 1
  BY <1>1, HubProxyAssumption, FS_RemoveElement, FS_CardinalityType
<1>5. IsFiniteSet(1..n) /\ Cardinality(1..n) = n
  BY <1>2, FS_Interval
<1>6. ASSUME Cardinality(others) < Cardinality(1..n) PROVE FALSE
  <2> DEFINE S == 1..n
             f == peers[r]
  <2>1. IsFiniteSet(S) /\ f \in [S -> others] /\ Cardinality(others) < Cardinality(S)
    BY <1>3, <1>5, <1>6
  <2> HIDE DEF S, f, others
  <2>2. \E i, j \in S : i # j /\ f[i] = f[j]
    BY <1>4, <2>1, FS_PigeonHole
  <2>. QED
    BY <1>1, <2>2 DEF S, f
<1>. QED
  BY <1>2, <1>4, <1>5, <1>6

(* How far a request is from its end: hubs to go to, and the stages at     *)
(* the hub that it is at.                                                  *)
Stage(l) ==
  CASE l = "get" -> 5 [] l = "dial" -> 4 [] l = "sent" -> 3 [] l = "executed" -> 2 [] OTHER -> 1

Rank(r) ==
  LET ahead == 5 * (Len(peers[r]) - idx[r])
      all   == 5 * Cardinality(Hubs)
  IN  CASE pc[r] = "done" -> 0
        [] pc[r] = "next" -> ahead + 1
        [] pc[r] = "idle" -> all + 2
        [] pc[r] \notin {"done", "next", "idle"} /\ AtPeer(r) -> ahead + Stage(pc[r])
        [] OTHER -> all - 4 + Stage(pc[r])

(* What Rank is at each stage.                                             *)
RankIs(r) ==
  /\ pc[r] = "done" => Rank(r) = 0
  /\ pc[r] = "next" => Rank(r) = 5 * (Len(peers[r]) - idx[r]) + 1
  /\ pc[r] = "idle" => Rank(r) = 5 * Cardinality(Hubs) + 2
  /\ pc[r] \in {"get", "dial", "sent", "executed", "error"} =>
       Rank(r) = Stage(pc[r]) + IF AtPeer(r) THEN 5 * (Len(peers[r]) - idx[r])
                                ELSE 5 * Cardinality(Hubs) - 4
  /\ idx[r] \in Nat /\ Len(peers[r]) \in Nat /\ idx[r] <= Len(peers[r])
  /\ pc[r] # "idle" => Len(peers[r]) < Cardinality(Hubs)
  /\ Rank(r) \in 0..(5 * Cardinality(Hubs) + 2)
  /\ Rank(r) = 0 <=> pc[r] = "done"

LEMMA RankValue == WalkInv => \A r \in Requests : RankIs(r)
<1> SUFFICES ASSUME WalkInv, NEW r \in Requests PROVE RankIs(r)
  OBVIOUS
<1> DEFINE all == Cardinality(Hubs)
           n == Len(peers[r])
           ahead == 5 * (n - idx[r])
<1>1. /\ pc[r] \in {"idle", "get", "dial", "sent", "executed", "error", "next", "done"}
      /\ idx[r] \in Nat /\ n \in Nat
  BY RequestTypes DEF WalkInv, RequestType
<1>2. all \in Nat
  BY HubProxyAssumption, FS_CardinalityType
<1>3. pc[r] # "idle" => n < all
  BY PeersFewer
<1>4. idx[r] <= n
  BY DEF WalkInv, RequestInv, PhaseInv
<1>5. Stage(pc[r]) \in 1..5
  BY DEF Stage
<1> HIDE DEF all, n
<1>6. ahead \in Nat /\ ahead <= 5 * n
  BY <1>1, <1>4
<1>7. /\ pc[r] = "done" => Rank(r) = 0
      /\ pc[r] = "next" => Rank(r) = ahead + 1
      /\ pc[r] = "idle" => Rank(r) = 5 * all + 2
      /\ pc[r] \in {"get", "dial", "sent", "executed", "error"} =>
           Rank(r) = Stage(pc[r]) + IF AtPeer(r) THEN ahead ELSE 5 * all - 4
  <2> HIDE DEF Stage
  <2>1. pc[r] \in {"done", "next", "idle"} =>
          Rank(r) = IF pc[r] = "done" THEN 0 ELSE IF pc[r] = "next" THEN ahead + 1 ELSE 5 * all + 2
    BY DEF Rank, all, n
  <2>2. pc[r] \in {"get", "dial", "sent", "executed", "error"} =>
          Rank(r) = IF AtPeer(r) THEN ahead + Stage(pc[r]) ELSE 5 * all - 4 + Stage(pc[r])
    BY DEF Rank, all, n
  <2> HIDE DEF ahead
  <2>. QED
    BY <1>2, <1>5, <1>6, <2>1, <2>2
<1> HIDE DEF ahead
<1>8. Rank(r) \in 0..(5 * all + 2) /\ (Rank(r) = 0 <=> pc[r] = "done")
  <2>1. CASE pc[r] = "done"
    BY <1>2, <1>7, <2>1
  <2>2. CASE pc[r] = "next"
    BY <1>1, <1>2, <1>3, <1>6, <1>7, <2>2
  <2>3. CASE pc[r] = "idle"
    BY <1>2, <1>7, <2>3
  <2>4. CASE pc[r] \in {"get", "dial", "sent", "executed", "error"}
    BY <1>1, <1>2, <1>3, <1>5, <1>6, <1>7, <2>4
  <2>. QED
    BY <1>1, <2>1, <2>2, <2>3, <2>4
<1>. QED
  BY <1>1, <1>3, <1>4, <1>7, <1>8 DEF RankIs, all, n, ahead

(* ... also after a step.                                                  *)
LEMMA RankValueNext == WalkInv' => \A r \in Requests : RankIs(r)'
<1>1. (WalkInv => \A r \in Requests : RankIs(r))'
  BY RankValue, PTL
<1>. QED
  BY <1>1

LEMMA RankStep ==
  ASSUME WalkInv, WalkInv', NEW r \in Requests, OnItsWay(r)
  PROVE  \/ Rank(r)' < Rank(r)
         \/ Rank(r)' = Rank(r) /\ UNCHANGED <<pc[r], hop[r], idx[r]>>
<1> DEFINE all == Cardinality(Hubs)
           n == Len(peers[r])
<1>0. RankIs(r) /\ RankIs(r)' /\ all \in Nat
  BY RankValue, RankValueNext, HubProxyAssumption, FS_CardinalityType
<1>1. /\ Rank(r) \in Nat /\ Rank(r)' \in Nat /\ all \in Nat
      /\ n \in Nat /\ idx[r] \in Nat /\ idx[r] <= n
  BY <1>0 DEF RankIs
<1>2. CASE Ends(r)
  <2>1. Rank(r)' = 0 /\ Rank(r) # 0
    BY <1>0, <1>2 DEF Ends, Active, RankIs
  <2>. QED
    BY <1>1, <2>1
<1>3. CASE Arrives(r)
  <2>1. pc[r] = "idle" /\ pc'[r] = "get" /\ ~AtPeer(r)'
    BY <1>3 DEF Arrives, AtPeer
  <2>2. Rank(r) = 5 * all + 2 /\ Rank(r)' = 5 * all - 4 + Stage("get")
    BY <1>0, <1>1, <2>1 DEF RankIs, Stage
  <2>. QED
    BY <1>1, <2>2 DEF Stage
<1>4. CASE SameWalk(r) /\ (Dials(r) \/ Turns(r))
  <2>1. AtPeer(r)' = AtPeer(r) /\ Len(peers'[r]) = n /\ idx'[r] = idx[r]
    BY <1>4 DEF SameWalk, AtPeer
  <2>2. CASE pc'[r] # "next"
    <3>1. /\ pc[r] \in {"get", "dial", "sent", "executed"}
          /\ pc'[r] \in {"dial", "sent", "executed", "error"}
          /\ Stage(pc'[r]) < Stage(pc[r])
      BY <1>4, <2>2 DEF Dials, Turns, Stage
    <3>2. Stage(pc'[r]) \in Nat /\ Stage(pc[r]) \in Nat
      BY <3>1 DEF Stage
    <3>3. \/ /\ Rank(r) = Stage(pc[r]) + 5 * (n - idx[r])
             /\ Rank(r)' = Stage(pc'[r]) + 5 * (n - idx[r])
          \/ /\ Rank(r) = Stage(pc[r]) + (5 * all - 4)
             /\ Rank(r)' = Stage(pc'[r]) + (5 * all - 4)
      BY <1>0, <2>1, <3>1 DEF RankIs
    <3>. QED
      BY <1>1, <3>1, <3>2, <3>3
  <2>3. CASE pc'[r] = "next"
    <3>1. pc[r] \in {"get", "dial", "sent", "executed"} /\ AtPeer(r) /\ Stage(pc[r]) \in 2..5
      BY <1>4, <2>3 DEF Dials, Turns, Stage
    <3>2. /\ Rank(r) = Stage(pc[r]) + 5 * (n - idx[r])
          /\ Rank(r)' = 5 * (n - idx[r]) + 1
      BY <1>0, <2>1, <2>3, <3>1 DEF RankIs
    <3>. QED
      BY <1>1, <3>1, <3>2
  <2>. QED
    BY <2>2, <2>3
<1>5. CASE Lists(r)
  <2>1. pc[r] = "error" /\ pc'[r] = "next" /\ ~AtPeer(r) /\ idx'[r] = 0
    BY <1>5 DEF Lists, AtPeer, WalkInv, RequestInv, PhaseInv
  <2>2. /\ Rank(r) = 5 * all - 4 + Stage("error")
        /\ Rank(r)' = 5 * (Len(peers'[r]) - 0) + 1
        /\ Len(peers'[r]) \in Nat /\ Len(peers'[r]) < all
    BY <1>0, <1>1, <2>1 DEF RankIs, Stage
  <2>. QED
    BY <1>1, <2>2 DEF Stage
<1>6. CASE Forwards(r)
  <2>1. /\ pc[r] = "next" /\ pc'[r] = "get" /\ idx[r] < n
        /\ idx'[r] = idx[r] + 1 /\ Len(peers'[r]) = n
        /\ hop'[r] = peers[r][idx[r] + 1] /\ front'[r] = front[r]
    BY <1>6 DEF Forwards
  <2>2. AtPeer(r)'
    BY <1>1, <2>1 DEF AtPeer, WalkInv, RequestInv, ListInv
  <2>3. /\ Rank(r) = 5 * (n - idx[r]) + 1
        /\ Rank(r)' = 5 * (n - (idx[r] + 1)) + Stage("get")
    BY <1>0, <1>1, <2>1, <2>2 DEF RankIs, Stage
  <2>. QED
    BY <1>1, <2>1, <2>3 DEF Stage
<1>7. CASE Stays(r)
  BY <1>7 DEF Stays, SameWalk, Rank, AtPeer
<1>. QED
  BY <1>2, <1>3, <1>4, <1>5, <1>6, <1>7 DEF OnItsWay

(* A request has at most 5 * Cardinality(Hubs) + 2 steps to make before it *)
(* ends, whatever happens to hubs, sessions and peers meanwhile: each of   *)
(* its moves from stage to stage and from hub to hub, in the handlers or   *)
(* by a crash, brings it nearer to the end, and nothing takes it back.     *)
(* (NewProxyHandler, its ErrorHandler and TryNextPeer have no loop but the *)
(* one along the peers, and that one is never entered twice.)              *)
NeverBack ==
  [][\A r \in Requests :
       \/ Rank(r)' < Rank(r)
       \/ Rank(r)' = Rank(r) /\ UNCHANGED <<pc[r], hop[r], idx[r]>>]_vars

RankIsBound ==
  \A r \in Requests :
    Rank(r) \in 0..(5 * Cardinality(Hubs) + 2) /\ (Rank(r) = 0 <=> pc[r] = "done")

THEOREM RequestsAdvance == Spec => []RankIsBound /\ NeverBack
<1>1. WalkInv => RankIsBound
  BY RankValue DEF RankIs, RankIsBound
<1>2. WalkInv /\ [Next]_vars =>
        [\A r \in Requests :
           \/ Rank(r)' < Rank(r)
           \/ Rank(r)' = Rank(r) /\ UNCHANGED <<pc[r], hop[r], idx[r]>>]_vars
  BY NextWalk, NextWay, RankStep
<1>. QED
  BY <1>1, <1>2, WalkInvariant, PTL DEF Spec, NeverBack

(* Copies that may reach the member: none before the first dial, and one   *)
(* more at most with each hub that the request has gone to.                *)
CopiesInv(r) ==
  Copies(r) <= IF pc[r] \in {"idle", "get", "dial"} THEN idx[r] ELSE idx[r] + 1

LEMMA CopiesStep ==
  ASSUME WalkInv, NEW r \in Requests, CopiesInv(r), OnItsWay(r), WalkInv'
  PROVE  CopiesInv(r)'
<1>1. Copies(r) \in Nat /\ idx[r] \in Nat /\ PhaseInv(r) /\ RequestType(r)
  BY CopyCounts, RequestTypes DEF WalkInv, RequestInv, RequestType
<1>2. Copies(r)' \in Nat
  <2>1. execs'[r] \in Nat /\ late'[r] \in Nat
    BY DEF WalkInv, TypeOK
  <2>. QED
    BY <2>1 DEF Copies
<1> USE <1>1, <1>2 DEF CopiesInv
<1>3. CASE Ends(r)
  BY <1>3 DEF Ends, Active
<1>4. CASE Arrives(r)
  BY <1>4 DEF Arrives
<1>5. CASE SameWalk(r) /\ (Dials(r) \/ Turns(r))
  BY <1>5 DEF SameWalk, Dials, Turns
<1>6. CASE Lists(r)
  <2>1. idx[r] = 0
    BY <1>6 DEF Lists, PhaseInv
  <2>. QED
    BY <1>6, <2>1 DEF Lists
<1>7. CASE Forwards(r)
  BY <1>7 DEF Forwards
<1>8. CASE Stays(r)
  BY <1>8 DEF Stays, SameWalk
<1>. QED
  BY <1>3, <1>4, <1>5, <1>6, <1>7, <1>8 DEF OnItsWay

(* However round trips fail and copies straggle, the member has executed a *)
(* request, or may still, at most once for each hub: the walk of           *)
(* TryNextPeer bounds the repetitions, and the front's own try is the      *)
(* first of them.                                                          *)
CopiesWithinHubs == \A r \in Requests : Copies(r) <= Cardinality(Hubs)

THEOREM RepetitionsBounded == Spec => []CopiesWithinHubs
<1> DEFINE Inv == WalkInv /\ \A r \in Requests : CopiesInv(r)
<1>1. Init => Inv
  <2>1. ASSUME Init PROVE WalkInv
    BY <2>1, InitIInv DEF IInv
  <2>2. ASSUME Init, NEW r \in Requests PROVE CopiesInv(r)
    BY <2>2 DEF Init, CopiesInv, Copies
  <2>. QED
    BY <2>1, <2>2
<1>2. Inv /\ [Next]_vars => Inv'
  <2> SUFFICES ASSUME Inv, [Next]_vars PROVE Inv'
    OBVIOUS
  <2>1. WalkInv'
    BY NextWalk
  <2>2. ASSUME NEW r \in Requests PROVE CopiesInv(r)'
    BY <2>1, NextWay, CopiesStep
  <2>. QED
    BY <2>1, <2>2
<1>3. Inv => CopiesWithinHubs
  <2> SUFFICES ASSUME Inv, NEW r \in Requests PROVE Copies(r) <= Cardinality(Hubs)
    BY DEF CopiesWithinHubs
  <2>1. /\ Copies(r) \in Nat /\ RequestType(r) /\ PhaseInv(r) /\ CopiesInv(r)
        /\ Cardinality(Hubs) \in Nat
    BY CopyCounts, RequestTypes, HubProxyAssumption, FS_CardinalityType DEF WalkInv, RequestInv
  <2>2. CASE pc[r] = "idle"
    BY <2>1, <2>2 DEF PhaseInv, CopiesInv, RequestType
  <2>3. CASE pc[r] # "idle"
    BY <2>1, <2>3, PeersFewer DEF PhaseInv, CopiesInv, RequestType
  <2>. QED
    BY <2>2, <2>3
<1> HIDE DEF Inv
<1>. QED
  BY <1>1, <1>2, <1>3, PTL DEF Spec

-----------------------------------------------------------------------------
(* The path that the request has on its way (PeerRouting), in variables of *)
(* its own, for hubs, segments and a bound on paths of any size.           *)
CONSTANTS Segments, MaxPath

VARIABLES subsets, self, orig, step, listed, position, path, seen

Routing == INSTANCE PeerRouting
  WITH IPs <- Hubs, pc <- step, peers <- listed, idx <- position

(* Paths, clean or not.                                                    *)
AllSegments == Segments \cup {"", "proxy", "ns", "name"}
Routes == Seq(AllSegments)

(* What is before and what is after the joint of two sequences.            *)
LEMMA Joint ==
  ASSUME NEW S, NEW f \in Seq(S), NEW q \in Seq(S)
  PROVE  /\ f \o q \in Seq(S)
         /\ Len(f) <= Len(f \o q)
         /\ SubSeq(f, 1, Len(f)) = SubSeq(f \o q, 1, Len(f))
         /\ SubSeq(f \o q, Len(f) + 1, Len(f \o q)) = q
<1> DEFINE p == f \o q
           before == SubSeq(p, 1, Len(f))
           after == SubSeq(p, Len(f) + 1, Len(p))
<1>1. PICK m \in Nat : m = Len(f)
  BY LenProperties
<1>2. PICK n \in Nat : n = Len(q)
  BY LenProperties
<1>3. /\ p \in Seq(S) /\ Len(p) = m + n
      /\ \A i \in 1..(m + n) : p[i] = IF i <= m THEN f[i] ELSE q[i - m]
  BY <1>1, <1>2, ConcatProperties
<1> HIDE DEF p
<1>4. /\ \A i \in 1..m : p[i] = f[i]
      /\ \A i \in 1..n : p[i + m] = q[i]
  <2>1. \A i \in 1..n : i + m \in 1..(m + n) /\ ~(i + m <= m) /\ (i + m) - m = i
    OBVIOUS
  <2>2. \A i \in 1..m : i \in 1..(m + n) /\ i <= m
    OBVIOUS
  <2>. QED
    BY <1>3, <2>1, <2>2
<1>5. /\ \A i \in 1..m : f[i] \in S
      /\ \A i \in 1..(m + n) : p[i] \in S
  BY <1>1, <1>3, ElementOfSeq
<1>6. SubSeq(f, 1, m) = SubSeq(p, 1, m)
  <2>1. \A i \in 1..m : p[i] \in S
    BY <1>4, <1>5
  <2>2. /\ SubSeq(f, 1, m) \in Seq(S) /\ Len(SubSeq(f, 1, m)) = m
        /\ \A i \in 1..m : SubSeq(f, 1, m)[i] = f[i]
    BY <1>5, SubSeqProperties
  <2>3. /\ SubSeq(p, 1, m) \in Seq(S) /\ Len(SubSeq(p, 1, m)) = m
        /\ \A i \in 1..m : SubSeq(p, 1, m)[i] = p[i]
    BY <2>1, SubSeqProperties
  <2>. QED
    BY <1>4, <2>2, <2>3, SeqEqual
<1>7. SubSeq(p, m + 1, m + n) = q
  <2> DEFINE t == SubSeq(p, m + 1, m + n)
  <2>1. m + 1 \in Int /\ m + n \in Int /\ \A i \in (m + 1)..(m + n) : p[i] \in S
    BY <1>5
  <2>2. /\ t \in Seq(S)
        /\ Len(t) = IF m + 1 <= m + n THEN (m + n) - (m + 1) + 1 ELSE 0
        /\ \A i \in 1..((m + n) - (m + 1) + 1) : t[i] = p[(m + 1) + i - 1]
    BY <2>1, SubSeqProperties
  <2> HIDE DEF t
  <2>3. Len(t) = n
    BY <2>2
  <2>4. \A i \in 1..n : i \in 1..((m + n) - (m + 1) + 1) /\ (m + 1) + i - 1 = i + m
    OBVIOUS
  <2>5. \A i \in 1..n : t[i] = q[i]
    BY <1>4, <2>2, <2>4
  <2>6. t = q
    BY <1>2, <2>2, <2>3, <2>5, SeqEqual
  <2>. QED
    BY <2>6 DEF t
<1>8. Len(f) <= Len(p)
  BY <1>1, <1>3
<1>. QED
  BY <1>1, <1>3, <1>6, <1>7, <1>8 DEF p

(* Sequences of one and of three elements.                                 *)
LEMMA ShortSequences ==
  ASSUME NEW S, NEW a \in S, NEW b \in S, NEW c \in S
  PROVE  <<a>> \in Seq(S) /\ <<a, b, c>> \in Seq(S)
  OBVIOUS

(* Taking the prefix off undoes putting it on.                             *)
LEMMA TrimUndoes ==
  ASSUME NEW q \in Routes
  PROVE  /\ Routing!Prefix \o q \in Routes
         /\ Routing!TrimPrefix(Routing!Prefix \o q) = q
<1> DEFINE f == Routing!Prefix
           p == f \o q
<1>1. f \in Routes
  BY ShortSequences DEF Routing!Prefix, Routes, AllSegments
<1> HIDE DEF f
<1>2. /\ p \in Routes /\ Len(f) <= Len(p)
      /\ SubSeq(f, 1, Len(f)) = SubSeq(p, 1, Len(f))
      /\ SubSeq(p, Len(f) + 1, Len(p)) = q
  BY <1>1, Joint, Zenon DEF Routes
<1> HIDE DEF p
<1>3. Routing!IsPrefix(f, p)
  BY <1>2 DEF Routing!IsPrefix
<1>4. Routing!TrimPrefix(p) = q
  BY <1>2, <1>3 DEF Routing!TrimPrefix, f
<1>. QED
  BY <1>2, <1>4 DEF f, p

(* What is left of a path is a path.                                       *)
LEMMA TrimIsRoute ==
  ASSUME NEW p \in Routes
  PROVE  Routing!TrimPrefix(p) \in Routes
<1>1. PICK n \in Nat : n = Len(p)
  BY LenProperties DEF Routes
<1>2. PICK m \in Nat : m = Len(Routing!Prefix)
  BY DEF Routing!Prefix
<1>3. \A i \in (m + 1)..n : p[i] \in AllSegments
  <2>1. \A i \in (m + 1)..n : i \in 1..Len(p)
    BY <1>1
  <2>. QED
    BY <2>1, ElementOfSeq DEF Routes
<1>4. SubSeq(p, m + 1, n) \in Routes
  <2>1. m + 1 \in Int /\ n \in Int
    OBVIOUS
  <2>. QED
    BY <1>3, <2>1, SubSeqProperties DEF Routes
<1>. QED
  BY <1>1, <1>2, <1>4 DEF Routing!TrimPrefix

(* Joining the prefix and taking it off gives a path that is the same.     *)
LEMMA JoinThenTrim ==
  ASSUME NEW p \in Routes
  PROVE  /\ Routing!JoinPath(p) \in Routes
         /\ \A q : Routing!SamePath(p, q) =>
                   Routing!SamePath(Routing!TrimPrefix(Routing!JoinPath(p)), q)
<1> DEFINE t == IF p = <<>> THEN <<"">> ELSE p
<1>1. t \in Routes
  BY ShortSequences DEF Routes, AllSegments
<1>2. Routing!JoinPath(p) = Routing!Prefix \o t
  BY DEF Routing!JoinPath
<1>3. Routing!JoinPath(p) \in Routes /\ Routing!TrimPrefix(Routing!JoinPath(p)) = t
  BY <1>1, <1>2, TrimUndoes
<1>4. ASSUME NEW q, Routing!SamePath(p, q) PROVE Routing!SamePath(t, q)
  BY <1>4 DEF Routing!SamePath
<1>. QED
  BY <1>3, <1>4

(* The request has the path of the client, under the prefix while a peer   *)
(* has it and without it in between.                                       *)
PathInv ==
  /\ path \in Routes
  /\ step \in {"list", "next"} => Routing!SamePath(path, orig)
  /\ step \in {"sent", "served"} => Routing!SamePath(Routing!TrimPrefix(path), orig)
  /\ seen \in Seq(Routing!Range(seen))
  /\ Routing!PathPreserved

LEMMA RoutingInit == Routing!Init => PathInv
<1> SUFFICES ASSUME Routing!Init PROVE PathInv
  OBVIOUS
<1>1. path = orig /\ orig \in Routing!Paths /\ step = "list" /\ seen = <<>>
  BY DEF Routing!Init
<1>2. orig \in Routes
  <2>0. \A n \in 0..MaxPath : n \in Nat
    OBVIOUS
  <2>1. PICK n \in Nat : orig \in [1..n -> Segments]
    BY <1>1, <2>0 DEF Routing!Paths
  <2>2. orig \in [1..n -> AllSegments]
    BY <2>1 DEF AllSegments
  <2>. QED
    BY <2>2, SeqDef DEF Routes
<1>3. seen \in Seq(Routing!Range(seen))
  BY <1>1, EmptySeq
<1>4. Routing!Range(seen) = {}
  BY <1>1 DEF Routing!Range
<1>. QED
  BY <1>1, <1>2, <1>3, <1>4 DEF PathInv, Routing!SamePath, Routing!PathPreserved

(* A peer that is reached sees the path that the client asked for.         *)
LEMMA PeerSeesPath == ASSUME PathInv, Routing!PeerHandler PROVE PathInv'
<1> DEFINE x == [peer |-> listed[position], subpath |-> Routing!TrimPrefix(path)]
           T == Routing!Range(seen) \cup {x}
<1>1. /\ step = "sent" /\ step' = "served" /\ path' = path /\ orig' = orig
      /\ seen' = Append(seen, x)
  BY DEF Routing!PeerHandler
<1>2. Routing!SamePath(x.subpath, orig)
  BY <1>1 DEF PathInv
<1> HIDE DEF x
<1>3. seen \in Seq(T) /\ x \in T
  <2>1. PICK n \in Nat : seen \in [1..n -> Routing!Range(seen)]
    BY SeqDef DEF PathInv
  <2>2. seen \in [1..n -> T]
    BY <2>1
  <2>. QED
    BY <2>2, SeqDef
<1> HIDE DEF T
<1>4. seen' \in Seq(T)
  BY <1>1, <1>3, AppendProperties
<1>5. PICK n \in Nat : seen' \in [1..n -> T]
  BY <1>4, SeqDef
<1>6. Routing!Range(seen)' \subseteq T
  BY <1>5 DEF Routing!Range
<1>7. seen' \in [1..n -> Routing!Range(seen)']
  BY <1>5 DEF Routing!Range
<1>8. (seen \in Seq(Routing!Range(seen)))'
  BY <1>7, SeqDef
<1>9. Routing!PathPreserved'
  <2>1. \A y \in T : Routing!SamePath(y.subpath, orig)
    BY <1>2 DEF T, PathInv, Routing!PathPreserved
  <2>2. \A p : Routing!SamePath(p, orig)' = Routing!SamePath(p, orig)
    BY <1>1 DEF Routing!SamePath
  <2>. QED
    BY <1>1, <1>6, <2>1 DEF Routing!PathPreserved, Routing!SamePath
<1>. QED
  BY <1>1, <1>8, <1>9 DEF PathInv, Routing!SamePath, Routing!TrimPrefix, Routing!IsPrefix

LEMMA RoutingNext == PathInv /\ [Routing!Next]_(Routing!vars) => PathInv'
<1> SUFFICES ASSUME PathInv, [Routing!Next]_(Routing!vars) PROVE PathInv'
  OBVIOUS
<1>1. CASE Routing!TryNextPeer
  <2>1. /\ step = "next" /\ UNCHANGED <<orig, seen>>
        /\ \/ step' = "done" /\ path' = path
           \/ step' = "sent" /\ path' = Routing!JoinPath(path)
    BY <1>1 DEF Routing!TryNextPeer
  <2>2. /\ Routing!JoinPath(path) \in Routes
        /\ Routing!SamePath(Routing!TrimPrefix(Routing!JoinPath(path)), orig)
    BY <2>1, JoinThenTrim DEF PathInv
  <2>. QED
    BY <2>1, <2>2 DEF PathInv, Routing!PathPreserved, Routing!SamePath, Routing!Range,
                      Routing!TrimPrefix, Routing!IsPrefix
<1>2. CASE Routing!PeerHandler
  BY <1>2, PeerSeesPath
<1>3. CASE Routing!PeerRefuses
  <2>1. /\ step = "served" /\ step' = "next" /\ path' = Routing!TrimPrefix(path)
        /\ UNCHANGED <<orig, seen>>
    BY <1>3 DEF Routing!PeerRefuses, Routing!RestorePath
  <2>2. path' \in Routes
    BY <2>1, TrimIsRoute DEF PathInv
  <2>. QED
    BY <2>1, <2>2 DEF PathInv, Routing!PathPreserved, Routing!SamePath, Routing!Range
<1>4. CASE Routing!ListPeers \/ Routing!PeerAnswers
  <2>1. /\ UNCHANGED <<orig, path, seen>>
        /\ (step = "list" /\ step' \in {"next", "error"}) \/ step' = "done"
    BY <1>4 DEF Routing!ListPeers, Routing!PeerAnswers
  <2>. QED
    BY <2>1 DEF PathInv, Routing!PathPreserved, Routing!SamePath, Routing!Range
<1>5. CASE UNCHANGED Routing!vars
  BY <1>5 DEF PathInv, Routing!vars, Routing!PathPreserved, Routing!SamePath, Routing!Range,
              Routing!TrimPrefix, Routing!IsPrefix
<1>. QED
  BY <1>1, <1>2, <1>3, <1>4, <1>5 DEF Routing!Next, Routing!Finished

(* However many peers a request is sent to, and whatever its path, each of *)
(* them hands the member the path that the client asked for: what the      *)
(* front puts before it is taken off exactly once.                         *)
THEOREM EveryPeerSeesThePath == Routing!Spec => []Routing!PathPreserved
<1>1. PathInv => Routing!PathPreserved
  BY DEF PathInv
<1>. QED
  BY <1>1, RoutingInit, RoutingNext, PTL DEF Routing!Spec

-----------------------------------------------------------------------------
(* The peers that the request is sent to (PeerRouting).                    *)

(* Counting up to n: what holds of 0 and goes on from one number to the    *)
(* next holds of all of them.                                              *)
LEMMA CountingUp ==
  ASSUME NEW n \in Nat, NEW T, 0 \in T, \A i \in 1..n : i - 1 \in T => i \in T
  PROVE  \A i \in 0..n : i \in T
<1> DEFINE Bad == {i \in 0..n : i \notin T}
<1>1. SUFFICES ASSUME Bad # {} PROVE FALSE
  OBVIOUS
<1>2. Bad \subseteq Nat
  OBVIOUS
<1>3. PICK x \in Bad : \A y \in Bad : ~(<<y, x>> \in OpToRel(<, Nat))
  BY <1>1, <1>2, WFMin, NatLessThanWellFounded
<1>4. \A y \in Bad : ~(y < x)
  BY <1>2, <1>3 DEF OpToRel
<1>5. x \in 0..n /\ x \notin T
  OBVIOUS
<1>6. x # 0
  BY <1>5
<1>7. x \in 1..n /\ x - 1 \in 0..n /\ x - 1 < x
  BY <1>5, <1>6
<1>8. x - 1 \in T
  BY <1>4, <1>7
<1>. QED
  BY <1>5, <1>7, <1>8

(* One turn of the loop in OtherAddresses, with the address a.             *)
Turn(kept, a) == IF a = self THEN kept ELSE Append(kept, a)

Loop(f, addresses, n) ==
  f = [i \in 0..n |-> IF i = 0 THEN <<>> ELSE Turn(f[i - 1], addresses[i])]

(* The loop has a result, turn by turn.                                    *)
LEMMA LoopRuns ==
  ASSUME NEW addresses, NEW n \in Nat
  PROVE  \E f : Loop(f, addresses, n)
<1> DEFINE T == {i \in 0..n : \E f : Loop(f, addresses, i)}
<1>1. 0 \in T
  <2>1. Loop([i \in 0..0 |-> <<>>], addresses, 0)
    BY DEF Loop
  <2>. QED
    BY <2>1
<1>2. ASSUME NEW k \in 1..n, k - 1 \in T PROVE k \in T
  <2>1. PICK f : Loop(f, addresses, k - 1)
    BY <1>2
  <2> DEFINE next(g, i) == IF i = 0 THEN <<>> ELSE Turn(g[i - 1], addresses[i])
             h == [i \in 0..k |-> IF i = k THEN next(f, k) ELSE f[i]]
  <2>2. \A i \in 0..(k - 1) : f[i] = next(f, i)
    BY <2>1 DEF Loop
  <2>3. \A i \in 0..k : i # k => i \in 0..(k - 1)
    OBVIOUS
  <2>4. \A i \in 0..k : i # 0 => i - 1 \in 0..k /\ i - 1 # k
    OBVIOUS
  <2>5. \A i \in 0..k : i # 0 => h[i - 1] = f[i - 1]
    BY <2>4
  <2>6. \A i \in 0..k : h[i] = next(h, i)
    <3>1. \A i \in 0..k : next(h, i) = next(f, i)
      BY <2>5
    <3>2. \A i \in 0..k : h[i] = IF i = k THEN next(f, k) ELSE f[i]
      OBVIOUS
    <3> HIDE DEF h, next
    <3>. QED
      BY <2>2, <2>3, <3>1, <3>2
  <2>7. h = [i \in 0..k |-> next(h, i)]
    <3>1. h = [i \in 0..k |-> h[i]]
      OBVIOUS
    <3> HIDE DEF h, next
    <3>. QED
      BY <2>6, <3>1
  <2>8. Loop(h, addresses, k)
    BY <2>7 DEF Loop
  <2> HIDE DEF h
  <2>. QED
    BY <2>8
<1> HIDE DEF T
<1>3. \A i \in 0..n : i \in T
  BY <1>1, <1>2, CountingUp
<1>4. n \in T
  BY <1>3
<1>. QED
  BY <1>4 DEF T

(* After n turns the loop has kept each of the first n addresses but self. *)
Kept(q, addresses, S, n) ==
  /\ q \in Seq(S)
  /\ \A j \in 1..Len(q) : q[j] # self /\ \E i \in 1..n : q[j] = addresses[i]
  /\ \A i \in 1..n : addresses[i] # self => \E j \in 1..Len(q) : q[j] = addresses[i]
  /\ \A j, k \in 1..Len(q) : q[j] = q[k] => j = k

LEMMA TurnKeeps ==
  ASSUME NEW S, NEW addresses \in Seq(S), NEW n \in 1..Len(addresses), NEW q,
         \A i, j \in 1..Len(addresses) : addresses[i] = addresses[j] => i = j,
         Kept(q, addresses, S, n - 1)
  PROVE  Kept(Turn(q, addresses[n]), addresses, S, n)
<1> DEFINE a == addresses[n]
<1>1. a \in S /\ Len(addresses) \in Nat
  BY ElementOfSeq, LenProperties
<1>2. /\ q \in Seq(S)
      /\ \A j \in 1..Len(q) : q[j] # self /\ \E i \in 1..(n - 1) : q[j] = addresses[i]
      /\ \A i \in 1..(n - 1) : addresses[i] # self => \E j \in 1..Len(q) : q[j] = addresses[i]
      /\ \A j, k \in 1..Len(q) : q[j] = q[k] => j = k
  BY DEF Kept
<1>3. \A i \in 1..(n - 1) : i \in 1..n /\ addresses[i] # a
  BY <1>1
<1>4. \A i \in 1..n : i \in 1..(n - 1) \/ i = n
  BY <1>1
<1>5. CASE a = self
  BY <1>2, <1>3, <1>4, <1>5 DEF Kept, Turn
<1>6. CASE a # self
  <2> DEFINE t == Append(q, a)
  <2>1. Turn(q, a) = t
    BY <1>6 DEF Turn
  <2>2. PICK m \in Nat : m = Len(q)
    BY <1>2, LenProperties
  <2>3. t \in Seq(S) /\ Len(t) = m + 1 /\ t[m + 1] = a /\ \A j \in 1..m : t[j] = q[j]
    BY <1>1, <1>2, <2>2, AppendProperties
  <2> HIDE DEF t
  <2>4. \A j \in 1..(m + 1) : j \in 1..m \/ j = m + 1
    OBVIOUS
  <2>5. \A j \in 1..m : t[j] # self /\ t[j] # a /\ \E i \in 1..n : t[j] = addresses[i]
    BY <1>2, <1>3, <2>2, <2>3
  <2>6. \A j \in 1..(m + 1) : t[j] # self /\ \E i \in 1..n : t[j] = addresses[i]
    <3>1. n \in 1..n
      BY <1>1
    <3>. QED
      BY <1>6, <2>3, <2>4, <2>5, <3>1
  <2>7. ASSUME NEW i \in 1..n, addresses[i] # self
        PROVE  \E j \in 1..(m + 1) : t[j] = addresses[i]
    <3>1. CASE i = n
      BY <2>3, <3>1
    <3>2. CASE i \in 1..(n - 1)
      <4>1. PICK j \in 1..m : q[j] = addresses[i]
        BY <1>2, <2>2, <2>7, <3>2
      <4>. QED
        BY <2>3, <4>1
    <3>. QED
      BY <1>4, <3>1, <3>2
  <2>8. ASSUME NEW j \in 1..(m + 1), NEW k \in 1..(m + 1), t[j] = t[k] PROVE j = k
    <3>1. CASE j \in 1..m /\ k \in 1..m
      BY <1>2, <2>2, <2>3, <2>8, <3>1
    <3>2. CASE j = m + 1 /\ k \in 1..m
      BY <2>3, <2>5, <2>8, <3>2
    <3>3. CASE j \in 1..m /\ k = m + 1
      BY <2>3, <2>5, <2>8, <3>3
    <3>. QED
      BY <2>4, <3>1, <3>2, <3>3
  <2>. QED
    BY <2>1, <2>3, <2>6, <2>7, <2>8 DEF Kept
<1>. QED
  BY <1>5, <1>6

(* What the loop makes of a list without repetitions.                      *)
LEMMA OtherAddressesProperties ==
  ASSUME NEW S, NEW addresses \in Seq(S),
         \A i, j \in 1..Len(addresses) : addresses[i] = addresses[j] => i = j
  PROVE  Kept(Routing!OtherAddresses(addresses), addresses, S, Len(addresses))
<1>1. PICK n \in Nat : n = Len(addresses)
  BY LenProperties
<1> DEFINE f == CHOOSE g : Loop(g, addresses, n)
<1>2. Routing!OtherAddresses(addresses) = f[n]
  BY <1>1, Zenon DEF Routing!OtherAddresses, Loop, Turn
<1>3. Loop(f, addresses, n)
  BY LoopRuns
<1> HIDE DEF f
<1>4. f[0] = <<>> /\ \A i \in 1..n : f[i] = Turn(f[i - 1], addresses[i])
  BY <1>3 DEF Loop
<1> DEFINE T == {i \in 0..n : Kept(f[i], addresses, S, i)}
<1>5. 0 \in T
  <2>1. f[0] \in Seq(S) /\ 1..Len(f[0]) = {}
    BY <1>4, EmptySeq
  <2>2. Kept(f[0], addresses, S, 0)
    BY <2>1 DEF Kept
  <2>. QED
    BY <2>2
<1>6. ASSUME NEW i \in 1..n, i - 1 \in T PROVE i \in T
  <2>1. Kept(f[i - 1], addresses, S, i - 1)
    BY <1>6
  <2>2. Kept(Turn(f[i - 1], addresses[i]), addresses, S, i)
    BY <1>1, <2>1, TurnKeeps
  <2>. QED
    BY <1>4, <2>2
<1> HIDE DEF T
<1>7. \A i \in 0..n : i \in T
  BY <1>5, <1>6, CountingUp
<1>8. n \in T
  BY <1>7
<1>. QED
  BY <1>1, <1>2, <1>8 DEF T

(* Of the ports of the hub Service, in any order, the one named "peer".    *)
LEMMA PeerPortFound ==
  ASSUME NEW ports \in SetToSeqs(Routing!Ports)
  PROVE  ports # <<>> /\ Routing!PortOf(ports) = Routing!PeerPort
<1> DEFINE P == Routing!Ports
           peer == [name |-> "peer", port |-> 6443]
           named == {i \in DOMAIN ports : ports[i].name = "peer"}
<1>1. IsFiniteSet(P) /\ ports \in SetToSeqs(P)
  <2> DEFINE api == [name |-> "api", port |-> 8443]
  <2>1. P = {api} \cup {peer}
    BY DEF Routing!Ports
  <2> HIDE DEF api, peer
  <2>2. IsFiniteSet({api})
    BY FS_Singleton
  <2>3. IsFiniteSet({api} \cup {peer})
    BY <2>2, FS_AddElement
  <2>. QED
    BY <2>1, <2>3
<1>2. peer \in P /\ \A p \in P : p.name = "peer" => p = peer
  BY DEF Routing!Ports
<1> HIDE DEF P, peer
<1>3. /\ ports \in Seq(P)
      /\ \A i, j \in 1..Len(ports) : ports[i] = ports[j] => i = j
      /\ \E j \in 1..Len(ports) : ports[j] = peer
  BY <1>1, <1>2, ListingProperties
<1>4. DOMAIN ports = 1..Len(ports) /\ \A i \in 1..Len(ports) : ports[i] \in P
  BY <1>3, LenProperties, ElementOfSeq
<1>5. PICK j \in 1..Len(ports) : ports[j] = peer
  BY <1>3
<1>6. \A i \in named : i = j
  BY <1>2, <1>3, <1>4, <1>5
<1>7. j \in named
  BY <1>4, <1>5 DEF peer
<1>8. j <= j
  BY <1>5
<1>9. (CHOOSE i \in named : \A k \in named : i <= k) = j
  BY <1>6, <1>7, <1>8
<1>10. Routing!PortOf(ports) = ports[j].port
  BY <1>7, <1>9 DEF Routing!PortOf
<1>11. ports # <<>>
  <2>1. Len(<<>>) = 0
    BY EmptySeq
  <2>. QED
    BY <1>3, <1>5, <2>1
<1>. QED
  BY <1>5, <1>10, <1>11 DEF peer, Routing!PeerPort

(* The listings of PeerRouting are those of HubProxy.                      *)
LEMMA SameListings == ASSUME NEW S PROVE Routing!SetToSeqs(S) = SetToSeqs(S)
  BY DEF Routing!SetToSeqs, SetToSeqs, Routing!Cardinality, Cardinality

(* The Endpoints object: no subset, or one, which lists the ready hubs and *)
(* the ports, each once.                                                   *)
SubsetsInv ==
  subsets # <<>> =>
    /\ subsets[1].ports \in SetToSeqs(Routing!Ports)
    /\ \E ready \in SUBSET Hubs : subsets[1].addresses \in SetToSeqs(ready)

Walking == step \in {"next", "sent", "served"}

PeerAddresses == [ip : Hubs, port : {Routing!PeerPort}]

(* The peers that are walked: the ready hubs but the front, each once.     *)
ListedInv ==
  Walking =>
    /\ listed \in Seq(PeerAddresses)
    /\ \A i \in 1..Len(listed) : listed[i].ip \in Routing!Ready \ {self}
    /\ \A h \in Routing!Ready \ {self} : \E i \in 1..Len(listed) : listed[i].ip = h
    /\ \A i, j \in 1..Len(listed) : listed[i].ip = listed[j].ip => i = j

(* The request has reached the peers up to position, in their order.       *)
ReachedInv ==
  /\ step = "list" => position = 0 /\ seen = <<>>
  /\ Walking =>
       /\ position \in 0..Len(listed)
       /\ step # "next" => position # 0
       /\ Len(seen) = IF step = "sent" THEN position - 1 ELSE position
       /\ \A i \in 1..Len(seen) : seen[i].peer = listed[i]

RouteInv == PathInv /\ SubsetsInv /\ ListedInv /\ ReachedInv

(* A listing of hubs lists the hubs that are found in it, each once.       *)
LEMMA HubListing ==
  ASSUME NEW ready \in SUBSET Hubs, NEW addrs \in SetToSeqs(ready)
  PROVE  /\ Routing!Range(addrs) = ready /\ addrs \in Seq(ready)
         /\ \A i, j \in 1..Len(addrs) : addrs[i] = addrs[j] => i = j
         /\ \A x \in ready : \E j \in 1..Len(addrs) : addrs[j] = x
<1>1. IsFiniteSet(ready)
  BY HubProxyAssumption, FS_Subset
<1>2. /\ addrs \in Seq(ready)
      /\ \A i, j \in 1..Len(addrs) : addrs[i] = addrs[j] => i = j
      /\ \A x \in ready : \E j \in 1..Len(addrs) : addrs[j] = x
  BY <1>1, ListingProperties
<1>3. DOMAIN addrs = 1..Len(addrs) /\ \A i \in 1..Len(addrs) : addrs[i] \in ready
  BY <1>2, LenProperties, ElementOfSeq
<1>4. /\ \A i \in DOMAIN addrs : addrs[i] \in ready
      /\ \A x \in ready : \E i \in DOMAIN addrs : addrs[i] = x
  BY <1>2, <1>3
<1>5. Routing!Range(addrs) = ready
  BY <1>4 DEF Routing!Range
<1>. QED
  BY <1>2, <1>5

(* Each ready hub is an address of the subset, and found there once.       *)
LEMMA ReadyAddresses ==
  ASSUME SubsetsInv, subsets # <<>>
  PROVE  /\ Routing!Ready \subseteq Hubs
         /\ subsets[1].addresses \in Seq(Routing!Ready)
         /\ \A i, j \in 1..Len(subsets[1].addresses) :
              subsets[1].addresses[i] = subsets[1].addresses[j] => i = j
         /\ \A h \in Routing!Ready :
              \E i \in 1..Len(subsets[1].addresses) : subsets[1].addresses[i] = h
<1>1. PICK ready \in SUBSET Hubs : subsets[1].addresses \in SetToSeqs(ready)
  BY DEF SubsetsInv
<1>2. Routing!Ready = Routing!Range(subsets[1].addresses)
  BY DEF Routing!Ready
<1>. QED
  BY <1>1, <1>2, HubListing

(* A function on 1..n is a sequence of length n.                           *)
LEMMA FunctionIsSeq ==
  ASSUME NEW S, NEW n \in Nat, NEW f \in [1..n -> S]
  PROVE  f \in Seq(S) /\ Len(f) = n
<1>1. f \in Seq(S)
  BY SeqDef
<1>2. DOMAIN f = 1..n /\ DOMAIN f = 1..Len(f) /\ Len(f) \in Nat
  BY <1>1, LenProperties
<1>. QED
  BY <1>1, <1>2

LEMMA ListPeersRoute == ASSUME RouteInv, Routing!ListPeers PROVE ListedInv' /\ ReachedInv'
<1>1. /\ step = "list" /\ SubsetsInv /\ position = 0 /\ seen = <<>>
      /\ UNCHANGED <<subsets, self, position, seen>>
  BY DEF RouteInv, ReachedInv, Routing!ListPeers
<1>2. Routing!Ready' = Routing!Ready
  BY <1>1 DEF Routing!Ready, Routing!Range
<1>3. CASE subsets = <<>>
  <2>1. step' = "error"
    BY <1>3 DEF Routing!ListPeers
  <2>. QED
    BY <2>1 DEF ListedInv, ReachedInv, Walking
<1>4. CASE subsets # <<>>
  <2> DEFINE addrs == subsets[1].addresses
             ips == Routing!OtherAddresses(addrs)
             entry(ip) == [ip |-> ip, port |-> Routing!PeerPort]
  <2>1. subsets[1].ports # <<>> /\ Routing!PortOf(subsets[1].ports) = Routing!PeerPort
    BY <1>1, <1>4, PeerPortFound DEF SubsetsInv
  <2>2. step' = "next" /\ listed' = [i \in DOMAIN ips |-> entry(ips[i])]
    BY <1>4, <2>1 DEF Routing!ListPeers
  <2>3. /\ Routing!Ready \subseteq Hubs
        /\ addrs \in Seq(Routing!Ready)
        /\ \A i, j \in 1..Len(addrs) : addrs[i] = addrs[j] => i = j
        /\ \A h \in Routing!Ready : \E i \in 1..Len(addrs) : addrs[i] = h
    BY <1>1, <1>4, ReadyAddresses
  <2> HIDE DEF addrs
  <2>4. Kept(ips, addrs, Routing!Ready, Len(addrs))
    BY <2>3, OtherAddressesProperties
  <2> HIDE DEF ips
  <2>5. /\ ips \in Seq(Routing!Ready) /\ DOMAIN ips = 1..Len(ips) /\ Len(ips) \in Nat
        /\ \A i \in 1..Len(ips) : ips[i] \in Routing!Ready \ {self}
        /\ \A i, j \in 1..Len(ips) : ips[i] = ips[j] => i = j
    BY <2>4, LenProperties, ElementOfSeq DEF Kept
  <2>6. \A h \in Routing!Ready \ {self} : \E i \in 1..Len(ips) : ips[i] = h
    <3> SUFFICES ASSUME NEW h \in Routing!Ready \ {self} PROVE \E i \in 1..Len(ips) : ips[i] = h
      OBVIOUS
    <3>1. PICK i \in 1..Len(addrs) : addrs[i] = h
      BY <2>3
    <3>. QED
      BY <2>4, <3>1 DEF Kept
  <2>7. \A i \in 1..Len(ips) : entry(ips[i]) \in PeerAddresses
    BY <2>3, <2>5 DEF PeerAddresses
  <2>8. listed' \in Seq(PeerAddresses) /\ Len(listed') = Len(ips)
    <3>1. listed' \in [1..Len(ips) -> PeerAddresses]
      BY <2>2, <2>5, <2>7
    <3>. QED
      BY <2>5, <3>1, FunctionIsSeq
  <2>9. \A i \in 1..Len(ips) : listed'[i].ip = ips[i]
    BY <2>2, <2>5
  <2>10. ListedInv'
    BY <1>1, <1>2, <2>5, <2>6, <2>8, <2>9 DEF ListedInv
  <2>11. ReachedInv'
    <3>1. Len(seen') = 0 /\ 1..Len(seen') = {} /\ position' \in 0..Len(listed')
      BY <1>1, <2>5, <2>8, EmptySeq
    <3>. QED
      BY <1>1, <2>2, <3>1 DEF ReachedInv
  <2>. QED
    BY <2>10, <2>11
<1>. QED
  BY <1>3, <1>4

LEMMA PeerHandlerRoute == ASSUME RouteInv, Routing!PeerHandler PROVE ListedInv' /\ ReachedInv'
<1> DEFINE x == [peer |-> listed[position], subpath |-> Routing!TrimPrefix(path)]
<1>1. /\ step = "sent" /\ step' = "served" /\ seen' = Append(seen, x)
      /\ UNCHANGED <<subsets, self, listed, position>>
  BY DEF Routing!PeerHandler
<1>2. x.peer = listed[position]
  OBVIOUS
<1> HIDE DEF x
<1>3. /\ position \in 1..Len(listed) /\ Len(listed) \in Nat
      /\ Len(seen) = position - 1
      /\ \A i \in 1..Len(seen) : seen[i].peer = listed[i]
  <2>1. Len(listed) \in Nat
    BY <1>1, LenProperties DEF RouteInv, ListedInv, Walking
  <2>. QED
    BY <1>1, <2>1 DEF RouteInv, ReachedInv, Walking
<1>4. ListedInv'
  <2>1. Routing!Ready' = Routing!Ready
    BY <1>1 DEF Routing!Ready, Routing!Range
  <2>. QED
    BY <1>1, <2>1 DEF RouteInv, ListedInv, Walking
<1>5. /\ Len(seen') = position /\ seen'[position] = x
      /\ \A i \in 1..Len(seen) : seen'[i] = seen[i]
  <2> DEFINE T == Routing!Range(seen) \cup {x}
  <2>1. seen \in Seq(T) /\ x \in T
    BY SeqMonotonic DEF RouteInv, PathInv
  <2> HIDE DEF T
  <2>2. /\ Len(seen') = Len(seen) + 1 /\ seen'[Len(seen) + 1] = x
        /\ \A i \in 1..Len(seen) : seen'[i] = seen[i]
    BY <1>1, <2>1, AppendProperties
  <2>. QED
    BY <1>3, <2>2
<1>6. \A i \in 1..Len(seen') : i \in 1..Len(seen) \/ i = position
  BY <1>3, <1>5
<1>7. \A i \in 1..Len(seen') : seen'[i].peer = listed[i]
  BY <1>2, <1>3, <1>5, <1>6
<1>8. position \in 0..Len(listed) /\ position # 0
  BY <1>3
<1>. QED
  BY <1>1, <1>4, <1>5, <1>7, <1>8 DEF ReachedInv, Walking

LEMMA RouteNext == RouteInv /\ [Routing!Next]_(Routing!vars) => RouteInv'
<1> SUFFICES ASSUME RouteInv, [Routing!Next]_(Routing!vars) PROVE RouteInv'
  OBVIOUS
<1>1. PathInv'
  BY RoutingNext DEF RouteInv
<1>2. UNCHANGED <<subsets, self>>
  BY DEF Routing!Next, Routing!vars, Routing!ListPeers, Routing!TryNextPeer, Routing!PeerHandler,
         Routing!PeerAnswers, Routing!PeerRefuses, Routing!Finished
<1>3. SubsetsInv' /\ Routing!Ready' = Routing!Ready
  BY <1>2 DEF RouteInv, SubsetsInv, Routing!Ready, Routing!Range
<1>4. SUFFICES ListedInv' /\ ReachedInv'
  BY <1>1, <1>3 DEF RouteInv
<1>5. CASE Routing!ListPeers
  BY <1>5, ListPeersRoute
<1>6. CASE Routing!PeerHandler
  BY <1>6, PeerHandlerRoute
<1>7. CASE Routing!TryNextPeer
  <2>1. /\ step = "next" /\ UNCHANGED <<listed, seen>>
        /\ \/ step' = "done"
           \/ step' = "sent" /\ position < Len(listed) /\ position' = position + 1
    <3>1. position \in Nat /\ Len(listed) \in Nat
      BY <1>7, LenProperties DEF Routing!TryNextPeer, RouteInv, ListedInv, ReachedInv, Walking
    <3>. QED
      BY <1>7, <3>1 DEF Routing!TryNextPeer
  <2>2. ListedInv'
    BY <1>2, <1>3, <2>1 DEF RouteInv, ListedInv, Walking
  <2>3. /\ position \in 0..Len(listed) /\ Len(seen) = position /\ Len(listed) \in Nat
        /\ \A i \in 1..Len(seen) : seen[i].peer = listed[i]
    BY <2>1, LenProperties DEF RouteInv, ListedInv, ReachedInv, Walking
  <2>. QED
    BY <2>1, <2>2, <2>3 DEF ReachedInv, Walking
<1>8. CASE Routing!PeerRefuses
  <2>1. step = "served" /\ step' = "next" /\ UNCHANGED <<listed, position, seen>>
    BY <1>8 DEF Routing!PeerRefuses
  <2>. QED
    BY <1>2, <1>3, <2>1 DEF RouteInv, ListedInv, ReachedInv, Walking
<1>9. CASE Routing!PeerAnswers
  BY <1>9 DEF Routing!PeerAnswers, ListedInv, ReachedInv, Walking
<1>10. CASE UNCHANGED Routing!vars
  BY <1>3, <1>10 DEF Routing!vars, RouteInv, ListedInv, ReachedInv, Walking
<1>. QED
  BY <1>5, <1>6, <1>7, <1>8, <1>9, <1>10 DEF Routing!Next, Routing!Finished

LEMMA RouteInit == Routing!Init => RouteInv
<1> SUFFICES ASSUME Routing!Init PROVE RouteInv
  OBVIOUS
<1>1. step = "list" /\ position = 0 /\ seen = <<>>
  BY DEF Routing!Init
<1>2. SubsetsInv
  <2> SUFFICES ASSUME subsets # <<>>
               PROVE  /\ subsets[1].ports \in SetToSeqs(Routing!Ports)
                      /\ \E ready \in SUBSET Hubs : subsets[1].addresses \in SetToSeqs(ready)
    BY DEF SubsetsInv
  <2>1. PICK ready \in SUBSET Hubs, unready \in SUBSET Hubs :
          subsets \in Routing!EndpointsOf(ready, unready)
    BY DEF Routing!Init
  <2>2. PICK ps \in SetToSeqs(Routing!Ports), addrs \in SetToSeqs(ready) :
          subsets = <<[ports |-> ps, addresses |-> addrs, notReady |-> unready]>>
    BY <2>1, SameListings DEF Routing!EndpointsOf
  <2>. QED
    BY <2>2
<1>. QED
  BY <1>1, <1>2, RoutingInit DEF RouteInv, ListedInv, ReachedInv, Walking

(* A walk that finds nobody to answer has turned to the peer port of every *)
(* ready hub but the front, to each once, and to nothing else.             *)
THEOREM WalkReachesAll == Routing!Spec => []Routing!WalkReachesAllPeers
<1>1. ASSUME RouteInv PROVE Routing!WalkReachesAllPeers
  <2> SUFFICES ASSUME step = "next", position = Len(listed)
               PROVE  /\ {x.peer : x \in Routing!Range(seen)} =
                           {[ip |-> h, port |-> Routing!PeerPort] : h \in Routing!Ready \ {self}}
                      /\ \A i, j \in DOMAIN seen : seen[i].peer = seen[j].peer => i = j
    BY DEF Routing!WalkReachesAllPeers
  <2>1. /\ listed \in Seq(PeerAddresses)
        /\ \A i \in 1..Len(listed) : listed[i].ip \in Routing!Ready \ {self}
        /\ \A h \in Routing!Ready \ {self} : \E i \in 1..Len(listed) : listed[i].ip = h
        /\ \A i, j \in 1..Len(listed) : listed[i].ip = listed[j].ip => i = j
    BY <1>1 DEF RouteInv, ListedInv, Walking
  <2>2. Len(seen) = Len(listed) /\ \A i \in 1..Len(seen) : seen[i].peer = listed[i]
    BY <1>1 DEF RouteInv, ReachedInv, Walking
  <2>3. DOMAIN seen = 1..Len(listed)
    BY <1>1, <2>2, LenProperties DEF RouteInv, PathInv
  <2>4. \A i \in 1..Len(listed) : listed[i] = [ip |-> listed[i].ip, port |-> Routing!PeerPort]
    <3>1. \A i \in 1..Len(listed) : listed[i] \in PeerAddresses
      BY <2>1, ElementOfSeq
    <3>. QED
      BY <3>1 DEF PeerAddresses
  <2>5. {x.peer : x \in Routing!Range(seen)} = {listed[i] : i \in 1..Len(listed)}
    <3>1. Routing!Range(seen) = {seen[i] : i \in 1..Len(listed)}
      BY <2>3 DEF Routing!Range
    <3>. QED
      BY <2>2, <3>1
  <2>6. {listed[i] : i \in 1..Len(listed)} =
          {[ip |-> h, port |-> Routing!PeerPort] : h \in Routing!Ready \ {self}}
    <3>1. \A i \in 1..Len(listed) : \E h \in Routing!Ready \ {self} :
            listed[i] = [ip |-> h, port |-> Routing!PeerPort]
      BY <2>1, <2>4
    <3>2. \A h \in Routing!Ready \ {self} : \E i \in 1..Len(listed) :
            listed[i] = [ip |-> h, port |-> Routing!PeerPort]
      BY <2>1, <2>4
    <3>. QED
      BY <3>1, <3>2
  <2>7. \A i, j \in DOMAIN seen : seen[i].peer = seen[j].peer => i = j
    BY <2>1, <2>2, <2>3
  <2>. QED
    BY <2>5, <2>6, <2>7
<1>. QED
  BY <1>1, RouteInit, RouteNext, PTL DEF Routing!Spec

=============================================================================
