------------------------------ MODULE HubProxy ------------------------------
(***************************************************************************)
(* The way of a request for one member cluster through the hub replicas    *)
(* (NewProxyHandler in pkg/hub/cluster/subresources.go, StartServer,       *)
(* ListPeers and TryNextPeer in pkg/hub/peer/server.go).                   *)
(*                                                                         *)
(* The hub that a client reaches (front) looks the Cluster up and dials a  *)
(* session of its own.  On any error of that round trip it lists its peers *)
(* and forwards the request to one after the other until one answers with  *)
(* something else than 502.  A peer serves the request from its own        *)
(* sessions only.  At any time hubs crash and restart, sessions break,     *)
(* are noticed to be broken later, the Endpoints object lags behind,       *)
(* clients give up and the Cluster is deleted and created.                 *)
(*                                                                         *)
(* A hub's sessions are the pool of module SessionPool, for one key.       *)
(***************************************************************************)
EXTENDS Naturals, Sequences, SequencesExt

CONSTANTS Hubs, Sessions, Requests,
          None,      \* no hub, session or answer
          MaxFaults  \* bound on crashes, broken sessions and gateway errors

ASSUME HubProxyAssumption ==
  /\ IsFiniteSet(Hubs)
  /\ None \notin Hubs \cup Sessions \cup {"ok", "404", "500", "502", "lost"}
  /\ MaxFaults \in Nat

VARIABLES
  hubUp,     \* hub -> its process runs
  endpoints, \* ready addresses of the hub Service's Endpoints object
  cluster,   \* the Cluster object exists
  sess,      \* session -> "new" | "open" | "broken" (unnoticed) | "closed"
  pool,      \* hub -> sessions that its session manager lists
  pc,        \* request -> what its handlers do next
  front,     \* request -> hub that the client reached
  hop,       \* request -> hub whose proxy handler works on it
  peers,     \* request -> result of ListPeers
  idx,       \* request -> number of peers that nextPeer has returned
  via,       \* request -> session that carries it, or None
  body,      \* request -> "none" | "fresh" | "spent"
  ans,       \* request -> "ok" | "404" | "500" | "502" | "lost", or None
  faults     \* number of faults so far

(* History, for the properties only.                                       *)
VARIABLES
  execs,   \* request -> times the member cluster has executed it
  late,    \* request -> copies given up by the hubs, still on their way
  cuts,    \* request -> round trips that failed after the request was sent
  own502,  \* request -> executions that the member itself answered with 502
  stopped, \* request -> a peer could not be reached, which ended the walk
  tried,   \* request -> hub -> dials made for it there, counted up to 2
  steady   \* request -> sessions that were usable ever since it arrived

hubVars  == <<hubUp, endpoints, cluster>>
poolVars == <<sess, pool>>
walkVars == <<front, hop, peers, idx>>
legVars  == <<via, body>>
countVars == <<execs, late, cuts, own502, stopped, tried>>
histVars == <<countVars, steady>>
vars == <<hubVars, poolVars, pc, walkVars, legVars, ans, faults, histVars>>

Init ==
  /\ hubUp     = [h \in Hubs |-> TRUE]
  /\ endpoints = Hubs
  /\ cluster   = TRUE
  /\ sess      = [s \in Sessions |-> "new"]
  /\ pool      = [h \in Hubs |-> {}]
  /\ pc        = [r \in Requests |-> "idle"]
  /\ front     = [r \in Requests |-> None]
  /\ hop       = [r \in Requests |-> None]
  /\ peers     = [r \in Requests |-> <<>>]
  /\ idx       = [r \in Requests |-> 0]
  /\ via       = [r \in Requests |-> None]
  /\ body      = [r \in Requests |-> "none"]
  /\ ans       = [r \in Requests |-> None]
  /\ faults    = 0
  /\ execs     = [r \in Requests |-> 0]
  /\ late      = [r \in Requests |-> 0]
  /\ cuts      = [r \in Requests |-> 0]
  /\ own502    = [r \in Requests |-> 0]
  /\ stopped   = [r \in Requests |-> FALSE]
  /\ tried     = [r \in Requests |-> [h \in Hubs |-> 0]]
  /\ steady    = [r \in Requests |-> {}]

-----------------------------------------------------------------------------
(* What ends a round trip                                                  *)

Active(r) == pc[r] \notin {"idle", "done"}
AtPeer(r) == hop[r] # front[r]

(* The client's answer.                                                    *)
Finish(r, a) ==
  /\ pc'  = [pc EXCEPT ![r] = "done"]
  /\ ans' = [ans EXCEPT ![r] = a]
  /\ via' = [via EXCEPT ![r] = None]

(* ModifyResponse of TryNextPeer takes every 502 that comes by a peer for  *)
(* that of a peer without a session, whoever it is of.                     *)
PassedOverAlways(r, a) == AtPeer(r)
PassedOver(r, a) == AtPeer(r) /\ a = "502"

Goto(r, l) ==
  /\ pc'  = [pc EXCEPT ![r] = l]
  /\ via' = [via EXCEPT ![r] = None]
  /\ UNCHANGED ans

(* hop[r] answers the request with a.                                      *)
Answer(r, a) == IF PassedOver(r, a) THEN Goto(r, "next") ELSE Finish(r, a)

(* RoundTrip of the hub that works on r fails: ErrorHandler runs on the    *)
(* front, while a peer has the default one, which answers 502.             *)
RoundTripError(r) == IF AtPeer(r) THEN Answer(r, "502") ELSE Goto(r, "error")

(* A copy of r that nobody waits for may or may not reach the member.      *)
MayStraggle(r) == late' = late \/ late' = [late EXCEPT ![r] = @ + 1]

(* RoundTrip reads or closes the body of the request, whatever comes of it.*)
SpendBody(r) ==
  body' = [body EXCEPT ![r] = IF @ = "none" THEN "none" ELSE "spent"]

Fault == faults < MaxFaults /\ faults' = faults + 1

(* History: sessions on which a stream to the member can be opened, on     *)
(* hubs that are ready, and which of them were so ever since r arrived.    *)
Usable ==
  {s \in Sessions : sess[s] = "open" /\ \E h \in endpoints : hubUp[h] /\ s \in pool[h]}

Track ==
  steady' = [r \in Requests |-> IF Active(r) THEN steady[r] \cap Usable' ELSE steady[r]]

-----------------------------------------------------------------------------
(* The proxy handler: on the front, and on a peer                          *)

Arrive(r, h) ==
  /\ pc[r] = "idle" /\ hubUp[h]
  /\ \E b \in {"none", "fresh"} : body' = [body EXCEPT ![r] = b]
  /\ pc'    = [pc EXCEPT ![r] = "get"]
  /\ front' = [front EXCEPT ![r] = h]
  /\ hop'   = [hop EXCEPT ![r] = h]
  /\ steady' = [steady EXCEPT ![r] = Usable]
  /\ UNCHANGED <<hubVars, poolVars, peers, idx, via, ans, faults, countVars>>

GetCluster(r) ==
  /\ pc[r] = "get"
  /\ \/ cluster /\ Goto(r, "dial")
     \/ ~cluster /\ Answer(r, "404")
     \/ Answer(r, "500")   \* the host cluster's API fails
  /\ UNCHANGED <<hubVars, poolVars, walkVars, body, faults, histVars>>

(* DialCluster: a failing Open closes a session and removes it.            *)
DialEvict(r, s) ==
  LET h == hop[r] IN
  /\ pc[r] = "dial" /\ s \in pool[h]
  /\ IF sess[s] = "open" THEN Fault ELSE UNCHANGED faults
  /\ sess' = [sess EXCEPT ![s] = "closed"]
  /\ pool' = [pool EXCEPT ![h] = @ \ {s}]
  /\ UNCHANGED <<hubVars, pc, walkVars, legVars, ans, countVars>>
  /\ Track

CountDial(r) == tried' = [tried EXCEPT ![r][hop[r]] = IF @ = 2 THEN 2 ELSE @ + 1]

(* Open succeeds also on a session that is broken and not yet noticed.     *)
OpenStream(r, s) ==
  /\ pc[r] = "dial" /\ s \in pool[hop[r]] /\ sess[s] \in {"open", "broken"}
  /\ pc'  = [pc EXCEPT ![r] = "sent"]
  /\ via' = [via EXCEPT ![r] = s]
  /\ SpendBody(r) /\ CountDial(r)
  /\ UNCHANGED <<hubVars, poolVars, walkVars, ans, faults, execs, late, cuts, own502, stopped,
                 steady>>

NoSession(r) ==
  /\ pc[r] = "dial" /\ pool[hop[r]] = {}
  /\ RoundTripError(r)
  /\ SpendBody(r) /\ CountDial(r)
  /\ UNCHANGED <<hubVars, poolVars, walkVars, faults, execs, late, cuts, own502, stopped, steady>>

(* The session ends below the stream before the response has begun.        *)
StreamError(r) ==
  /\ pc[r] \in {"sent", "executed"} /\ sess[via[r]] = "closed"
  /\ cuts' = [cuts EXCEPT ![r] = @ + 1]
  /\ IF pc[r] = "sent" THEN MayStraggle(r) ELSE UNCHANGED late
  /\ RoundTripError(r)
  /\ UNCHANGED <<hubVars, poolVars, walkVars, body, faults, execs, own502, stopped, tried, steady>>

(* ... or after: the reverse proxies abort the response.                   *)
AbortResponse(r) ==
  /\ pc[r] = "executed" /\ sess[via[r]] = "closed"
  /\ Finish(r, "lost")
  /\ UNCHANGED <<hubVars, poolVars, walkVars, body, faults, histVars>>

-----------------------------------------------------------------------------
(* The front's ErrorHandler and the walk along the peers                   *)

(* Ready addresses without the hub's own, in the order of the Endpoints    *)
(* object, which is any.                                                   *)
ListPeersAndSelf(h) == SetToSeqs(endpoints)
ListPeersAndBlank(h) == SetToSeqs((endpoints \ {h}) \cup {None})
ListPeers(h) == SetToSeqs(endpoints \ {h})

ErrorHandler(r) ==
  /\ pc[r] = "error"
  /\ \/ \E list \in ListPeers(front[r]) :
          /\ peers' = [peers EXCEPT ![r] = list]
          /\ idx'   = [idx EXCEPT ![r] = 0]
          /\ Goto(r, "next")
     \/ /\ Finish(r, "500")   \* no Endpoints, no subset, no port
        /\ UNCHANGED <<peers, idx>>
  /\ UNCHANGED <<hubVars, poolVars, front, hop, body, faults, histVars>>

(* nextPeer() has no more peers                                            *)
LastSkipped(r) == idx[r] + 1 >= Len(peers[r])
NoMorePeers(r) == idx[r] >= Len(peers[r])

(* The request cannot be sent again once its body has been read or closed. *)
ResendableAlways(r) == TRUE
Resendable(r) == body[r] # "spent"

(* idx++ in nextPeer                                                       *)
AdvanceStuck(r) == idx' = idx
Advance(r) == idx' = [idx EXCEPT ![r] = @ + 1]

TryNextPeer(r) ==
  LET peer == peers[r][idx[r] + 1] IN
  /\ pc[r] = "next"
  /\ \/ /\ NoMorePeers(r)
        /\ Finish(r, "502")
        /\ UNCHANGED <<hop, idx, stopped>>
     \/ /\ ~NoMorePeers(r)
        /\ Advance(r)
        /\ \/ Finish(r, "500") /\ UNCHANGED <<hop, stopped>>   \* no certificate
           \/ /\ ~Resendable(r)
              /\ Finish(r, "502")
              /\ UNCHANGED <<hop, stopped>>
           \/ /\ Resendable(r) /\ ~hubUp[peer]
              /\ stopped' = [stopped EXCEPT ![r] = TRUE]
              /\ Finish(r, "502")
              /\ UNCHANGED hop
           \/ /\ Resendable(r) /\ hubUp[peer]
              /\ hop' = [hop EXCEPT ![r] = peer]
              /\ Goto(r, "get")
              /\ UNCHANGED stopped
  /\ UNCHANGED <<hubVars, poolVars, front, peers, body, faults, execs, late, cuts, own502, tried,
                 steady>>

-----------------------------------------------------------------------------
(* The member cluster: the agent hands the request to kube-apiserver       *)

Execute(r) ==
  /\ pc[r] = "sent" /\ sess[via[r]] = "open"
  /\ execs' = [execs EXCEPT ![r] = @ + 1]
  /\ pc'    = [pc EXCEPT ![r] = "executed"]
  /\ UNCHANGED <<hubVars, poolVars, walkVars, legVars, ans, faults, late, cuts, own502, stopped,
                 tried,
                 steady>>

(* A response of kube-apiserver other than a 502.                          *)
Respond(r) ==
  /\ pc[r] = "executed" /\ sess[via[r]] = "open"
  /\ Answer(r, "ok")
  /\ UNCHANGED <<hubVars, poolVars, walkVars, body, faults, histVars>>

(* kube-apiserver answers 502 (the backend of a service, pod or node proxy *)
(* or an aggregated API fails); the agent passes the response on.          *)
MemberBadGateway(r) ==
  /\ pc[r] = "executed" /\ sess[via[r]] = "open"
  /\ own502' = [own502 EXCEPT ![r] = @ + 1]
  /\ Answer(r, "502")
  /\ UNCHANGED <<hubVars, poolVars, walkVars, body, faults, execs, late, cuts, stopped, tried,
                 steady>>

(* The agent answers 502 itself: its round trip to kube-apiserver failed,  *)
(* before or after the request was sent.                                   *)
AgentBadGateway(r) ==
  /\ pc[r] = "sent" /\ sess[via[r]] = "open" /\ Fault
  /\ cuts' = [cuts EXCEPT ![r] = @ + 1]
  /\ MayStraggle(r)
  /\ Answer(r, "502")
  /\ UNCHANGED <<hubVars, poolVars, walkVars, body, execs, own502, stopped, tried, steady>>

LateExecute(r) ==
  /\ late[r] > 0
  /\ late'  = [late EXCEPT ![r] = @ - 1]
  /\ execs' = [execs EXCEPT ![r] = @ + 1]
  /\ UNCHANGED <<hubVars, poolVars, pc, walkVars, legVars, ans, faults, cuts, own502, stopped,
                 tried,
                 steady>>

-----------------------------------------------------------------------------
(* The environment                                                         *)

(* An agent connects: its session is filed by AddClusterSession.           *)
Connect(s, h) ==
  /\ sess[s] = "new" /\ hubUp[h] /\ cluster
  /\ sess' = [sess EXCEPT ![s] = "open"]
  /\ pool' = [pool EXCEPT ![h] = @ \cup {s}]
  /\ UNCHANGED <<hubVars, pc, walkVars, legVars, ans, faults, histVars>>

(* The agent exits or its network fails; the hub notices later.            *)
SessionBreak(s) ==
  /\ sess[s] = "open" /\ Fault
  /\ sess' = [sess EXCEPT ![s] = "broken"]
  /\ UNCHANGED <<hubVars, pool, pc, walkVars, legVars, ans, countVars>>
  /\ Track

SessionDetect(s) ==
  /\ sess[s] = "broken"
  /\ sess' = [sess EXCEPT ![s] = "closed"]
  /\ UNCHANGED <<hubVars, pool, pc, walkVars, legVars, ans, faults, histVars>>

(* The client gives up: the context of every handler of r ends, and no     *)
(* further peer is tried.                                                  *)
ClientCancel(r) ==
  /\ Active(r)
  /\ IF pc[r] \in {"dial", "sent"} \/ (pc[r] = "get" /\ AtPeer(r))
     THEN MayStraggle(r) ELSE UNCHANGED late
  /\ Finish(r, "lost")
  /\ UNCHANGED <<hubVars, poolVars, walkVars, body, faults, execs, cuts, own502, stopped, tried,
                 steady>>

(* Requests whose front crashes are lost; those that h serves as a peer    *)
(* end with 502 at their front, or are aborted there when the response has *)
(* begun.                                                                  *)
HubCrash(h) ==
  LET fronted == {r \in Requests : Active(r) /\ front[r] = h}
      peered  == {r \in Requests : /\ front[r] # h /\ hop[r] = h
                                   /\ pc[r] \in {"get", "dial", "sent", "executed"}}
      sent    == {r \in fronted \cup peered : pc[r] = "sent"}
      ahead   == {r \in fronted : AtPeer(r) /\ pc[r] \in {"get", "dial"}}
  IN
  /\ hubUp[h] /\ Fault
  /\ hubUp' = [hubUp EXCEPT ![h] = FALSE]
  /\ sess'  = [s \in Sessions |-> IF s \in pool[h] THEN "closed" ELSE sess[s]]
  /\ pool'  = [pool EXCEPT ![h] = {}]
  /\ pc'  = [r \in Requests |-> IF r \in fronted \cup peered THEN "done" ELSE pc[r]]
  /\ via' = [r \in Requests |-> IF r \in fronted \cup peered THEN None ELSE via[r]]
  /\ \E begun \in SUBSET {r \in peered : pc[r] = "executed"} :
       /\ ans' = [r \in Requests |-> IF r \in fronted \cup begun THEN "lost"
                                     ELSE IF r \in peered THEN "502" ELSE ans[r]]
       /\ stopped' = [r \in Requests |-> stopped[r] \/ r \in peered \ begun]
       /\ cuts' = [r \in Requests |->
                     IF r \in peered \ begun /\ pc[r] \in {"sent", "executed"}
                     THEN cuts[r] + 1 ELSE cuts[r]]
  /\ \E strag \in SUBSET (sent \cup ahead) :
       late' = [r \in Requests |-> IF r \in strag THEN late[r] + 1 ELSE late[r]]
  /\ UNCHANGED <<endpoints, cluster, walkVars, body, execs, own502, tried>>
  /\ Track

HubStart(h) ==
  /\ ~hubUp[h]
  /\ hubUp' = [hubUp EXCEPT ![h] = TRUE]
  /\ UNCHANGED <<endpoints, cluster, poolVars, pc, walkVars, legVars, ans, faults, histVars>>

(* The endpoints controller follows the readiness of the hubs, late.       *)
EndpointsSync(h) ==
  /\ \/ h \in endpoints /\ endpoints' = endpoints \ {h}
     \/ hubUp[h] /\ h \notin endpoints /\ endpoints' = endpoints \cup {h}
  /\ UNCHANGED <<hubUp, cluster, poolVars, pc, walkVars, legVars, ans, faults, countVars>>
  /\ Track

(* Sessions of a deleted Cluster stay with their hubs.                     *)
ClusterChange ==
  /\ cluster' = ~cluster
  /\ UNCHANGED <<hubUp, endpoints, poolVars, pc, walkVars, legVars, ans, faults, histVars>>

-----------------------------------------------------------------------------
HubStep(r) ==
  \/ GetCluster(r) \/ NoSession(r) \/ StreamError(r) \/ AbortResponse(r)
  \/ ErrorHandler(r) \/ TryNextPeer(r)
  \/ \E s \in Sessions : DialEvict(r, s) \/ OpenStream(r, s)

MemberStep(r) == Execute(r) \/ Respond(r) \/ MemberBadGateway(r) \/ AgentBadGateway(r)

Environment ==
  \/ \E r \in Requests :
       LateExecute(r) \/ ClientCancel(r) \/ \E h \in Hubs : Arrive(r, h)
  \/ \E s \in Sessions :
       SessionBreak(s) \/ SessionDetect(s) \/ \E h \in Hubs : Connect(s, h)
  \/ \E h \in Hubs : HubCrash(h) \/ HubStart(h) \/ EndpointsSync(h)
  \/ ClusterChange

Next ==
  \/ \E r \in Requests : HubStep(r) \/ MemberStep(r)
  \/ Environment

Spec == Init /\ [][Next]_vars

(* The handlers of a running hub go on; a member cluster answers what it   *)
(* has received; yamux's keepalive notices a broken session.               *)
Fairness ==
  /\ \A r \in Requests : WF_vars(HubStep(r)) /\ WF_vars(MemberStep(r))
  /\ \A s \in Sessions : WF_vars(SessionDetect(s))

FairSpec == Spec /\ Fairness

-----------------------------------------------------------------------------
(* Properties                                                              *)

(* Type invariant of the hubs, the sessions and the requests.              *)
TypeOK ==
  /\ hubUp \in [Hubs -> BOOLEAN]
  /\ endpoints \subseteq Hubs
  /\ cluster \in BOOLEAN
  /\ sess \in [Sessions -> {"new", "open", "broken", "closed"}]
  /\ pool \in [Hubs -> SUBSET Sessions]
  /\ pc \in [Requests -> {"idle", "get", "dial", "sent", "executed", "error", "next", "done"}]
  /\ front \in [Requests -> Hubs \cup {None}]
  /\ hop \in [Requests -> Hubs \cup {None}]
  /\ peers \in [Requests -> Seq(Hubs)]
  /\ idx \in [Requests -> Nat]
  /\ via \in [Requests -> Sessions \cup {None}]
  /\ body \in [Requests -> {"none", "fresh", "spent"}]
  /\ ans \in [Requests -> {"ok", "404", "500", "502", "lost", None}]
  /\ faults \in 0..MaxFaults
  /\ execs \in [Requests -> Nat]
  /\ late \in [Requests -> Nat]
  /\ cuts \in [Requests -> Nat]
  /\ own502 \in [Requests -> Nat]
  /\ stopped \in [Requests -> BOOLEAN]
  /\ tried \in [Requests -> [Hubs -> 0..2]]
  /\ steady \in [Requests -> SUBSET Sessions]

(* Copies of r that the member has executed or may still execute.          *)
Copies(r) == execs[r] + late[r] + (IF pc[r] = "sent" THEN 1 ELSE 0)

(* A request with a body is executed at most once, however its round trips *)
(* fail: RoundTrip has spent the body when ErrorHandler forwards the       *)
(* request, and the forwarding fails before a peer has all of it.          *)
BodiedAtMostOnce == \A r \in Requests : body[r] # "none" => Copies(r) <= 1

(* Hubs repeat a request only after a round trip that failed after it was  *)
(* sent, or after a 502 that is the member's own and that the front takes  *)
(* for a peer without a session: every execution but the last is accounted *)
(* for by one of the two, and walking along the peers by itself never      *)
(* duplicates a request.                                                   *)
RepeatedOnlyAfterFailure == \A r \in Requests : Copies(r) <= 1 + cuts[r] + own502[r]

(* The answer tells the truth about the member: "ok" means that it has     *)
(* executed the request; and when the client gets an error, then all       *)
(* copies that the member has executed or may still execute were either    *)
(* answered with 502 by the member itself or cut on their way, so that an  *)
(* error never hides a response that was given.                            *)
AnswerTruthful ==
  \A r \in Requests : pc[r] = "done" =>
    /\ ans[r] = "ok" => execs[r] > 0
    /\ ans[r] \in {"404", "500", "502"} => Copies(r) <= cuts[r] + own502[r]

(* A request is served at most once by every hub: the front is not its own *)
(* peer, peers do not forward, and the walk visits none of them twice.     *)
EachHubTriedOnce == \A r \in Requests, h \in Hubs : tried[r][h] <= 1

(* A request without a body is refused with 502 only when no session was   *)
(* usable on some ready hub for as long as the request took, unless a      *)
(* failure that it met (an unreachable peer, a cut) ended its walk or the  *)
(* member has itself answered 502.                                         *)
NoNeedless502 ==
  \A r \in Requests :
    ans[r] = "502" /\ body[r] = "none" /\ cuts[r] = 0 /\ own502[r] = 0 /\ ~stopped[r] =>
      steady[r] = {}

(* The same, of requests with and without a body.                          *)
AnyRequestIsProxied ==
  \A r \in Requests :
    ans[r] = "502" /\ cuts[r] = 0 /\ own502[r] = 0 /\ ~stopped[r] => steady[r] = {}

(* Every request ends, with an answer or by losing its hub or its client.  *)
EveryRequestEnds == \A r \in Requests : Active(r) ~> pc[r] = "done"
=============================================================================
