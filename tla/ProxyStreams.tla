---------------------------- MODULE ProxyStreams ----------------------------
(***************************************************************************)
(* Proxied requests for several clusters on one hub (NewProxyHandler in    *)
(* pkg/hub/cluster/subresources.go) over the sessions of its session       *)
(* manager, which appears as its promise, module SessionPool.  A stream    *)
(* outlives its request: the transport keeps it, under the address that    *)
(* all requests have in common (127.0.0.1), for a request of its own that  *)
(* might follow.  Cluster objects come and go, sessions stay.              *)
(*                                                                         *)
(* What a failed dial or a cut request lead to is in HubProxy; here the    *)
(* request ends.                                                           *)
(***************************************************************************)
CONSTANTS Keys, Sessions,
          Requests,  \* each with a handler of its own
          Connects,  \* connect handlers
          None, DialError

ASSUME StreamsAssumption ==
  /\ Requests \cap Connects = {}
  /\ {None, DialError} \cap (Keys \cup Sessions \cup Requests) = {}

VARIABLES
  sess, pool, call, key, arg, ret,  \* the session manager
  cluster,  \* keys of the Cluster objects that exist
  pc,       \* request -> "idle" | "get" | "dial" | "sent" | "done"
  target,   \* request -> key that it is for, or None
  strm,     \* request -> session of the stream that carries it, or None
  idle      \* idle streams: <<transport, session>>

(* History, for the properties only.                                       *)
VARIABLES
  owner,  \* session -> key that it connected for, or None
  seen    \* requests whose Cluster has existed at some time since they came

poolVars == <<sess, pool, call, key, arg, ret>>
reqVars  == <<pc, target, strm, idle>>
vars == <<poolVars, cluster, reqVars, owner, seen>>

Manager == INSTANCE SessionPool WITH Threads <- Requests \cup Connects

Init ==
  /\ Manager!Init
  /\ cluster = {}
  /\ pc      = [r \in Requests |-> "idle"]
  /\ target  = [r \in Requests |-> None]
  /\ strm    = [r \in Requests |-> None]
  /\ idle    = {}
  /\ owner   = [s \in Sessions |-> None]
  /\ seen    = {}

Goto(r, l) == pc' = [pc EXCEPT ![r] = l]
Carry(r, s) == Goto(r, "sent") /\ strm' = [strm EXCEPT ![r] = s]

-----------------------------------------------------------------------------
Arrive(r, k) ==
  /\ pc[r] = "idle" /\ Goto(r, "get")
  /\ target' = [target EXCEPT ![r] = k]
  /\ seen' = IF k \in cluster THEN seen \cup {r} ELSE seen
  /\ UNCHANGED <<poolVars, cluster, strm, idle, owner>>

(* The handler makes a transport for its request.                          *)
TransportShared(r) == "hub"
Transport(r) == r

FoundUnchecked(r) == TRUE
Found(r) == target[r] \in cluster

(* 404, or 500 when the Get fails; or the round trip begins: on an idle    *)
(* stream if its transport has one, else with a dial.                      *)
GetCluster(r) ==
  LET mine == {s \in Sessions : <<Transport(r), s>> \in idle} IN
  /\ pc[r] = "get"
  /\ \/ Goto(r, "done") /\ UNCHANGED <<poolVars, strm, idle>>
     \/ /\ Found(r)
        /\ IF mine # {}
           THEN /\ \E s \in mine : Carry(r, s) /\ idle' = idle \ {<<Transport(r), s>>}
                /\ UNCHANGED poolVars
           ELSE Manager!CallDial(r, target[r]) /\ Goto(r, "dial") /\ UNCHANGED <<strm, idle>>
  /\ UNCHANGED <<cluster, target, owner, seen>>

DialOK(r) ==
  /\ pc[r] = "dial" /\ Manager!DialOK(r)
  /\ Carry(r, ret'[r])
  /\ UNCHANGED <<cluster, target, idle, owner, seen>>

DialFail(r) ==
  /\ pc[r] = "dial" /\ Manager!DialFail(r)
  /\ Goto(r, "done")
  /\ UNCHANGED <<cluster, target, strm, idle, owner, seen>>

(* A stream ends with its session.                                         *)
DropNothing == UNCHANGED idle
DropDead == idle' = {i \in idle : sess'[i[2]] = "open"}

DialEvict(r) ==
  /\ pc[r] = "dial" /\ Manager!Evict(r) /\ DropDead
  /\ UNCHANGED <<cluster, pc, target, strm, owner, seen>>

(* The member has answered, and the stream is idle.                        *)
Respond(r) ==
  /\ pc[r] = "sent" /\ sess[strm[r]] = "open" /\ Goto(r, "done")
  /\ idle' = idle \cup {<<Transport(r), strm[r]>>}
  /\ UNCHANGED <<poolVars, cluster, target, strm, owner, seen>>

Cut(r) ==
  /\ pc[r] = "sent" /\ sess[strm[r]] = "closed" /\ Goto(r, "done")
  /\ UNCHANGED <<poolVars, cluster, target, strm, idle, owner, seen>>

-----------------------------------------------------------------------------
(* A connect call has passed the check of the token.                       *)
Connect(c, k, s) ==
  /\ k \in cluster
  /\ Manager!CallAdd(c, k, s)
  /\ owner' = [owner EXCEPT ![s] = k]
  /\ UNCHANGED <<cluster, reqVars, seen>>

AddClusterSession(c) == Manager!Add(c) /\ UNCHANGED <<cluster, reqVars, owner, seen>>

SessionEnd(s) ==
  /\ Manager!End(s) /\ DropDead
  /\ UNCHANGED <<cluster, pc, target, strm, owner, seen>>

CreateCluster(k) ==
  /\ k \notin cluster /\ cluster' = cluster \cup {k}
  /\ seen' = seen \cup {r \in Requests : pc[r] # "idle" /\ target[r] = k}
  /\ UNCHANGED <<poolVars, reqVars, owner>>

(* The sessions of the cluster are left alone.                             *)
DeleteCluster(k) ==
  /\ k \in cluster /\ cluster' = cluster \ {k}
  /\ UNCHANGED <<poolVars, reqVars, owner, seen>>

Next ==
  \/ \E r \in Requests :
       \/ \E k \in Keys : Arrive(r, k)
       \/ GetCluster(r) \/ DialOK(r) \/ DialFail(r) \/ DialEvict(r) \/ Respond(r) \/ Cut(r)
  \/ \E c \in Connects :
       AddClusterSession(c) \/ \E k \in Keys, s \in Sessions : Connect(c, k, s)
  \/ \E s \in Sessions : SessionEnd(s)
  \/ \E k \in Keys : CreateCluster(k) \/ DeleteCluster(k)

Spec == Init /\ [][Next]_vars

-----------------------------------------------------------------------------
(* Properties                                                              *)

(* Type invariant of the requests and streams; idle streams are on open    *)
(* sessions.                                                               *)
TypeOK ==
  /\ cluster \subseteq Keys
  /\ pc \in [Requests -> {"idle", "get", "dial", "sent", "done"}]
  /\ target \in [Requests -> Keys \cup {None}]
  /\ strm \in [Requests -> Sessions \cup {None}]
  /\ idle \subseteq Requests \X {s \in Sessions : sess[s] = "open"}
  /\ owner \in [Sessions -> Keys \cup {None}]
  /\ seen \subseteq Requests

(* A request is carried only by a session that an agent of its own cluster *)
(* has opened: the idle streams that other requests leave behind, which    *)
(* stay open while the session lasts and are kept under one address for    *)
(* all clusters, are in transports of their own.                           *)
ReachesOwnCluster ==
  \A r \in Requests : strm[r] # None => owner[strm[r]] = target[r]

(* Sessions outlive their Cluster, but only a request during which the     *)
(* Cluster existed is carried by one.                                      *)
CarriedOnlyWithCluster == \A r \in Requests : strm[r] # None => r \in seen
=============================================================================
