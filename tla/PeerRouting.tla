----------------------------- MODULE PeerRouting -----------------------------
(***************************************************************************)
(* Where a hub forwards a request, and with which path (ListPeers,         *)
(* TryNextPeer and the handler of StartServer in pkg/hub/peer/server.go).  *)
(* The hub reads its peers out of the Endpoints object, puts a prefix that *)
(* names the cluster before the path, and takes it off again when it turns *)
(* to the next peer; a peer that is reached takes it off as well.          *)
(*                                                                         *)
(* A path is the sequence of its segments: "" is <<>>, "/" is <<"">>,      *)
(* "/a/" is <<"a", "">>.                                                   *)
(***************************************************************************)
EXTENDS Naturals, Sequences, SequencesExt

CONSTANTS IPs,      \* addresses of hub pods
          Segments, \* path segments, among them those of the prefix
          MaxPath   \* bound on the length of a request's path

ASSUME RoutingAssumption ==
  /\ MaxPath \in Nat
  /\ {"", "proxy", "ns", "name"} \subseteq Segments

(* The prefix /proxy/{namespace}/{name} of the cluster.                    *)
Prefix == <<"proxy", "ns", "name">>

(* The ports of the hub Service, of which only one is named "peer".        *)
Ports == {[name |-> "api", port |-> 8443], [name |-> "peer", port |-> 6443]}
PeerPort == 6443

(* Clean paths, without "//": the servers redirect a client that sends     *)
(* another one.                                                            *)
Paths == {p \in UNION {[1..n -> Segments] : n \in 0..MaxPath} :
            \A i \in 1..(Len(p) - 1) : p[i] # ""}

VARIABLES
  subsets, \* the Subsets of the Endpoints object
  self,    \* hub.C.IP
  orig,    \* the path of the request, relative to the proxied cluster
  pc,      \* "list" | "next" | "sent" | "served" | "done" | "error"
  peers,   \* result of ListPeers
  idx,     \* number of peers tried
  path,    \* r.URL.Path of the front's request
  seen     \* peers reached so far, with the path each sends to the member

vars == <<subsets, self, orig, pc, peers, idx, path, seen>>

(* What the endpoints controller writes for a Service whose target ports   *)
(* are numbers: at most one subset, with all ports; a pod is in it as      *)
(* ready or not.                                                           *)
EndpointsOf(ready, unready) ==
  IF ready \cup unready = {} THEN {<<>>}
  ELSE {<<[ports |-> ps, addresses |-> as, notReady |-> unready]>> :
          ps \in SetToSeqs(Ports), as \in SetToSeqs(ready)}

Init ==
  /\ self \in IPs
  /\ orig \in Paths
  /\ \E ready \in SUBSET IPs : \E unready \in SUBSET (IPs \ ready) :
       subsets \in EndpointsOf(ready, unready)
  /\ pc = "list" /\ peers = <<>> /\ idx = 0 /\ path = orig /\ seen = <<>>

-----------------------------------------------------------------------------
(* The port named "peer", or else the first                                *)
FirstPort(ports) == ports[1].port
PortOf(ports) ==
  LET named == {i \in DOMAIN ports : ports[i].name = "peer"}
  IN  IF named = {} THEN ports[1].port
      ELSE ports[CHOOSE i \in named : \A j \in named : i <= j].port

(* The loop over the addresses, which leaves out the hub's own.            *)
OtherAddresses(addresses) ==
  LET others[n \in 0..Len(addresses)] ==
        IF n = 0 THEN <<>>
        ELSE IF addresses[n] = self THEN others[n - 1]
        ELSE Append(others[n - 1], addresses[n])
  IN  others[Len(addresses)]

ListPeers ==
  /\ pc = "list"
  /\ IF subsets = <<>> \/ subsets[1].ports = <<>>
     THEN pc' = "error" /\ UNCHANGED peers
     ELSE LET port == PortOf(subsets[1].ports)
              ips  == OtherAddresses(subsets[1].addresses)
          IN  /\ peers' = [i \in DOMAIN ips |-> [ip |-> ips[i], port |-> port]]
              /\ pc' = "next"
  /\ UNCHANGED <<subsets, self, orig, idx, path, seen>>

(* NewSingleHostReverseProxy joins the target's path and the request's     *)
(* with exactly one slash between them.                                    *)
JoinPath(p) == Prefix \o (IF p = <<>> THEN <<"">> ELSE p)

(* strings.TrimPrefix: at most once                                        *)
TrimPrefix(p) ==
  IF IsPrefix(Prefix, p) THEN SubSeq(p, Len(Prefix) + 1, Len(p)) ELSE p

TryNextPeer ==
  /\ pc = "next"
  /\ IF idx >= Len(peers)
     THEN pc' = "done" /\ UNCHANGED <<idx, path>>
     ELSE pc' = "sent" /\ idx' = idx + 1 /\ path' = JoinPath(path)
  /\ UNCHANGED <<subsets, self, orig, peers, seen>>

(* The peer proxies the request to its session, if it has one.             *)
PeerHandler ==
  /\ pc = "sent"
  /\ seen' = Append(seen, [peer |-> peers[idx], subpath |-> TrimPrefix(path)])
  /\ pc' = "served"
  /\ UNCHANGED <<subsets, self, orig, peers, idx, path>>

(* Its answer is passed on ...                                             *)
PeerAnswers ==
  /\ pc = "served"
  /\ pc' = "done"
  /\ UNCHANGED <<subsets, self, orig, peers, idx, path, seen>>

(* ... or is a 502: the front's handler restores the path.                 *)
RestoreNothing(p) == p
RestorePath(p) == TrimPrefix(p)

PeerRefuses ==
  /\ pc = "served"
  /\ pc' = "next"
  /\ path' = RestorePath(path)
  /\ UNCHANGED <<subsets, self, orig, peers, idx, seen>>

Finished == pc \in {"done", "error"} /\ UNCHANGED vars

Next == ListPeers \/ TryNextPeer \/ PeerHandler \/ PeerAnswers \/ PeerRefuses \/ Finished

Spec == Init /\ [][Next]_vars

-----------------------------------------------------------------------------
(* Properties                                                              *)

Ready == IF subsets = <<>> THEN {} ELSE Range(subsets[1].addresses)

(* An empty path and "/" are the same to the member.                       *)
SamePath(p, q) == p = q \/ {p, q} = {<<>>, <<"">>}

(* A walk that comes to its end has reached the peer port of every ready   *)
(* hub but the front itself, once each, and nothing else.                  *)
WalkReachesAllPeers ==
  pc = "next" /\ idx = Len(peers) =>
    /\ {x.peer : x \in Range(seen)} = {[ip |-> i, port |-> PeerPort] : i \in Ready \ {self}}
    /\ \A i, j \in DOMAIN seen : seen[i].peer = seen[j].peer => i = j

(* Every peer sends the member the path that the client asked for, however *)
(* many peers were tried before and even if the path itself begins like    *)
(* the prefix of the peer server.                                          *)
PathPreserved == \A x \in Range(seen) : SamePath(x.subpath, orig)
=============================================================================
