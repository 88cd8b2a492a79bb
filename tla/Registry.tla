------------------------------ MODULE Registry ------------------------------
(***************************************************************************)
(* Tokens: how an agent is admitted to a hub.  One Cluster object of the   *)
(* host cluster, written by users through the Mutator and the Validator    *)
(* (pkg/webhook/cluster); the agent subresource, which hands out the agent *)
(* manifest, and the connect subresource, which admits agents              *)
(* (pkg/hub/cluster/subresources.go); agents that start with the token of  *)
(* their manifest, exit on any error and are started again                 *)
(* (cmd/kopilot-agent/main.go).                                            *)
(*                                                                         *)
(* A connect call is not atomic: the token is compared when the Cluster is *)
(* read, the session is filed later, and in between users go on writing.   *)
(***************************************************************************)
CONSTANTS Agents,   \* agent replicas of the member cluster
          Tokens,   \* tokens: chosen by users or generated (UUIDs)
          Blank,    \* the empty token
          None      \* no Cluster object, no manifest

ASSUME RegistryAssumption ==
  /\ Blank \notin Tokens
  /\ None \notin Tokens \cup {Blank}

VARIABLES
  token,    \* token of the Cluster object, None when there is no object
  userTok,  \* the token a user has read from the object, or None
  manifest, \* token in the applied agent manifest, or None
  arg,      \* agent -> token of its -connect argument
  agent,    \* agent -> "down" | "dialing" | "connected" | "serving"
  conn      \* agent -> its connect call at a hub:
            \*   "none" | "get" | "checked" | "upgraded" | "filed"

(* History, for the properties only.                                       *)
VARIABLES
  used,   \* tokens that have been stored or asked for
  gone,   \* tokens replaced or deleted, and not asked for by a user again
  since,  \* agent -> tokens stored at some time since its call began
  banned  \* agent -> tokens gone when its call began, and ever since

clusterVars == <<token, userTok, manifest>>
agentVars   == <<arg, agent, conn>>
histVars    == <<used, gone, since, banned>>
vars == <<clusterVars, agentVars, histVars>>

Init ==
  /\ token    = None
  /\ userTok  = None
  /\ manifest = None
  /\ arg      = [a \in Agents |-> Blank]
  /\ agent    = [a \in Agents |-> "down"]
  /\ conn     = [a \in Agents |-> "none"]
  /\ used     = {}
  /\ gone     = {}
  /\ since    = [a \in Agents |-> {}]
  /\ banned   = [a \in Agents |-> {}]

-----------------------------------------------------------------------------
(* The webhooks: what a write with token t stores.                         *)

(* An empty token becomes a new UUID; Tokens bounds how many there are.    *)
MutatorReusing(t) == IF t = Blank THEN Tokens ELSE {t}
Mutator(t) == IF t = Blank THEN Tokens \ used ELSE {t}

Validator(t) == t # Blank

AdmitUnhooked(t) == {t}
Admit(t) == {u \in Mutator(t) : Validator(u)}

(* The webhooks fail closed: without them no write is accepted.            *)
Store(t, u) ==
  /\ token' = u
  /\ used'  = used \cup ({t, u} \ {Blank})
  /\ gone'  = (gone \cup ({token} \ {u, None})) \ {t}
  /\ since' = [a \in Agents |-> since[a] \cup {u}]
  /\ banned' = [a \in Agents |-> banned[a] \ {t}]

CreateCluster(t) ==
  /\ token = None
  /\ \E u \in Admit(t) : Store(t, u)
  /\ UNCHANGED <<userTok, manifest, agentVars>>

UpdateCluster(t) ==
  /\ token # None
  /\ \E u \in Admit(t) : Store(t, u)
  /\ UNCHANGED <<userTok, manifest, agentVars>>

DeleteCluster ==
  /\ token # None
  /\ token' = None
  /\ gone'  = gone \cup {token}
  /\ UNCHANGED <<userTok, manifest, agentVars, used, since, banned>>

-----------------------------------------------------------------------------
(* The token check of the two subresources, on the Cluster just read.      *)
TokenMatchesAny(t) == token # None
TokenMatches(t) == token # None /\ t = token

(* A user reads the token, fetches the manifest with it (404 and 401 leave *)
(* everything as it is) and applies it; the deployment replaces the pods   *)
(* of agents whose argument differs, one after the other.                  *)
ReadToken ==
  /\ token # None
  /\ userTok' = token
  /\ UNCHANGED <<token, manifest, agentVars, histVars>>

AgentSubresource ==
  /\ userTok # None /\ TokenMatches(userTok)
  /\ manifest' = userTok
  /\ UNCHANGED <<token, userTok, agentVars, histVars>>

RollAgent(a) ==
  /\ manifest # None /\ arg[a] # manifest
  /\ arg'   = [arg EXCEPT ![a] = manifest]
  /\ agent' = [agent EXCEPT ![a] = "down"]
  /\ conn'  = [conn EXCEPT ![a] = "none"]
  /\ UNCHANGED <<clusterVars, histVars>>

-----------------------------------------------------------------------------
(* An agent and its connect call                                           *)

(* The kubelet starts the container (again); main dials the hub.           *)
AgentStart(a) ==
  /\ agent[a] = "down" /\ arg[a] # Blank
  /\ agent' = [agent EXCEPT ![a] = "dialing"]
  /\ conn'  = [conn EXCEPT ![a] = "get"]
  /\ since' = [since EXCEPT ![a] = {token} \ {None}]
  /\ banned' = [banned EXCEPT ![a] = gone]
  /\ UNCHANGED <<clusterVars, arg, used, gone>>

(* log.Fatalf, a signal, a lost connection or a hub that is gone.          *)
AgentLingers(a) ==
  /\ agent[a] # "down"
  /\ conn' = [conn EXCEPT ![a] = "none"]
  /\ UNCHANGED <<clusterVars, arg, agent, histVars>>
AgentExit(a) ==
  /\ agent[a] # "down"
  /\ agent' = [agent EXCEPT ![a] = "down"]
  /\ conn'  = [conn EXCEPT ![a] = "none"]
  /\ UNCHANGED <<clusterVars, arg, histVars>>

ConnectCheck(a) ==
  /\ conn[a] = "get" /\ TokenMatches(arg[a])
  /\ conn' = [conn EXCEPT ![a] = "checked"]
  /\ UNCHANGED <<clusterVars, arg, agent, histVars>>

(* 404, 401 or 500, on which the agent exits.                              *)
ConnectRefused(a) ==
  /\ conn[a] = "get"
  /\ AgentExit(a)

ConnectUpgrade(a) ==
  /\ conn[a] = "checked"
  /\ conn'  = [conn EXCEPT ![a] = "upgraded"]
  /\ agent' = [agent EXCEPT ![a] = "connected"]
  /\ UNCHANGED <<clusterVars, arg, histVars>>

AddClusterSession(a) ==
  /\ conn[a] = "upgraded"
  /\ conn' = [conn EXCEPT ![a] = "filed"]
  /\ UNCHANGED <<clusterVars, arg, agent, histVars>>

(* The agent reads its service account and serves the session.             *)
AgentServe(a) ==
  /\ agent[a] = "connected"
  /\ agent' = [agent EXCEPT ![a] = "serving"]
  /\ UNCHANGED <<clusterVars, arg, conn, histVars>>

-----------------------------------------------------------------------------
Users ==
  \/ \E t \in Tokens \cup {Blank} : CreateCluster(t) \/ UpdateCluster(t)
  \/ DeleteCluster \/ ReadToken \/ AgentSubresource

AgentStep(a) ==
  \/ RollAgent(a) \/ AgentStart(a) \/ AgentExit(a) \/ ConnectCheck(a)
  \/ ConnectRefused(a) \/ ConnectUpgrade(a) \/ AddClusterSession(a) \/ AgentServe(a)

Next == Users \/ \E a \in Agents : AgentStep(a)

Spec == Init /\ [][Next]_vars

(* The second of the two steps that end a connect call, on the hub's side  *)
(* and on the agent's, in either order.                                    *)
LastStep(a) ==
  \/ AddClusterSession(a) /\ agent[a] = "serving"
  \/ AgentServe(a) /\ conn[a] = "filed"

(* The kubelet starts what has exited; a connect call goes on; failures    *)
(* (of the host's API, of the network, of reading a file) may happen any   *)
(* number of times, but not every time.                                    *)
Fairness ==
  \A a \in Agents :
    /\ WF_vars(AgentStart(a))
    /\ SF_vars(ConnectCheck(a)) /\ SF_vars(ConnectUpgrade(a))
    /\ SF_vars(AddClusterSession(a)) /\ SF_vars(AgentServe(a)) /\ SF_vars(LastStep(a))

FairSpec == Spec /\ Fairness

-----------------------------------------------------------------------------
(* Properties                                                              *)

(* Type invariant; a stored token is never empty, since the Mutator fills  *)
(* it in and the Validator requires it.                                    *)
TypeOK ==
  /\ token \in Tokens \cup {None}
  /\ userTok \in Tokens \cup {None}
  /\ manifest \in Tokens \cup {None}
  /\ arg \in [Agents -> Tokens \cup {Blank}]
  /\ agent \in [Agents -> {"down", "dialing", "connected", "serving"}]
  /\ conn \in [Agents -> {"none", "get", "checked", "upgraded", "filed"}]
  /\ used \subseteq Tokens
  /\ gone \subseteq Tokens
  /\ since \in [Agents -> SUBSET Tokens]
  /\ banned \in [Agents -> SUBSET Tokens]

Admitted(a) == conn[a] \in {"checked", "upgraded", "filed"}

(* A session is filed only for an agent whose token was the one of the     *)
(* Cluster at some time during its connect call: the check and the filing  *)
(* are apart, but the check never uses a Cluster read before the call.     *)
AdmittedTokenWasCurrent == \A a \in Agents : Admitted(a) => arg[a] \in since[a]

(* A token that was replaced or deleted before a call began does not admit *)
(* it, unless a user asks for that very token again: a token that Mutator  *)
(* generates never revives the manifests of an earlier one.                *)
RevokedStaysRevoked == \A a \in Agents : Admitted(a) => arg[a] \notin banned[a]

(* An agent that holds the current token, once it stays current, has a     *)
(* filed session and serves it again and again, however often it exits, is *)
(* cut off or meets a failing hub.                                         *)
Holds(a) == token # None /\ arg[a] = token
Reconnects ==
  \A a \in Agents : (<>[]Holds(a)) => []<>(conn[a] = "filed" /\ agent[a] = "serving")

(* The session of an agent whose token is no longer that of the Cluster,   *)
(* which was changed, or deleted and made anew, ends for good with the     *)
(* agent's next exits: a hub lists it, and sends it requests for the new   *)
(* Cluster, only until then.                                               *)
StaleAgentsFade ==
  \A a \in Agents :
    ((<>[]~Holds(a)) /\ []<>(agent[a] = "down")) => <>[](conn[a] # "filed")
=============================================================================
