--------------------------- MODULE RegistryProofs ---------------------------
(***************************************************************************)
(* Proofs about Registry, for any number of agents and tokens.             *)
(***************************************************************************)
EXTENDS Registry, TLAPS

(* A call that is under way has seen the token that is stored now.         *)
SinceInv ==
  \A a \in Agents : conn[a] # "none" /\ token # None => token \in since[a]

(* Tokens that are gone have been used, so that no new UUID is one of      *)
(* them, and the stored token is not gone; what a call is banned for is    *)
(* still gone.                                                             *)
GoneInv ==
  /\ token # None => token \in used /\ token \notin gone
  /\ gone \subseteq used
  /\ \A a \in Agents : banned[a] \subseteq gone

IInv ==
  /\ TypeOK /\ SinceInv /\ GoneInv
  /\ AdmittedTokenWasCurrent /\ RevokedStaysRevoked

(* Nothing is stored and nobody is connected at first.                     *)
LEMMA InitIInv == Init => IInv
BY RegistryAssumption
   DEF Init, IInv, TypeOK, SinceInv, GoneInv, AdmittedTokenWasCurrent,
       RevokedStaysRevoked, Admitted

(* What the webhooks let a write with token t store: t itself, or else a   *)
(* token that was never used.                                              *)
LEMMA AdmitProperties ==
  ASSUME NEW t \in Tokens \cup {Blank}, NEW u \in Admit(t)
  PROVE  u \in Tokens /\ (u = t \/ u \notin used)
BY RegistryAssumption DEF Admit, Mutator, Validator

(* A write preserves IInv: it adds to what the calls have seen, and a new  *)
(* token lifts a ban only if a user has asked for it.                      *)
LEMMA StoreStep ==
  ASSUME IInv, NEW t \in Tokens \cup {Blank}, NEW u \in Admit(t), Store(t, u),
         UNCHANGED <<userTok, manifest, agentVars>>
  PROVE  IInv'
<1>1. u \in Tokens /\ (u = t \/ u \notin used)
  BY AdmitProperties
<1>2. TypeOK'
  BY <1>1, RegistryAssumption DEF IInv, TypeOK, Store, agentVars
<1>3. SinceInv'
  BY <1>1 DEF IInv, TypeOK, SinceInv, Store, agentVars
<1>4. GoneInv'
  <2>1. token' \in used' /\ token' \notin gone'
    BY <1>1, RegistryAssumption DEF IInv, TypeOK, GoneInv, Store
  <2>2. gone' \subseteq used'
    BY <1>1, RegistryAssumption DEF IInv, TypeOK, GoneInv, Store
  <2>3. \A a \in Agents : banned'[a] \subseteq gone'
    BY DEF IInv, TypeOK, GoneInv, Store
  <2>. QED
    BY <2>1, <2>2, <2>3 DEF GoneInv
<1>5. AdmittedTokenWasCurrent' /\ RevokedStaysRevoked'
  BY DEF IInv, TypeOK, AdmittedTokenWasCurrent, RevokedStaysRevoked, Admitted, Store, agentVars
<1>. QED
  BY <1>2, <1>3, <1>4, <1>5 DEF IInv

(* A deletion preserves IInv.                                              *)
LEMMA DeleteStep == ASSUME IInv, DeleteCluster PROVE IInv'
<1>1. TypeOK'
  BY DEF IInv, TypeOK, DeleteCluster, agentVars
<1>2. SinceInv' /\ GoneInv'
  BY DEF IInv, TypeOK, SinceInv, GoneInv, DeleteCluster, agentVars
<1>3. AdmittedTokenWasCurrent' /\ RevokedStaysRevoked'
  BY DEF IInv, AdmittedTokenWasCurrent, RevokedStaysRevoked, Admitted, DeleteCluster, agentVars
<1>. QED
  BY <1>1, <1>2, <1>3 DEF IInv

(* Reading the token and fetching the manifest preserve IInv.              *)
LEMMA UserStep == ASSUME IInv, ReadToken \/ AgentSubresource PROVE IInv'
<1>1. TypeOK'
  BY DEF IInv, TypeOK, ReadToken, AgentSubresource, TokenMatches, agentVars, histVars
<1>2. SinceInv' /\ GoneInv'
  BY DEF IInv, SinceInv, GoneInv, ReadToken, AgentSubresource, agentVars, histVars
<1>3. AdmittedTokenWasCurrent' /\ RevokedStaysRevoked'
  BY DEF IInv, AdmittedTokenWasCurrent, RevokedStaysRevoked, Admitted, ReadToken,
         AgentSubresource, agentVars, histVars
<1>. QED
  BY <1>1, <1>2, <1>3 DEF IInv

(* A call that begins has seen what is stored, and is banned for what is   *)
(* gone.                                                                   *)
LEMMA AgentStartStep == ASSUME IInv, NEW a \in Agents, AgentStart(a) PROVE IInv'
<1>1. TypeOK'
  BY DEF IInv, TypeOK, AgentStart, clusterVars
<1>2. SinceInv' /\ GoneInv'
  BY DEF IInv, TypeOK, SinceInv, GoneInv, AgentStart, clusterVars
<1>3. AdmittedTokenWasCurrent' /\ RevokedStaysRevoked'
  BY DEF IInv, TypeOK, AdmittedTokenWasCurrent, RevokedStaysRevoked, Admitted, AgentStart
<1>. QED
  BY <1>1, <1>2, <1>3 DEF IInv

(* The check admits a token that is stored, hence seen and not gone.       *)
LEMMA ConnectCheckStep == ASSUME IInv, NEW a \in Agents, ConnectCheck(a) PROVE IInv'
<1>1. TypeOK'
  BY DEF IInv, TypeOK, ConnectCheck, clusterVars, histVars
<1>2. SinceInv' /\ GoneInv'
  BY DEF IInv, TypeOK, SinceInv, GoneInv, ConnectCheck, clusterVars, histVars
<1>3. arg[a] \in since[a] /\ arg[a] \notin banned[a]
  BY DEF IInv, SinceInv, GoneInv, ConnectCheck, TokenMatches
<1>4. AdmittedTokenWasCurrent' /\ RevokedStaysRevoked'
  BY <1>3 DEF IInv, TypeOK, AdmittedTokenWasCurrent, RevokedStaysRevoked, Admitted,
              ConnectCheck, clusterVars, histVars
<1>. QED
  BY <1>1, <1>2, <1>4 DEF IInv

(* The other steps of an agent and of its call admit nobody.               *)
LEMMA OtherAgentSteps ==
  ASSUME IInv, NEW a \in Agents,
         \/ RollAgent(a) \/ AgentExit(a) \/ ConnectUpgrade(a)
         \/ AddClusterSession(a) \/ AgentServe(a)
  PROVE  IInv'
<1>1. TypeOK'
  BY DEF IInv, TypeOK, RollAgent, AgentExit, ConnectUpgrade, AddClusterSession, AgentServe,
         clusterVars, histVars
<1>2. SinceInv' /\ GoneInv'
  BY DEF IInv, TypeOK, SinceInv, GoneInv, RollAgent, AgentExit, ConnectUpgrade,
         AddClusterSession, AgentServe, clusterVars, histVars
<1>3. AdmittedTokenWasCurrent' /\ RevokedStaysRevoked'
  BY DEF IInv, TypeOK, AdmittedTokenWasCurrent, RevokedStaysRevoked, Admitted, RollAgent,
         AgentExit, ConnectUpgrade, AddClusterSession, AgentServe, clusterVars, histVars
<1>. QED
  BY <1>1, <1>2, <1>3 DEF IInv

(* Every step preserves IInv.                                              *)
LEMMA NextIInv == IInv /\ [Next]_vars => IInv'
<1> SUFFICES ASSUME IInv, [Next]_vars PROVE IInv'
  OBVIOUS
<1>1. CASE UNCHANGED vars
  BY <1>1 DEF IInv, TypeOK, SinceInv, GoneInv, AdmittedTokenWasCurrent,
              RevokedStaysRevoked, Admitted, vars, clusterVars, agentVars, histVars
<1>2. CASE \E t \in Tokens \cup {Blank} : CreateCluster(t) \/ UpdateCluster(t)
  <2>1. PICK t \in Tokens \cup {Blank} : CreateCluster(t) \/ UpdateCluster(t)
    BY <1>2
  <2>2. PICK u \in Admit(t) : Store(t, u)
    BY <2>1 DEF CreateCluster, UpdateCluster
  <2>3. UNCHANGED <<userTok, manifest, agentVars>>
    BY <2>1 DEF CreateCluster, UpdateCluster
  <2>. QED
    BY <2>2, <2>3, StoreStep
<1>3. CASE DeleteCluster \/ ReadToken \/ AgentSubresource
  BY <1>3, DeleteStep, UserStep
<1>4. ASSUME NEW a \in Agents, AgentStep(a) PROVE IInv'
  BY <1>4, AgentStartStep, ConnectCheckStep, OtherAgentSteps DEF AgentStep, ConnectRefused
<1>. QED
  BY <1>1, <1>2, <1>3, <1>4 DEF Next, Users

(* IInv holds in every reachable state.                                    *)
LEMMA Inductive == Spec => []IInv
BY InitIInv, NextIInv, PTL DEF Spec

(* Type correctness; in particular a stored token is never empty.          *)
THEOREM TypeCorrect == Spec => []TypeOK
<1>1. IInv => TypeOK
  BY DEF IInv
<1>. QED
  BY <1>1, Inductive, PTL

(* An agent is admitted only with a token that was the Cluster's at some   *)
(* time during its connect call.                                           *)
THEOREM AdmittedWithCurrentToken == Spec => []AdmittedTokenWasCurrent
<1>1. IInv => AdmittedTokenWasCurrent
  BY DEF IInv
<1>. QED
  BY <1>1, Inductive, PTL

(* A revoked token admits no later call unless a user writes it again.     *)
THEOREM RevocationLasts == Spec => []RevokedStaysRevoked
<1>1. IInv => RevokedStaysRevoked
  BY DEF IInv
<1>. QED
  BY <1>1, Inductive, PTL
=============================================================================
