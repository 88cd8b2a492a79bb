--------------------------- MODULE SessionManager ---------------------------
(***************************************************************************)
(* The session manager of one hub (pkg/hub/cluster/session_manager.go):    *)
(* one list of yamux sessions per cluster, one mutex for all of them.      *)
(* AddClusterSession appends; DialCluster opens a stream on a random       *)
(* session of the list, closes and removes it when Open fails, and tries   *)
(* again until a stream is open or the list is empty, all of it under the  *)
(* mutex.  Callers are goroutines: connect handlers (add) and the dial     *)
(* functions of the proxied requests' transports (dial).                   *)
(*                                                                         *)
(* yamux is external.  Of a session the manager sees Open and Close; Open  *)
(* blocks while AcceptBacklog streams wait for the agent to accept them.   *)
(***************************************************************************)
EXTENDS Naturals, Sequences, SequencesExt

CONSTANTS Namespaces, Names, \* parts of a types.NamespacedName
          Sessions,          \* yamux sessions, each created once
          Threads,           \* goroutines that call the manager
          AcceptBacklog,     \* yamux: streams a session opens ahead of accept
          None,              \* no thread, key, session or result
          DialError          \* the error "no session found for cluster"

ASSUME ConstantsAssumption ==
  /\ AcceptBacklog \in Nat \ {0}
  /\ None \notin Threads \cup Sessions
  /\ DialError \notin Sessions \cup {None}

Keys == [namespace : Namespaces, name : Names]

ASSUME NoneIsNoKey == None \notin Keys

(* key.String(): namespace and name.  Ids index the map sessionLists.      *)
StringNameOnly(k) == <<k.name>>
String(k) == <<k.namespace, k.name>>
Ids == {String(k) : k \in Keys}

VARIABLES
  sessionLists, \* id -> sequence of sessions (absent and empty coincide)
  mutex,        \* the thread that holds the mutex, or None
  sess,         \* session -> "new" | "open" | "closed"
  syn,          \* session -> streams opened and not yet accepted
  pc,           \* thread -> where it is
  key, arg,     \* thread -> arguments of the pending call
  ss, idx,      \* thread -> locals of DialCluster
  ret,          \* thread -> result of its last DialCluster
  owner         \* history: session -> key it was filed under, or None

mgrVars == <<sessionLists, mutex>>
yamuxVars == <<sess, syn>>
localVars == <<key, arg, ss, idx, ret>>
vars == <<sessionLists, mutex, sess, syn, pc, key, arg, ss, idx, ret, owner>>

Init ==
  /\ sessionLists = [id \in Ids |-> <<>>]
  /\ mutex = None
  /\ sess  = [s \in Sessions |-> "new"]
  /\ syn   = [s \in Sessions |-> 0]
  /\ pc    = [t \in Threads |-> "idle"]
  /\ key   = [t \in Threads |-> None]
  /\ arg   = [t \in Threads |-> None]
  /\ ss    = [t \in Threads |-> <<>>]
  /\ idx   = [t \in Threads |-> 0]
  /\ ret   = [t \in Threads |-> None]
  /\ owner = [s \in Sessions |-> None]

-----------------------------------------------------------------------------
(* Parts of the actions, named for what the code does there.               *)

(* append(ss[:idx], ss[idx+1:]...)                                         *)
CutTruncating(list, i) == SubSeq(list, 1, i - 1)
CutInPlace(list, i) ==
  [j \in 1..Len(list) |-> IF j < i \/ j = Len(list) THEN list[j] ELSE list[j + 1]]
CutNothing(list, i) == list
Cut(list, i) == RemoveAt(list, i)

(* ss[idx].Close(): idempotent.                                            *)
CloseForgotten(s) == UNCHANGED sess
Close(s) == sess' = [sess EXCEPT ![s] = "closed"]

(* len(ss) == 0                                                            *)
ExhaustedEarly(list) == Len(list) <= 1
Exhausted(list) == Len(list) = 0

(* Open does not wait: a slot of the SYN backlog is free, or the session   *)
(* has been shut down.                                                     *)
OpenReadyOneMore(s) == sess[s] = "closed" \/ syn[s] <= AcceptBacklog
OpenReady(s) == sess[s] = "closed" \/ syn[s] < AcceptBacklog

-----------------------------------------------------------------------------
(* AddClusterSession, called by the connect handler with the session it    *)
(* has just made; it waits for the mutex, then appends and unlocks.        *)
AddClusterSession(t, k, s) ==
  /\ pc[t] = "idle" /\ sess[s] = "new"
  /\ sess' = [sess EXCEPT ![s] = "open"]
  /\ pc'   = [pc EXCEPT ![t] = "addLock"]
  /\ key'  = [key EXCEPT ![t] = k]
  /\ arg'  = [arg EXCEPT ![t] = s]
  /\ UNCHANGED <<mgrVars, syn, ss, idx, ret, owner>>

AppendSession(t) ==
  /\ pc[t] = "addLock" /\ mutex = None
  /\ sessionLists' = [sessionLists EXCEPT ![String(key[t])] = Append(@, arg[t])]
  /\ owner' = [owner EXCEPT ![arg[t]] = key[t]]
  /\ pc'    = [pc EXCEPT ![t] = "idle"]
  /\ key'   = [key EXCEPT ![t] = None]
  /\ arg'   = [arg EXCEPT ![t] = None]
  /\ UNCHANGED <<mutex, yamuxVars, ss, idx, ret>>

-----------------------------------------------------------------------------
(* DialCluster, called by a transport that needs a connection.             *)
DialCluster(t, k) ==
  /\ pc[t] = "idle"
  /\ pc'  = [pc EXCEPT ![t] = "dialLock"]
  /\ key' = [key EXCEPT ![t] = k]
  /\ ret' = [ret EXCEPT ![t] = None]
  /\ UNCHANGED <<mgrVars, yamuxVars, arg, ss, idx, owner>>

DialLock(t) ==
  /\ pc[t] = "dialLock" /\ mutex = None
  /\ mutex' = t
  /\ ss'    = [ss EXCEPT ![t] = sessionLists[String(key[t])]]
  /\ pc'    = [pc EXCEPT ![t] = "loop"]
  /\ UNCHANGED <<sessionLists, yamuxVars, key, arg, idx, ret, owner>>

(* return, with the deferred Unlock                                        *)
DialReturn(t, r) ==
  /\ mutex' = None
  /\ pc'  = [pc EXCEPT ![t] = "idle"]
  /\ key' = [key EXCEPT ![t] = None]
  /\ ss'  = [ss EXCEPT ![t] = <<>>]
  /\ idx' = [idx EXCEPT ![t] = 0]
  /\ ret' = [ret EXCEPT ![t] = r]
  /\ UNCHANGED <<sessionLists, sess, arg, owner>>

NoSessionFound(t) ==
  /\ pc[t] = "loop" /\ Exhausted(ss[t])
  /\ DialReturn(t, DialError)
  /\ UNCHANGED syn

PickSession(t) ==
  /\ pc[t] = "loop" /\ ~Exhausted(ss[t])
  /\ \E i \in 1..Len(ss[t]) : idx' = [idx EXCEPT ![t] = i]
  /\ pc' = [pc EXCEPT ![t] = "open"]
  /\ UNCHANGED <<mgrVars, yamuxVars, key, arg, ss, ret, owner>>

OpenOK(t) ==
  LET s == ss[t][idx[t]] IN
  /\ pc[t] = "open" /\ OpenReady(s) /\ sess[s] = "open"
  /\ syn' = [syn EXCEPT ![s] = @ + 1]
  /\ DialReturn(t, s)

(* A closed session, or an open one on which Open fails all the same (its  *)
(* write times out, its stream ids are used up).                           *)
OpenError(t) ==
  /\ pc[t] = "open" /\ OpenReady(ss[t][idx[t]])
  /\ pc' = [pc EXCEPT ![t] = "drop"]
  /\ UNCHANGED <<mgrVars, yamuxVars, localVars, owner>>

DropSession(t) ==
  LET rest == Cut(ss[t], idx[t]) IN
  /\ pc[t] = "drop"
  /\ Close(ss[t][idx[t]])
  /\ ss'  = [ss EXCEPT ![t] = rest]
  /\ sessionLists' = [sessionLists EXCEPT ![String(key[t])] = rest]
  /\ idx' = [idx EXCEPT ![t] = 0]
  /\ pc'  = [pc EXCEPT ![t] = "loop"]
  /\ UNCHANGED <<mutex, syn, key, arg, ret, owner>>

-----------------------------------------------------------------------------
(* The agent's end of a session (cmd/kopilot-agent/main.go: its server     *)
(* accepts streams from the session) and the loss of the session: the      *)
(* agent exits, the connection breaks, the keepalive times out.            *)
AgentAccept(s) ==
  /\ sess[s] = "open" /\ syn[s] > 0
  /\ syn' = [syn EXCEPT ![s] = @ - 1]
  /\ UNCHANGED <<mgrVars, sess, pc, localVars, owner>>

SessionEnd(s) ==
  /\ sess[s] = "open"
  /\ sess' = [sess EXCEPT ![s] = "closed"]
  /\ UNCHANGED <<mgrVars, syn, pc, localVars, owner>>

-----------------------------------------------------------------------------
Thread(t) ==
  \/ AppendSession(t) \/ DialLock(t) \/ NoSessionFound(t) \/ PickSession(t)
  \/ OpenOK(t) \/ OpenError(t) \/ DropSession(t)

Next ==
  \/ \E t \in Threads :
       \/ \E k \in Keys :
            DialCluster(t, k) \/ \E s \in Sessions : AddClusterSession(t, k, s)
       \/ Thread(t)
  \/ \E s \in Sessions : AgentAccept(s) \/ SessionEnd(s)

Spec == Init /\ [][Next]_vars

(* A goroutine that can go on does; sync.Mutex hands the lock to a waiter  *)
(* that has starved for 1ms, hence strong fairness where one is taken; an  *)
(* agent accepts the streams that wait for it, or its session ends.        *)
BacklogMoves(s) == syn[s] > 0 /\ (AgentAccept(s) \/ SessionEnd(s))

Fairness ==
  /\ \A t \in Threads : WF_vars(Thread(t)) /\ SF_vars(AppendSession(t) \/ DialLock(t))
  /\ \A s \in Sessions : WF_vars(BacklogMoves(s))

FairSpec == Spec /\ Fairness

-----------------------------------------------------------------------------
(* Properties                                                              *)

InDial(t) == pc[t] \in {"loop", "open", "drop"}
Listed(id, s) == s \in ToSet(sessionLists[id])

(* Type invariant of the manager, its callers and their sessions.          *)
TypeOK ==
  /\ sessionLists \in [Ids -> Seq(Sessions)]
  /\ mutex \in Threads \cup {None}
  /\ sess \in [Sessions -> {"new", "open", "closed"}]
  /\ syn \in [Sessions -> 0..AcceptBacklog]
  /\ pc \in [Threads -> {"idle", "addLock", "dialLock", "loop", "open", "drop"}]
  /\ key \in [Threads -> Keys \cup {None}]
  /\ arg \in [Threads -> Sessions \cup {None}]
  /\ ss \in [Threads -> Seq(Sessions)]
  /\ idx \in [Threads -> Nat]
  /\ ret \in [Threads -> Sessions \cup {None, DialError}]
  /\ owner \in [Sessions -> Keys \cup {None}]

(* No session is orphaned: a session that AddClusterSession has filed and  *)
(* that is still open can be dialled, under the cluster it was filed for.  *)
(* DropSession closes what it removes, so that an agent never waits on a   *)
(* session that its hub has forgotten.                                     *)
NoOrphan ==
  \A s \in Sessions :
    owner[s] # None /\ sess[s] = "open" => Listed(String(owner[s]), s)

(* No session is listed twice, in one list or in two: each removal in      *)
(* DialCluster takes a session out for good.                               *)
ListedOnce ==
  \A id1, id2 \in Ids :
    \A i \in DOMAIN sessionLists[id1], j \in DOMAIN sessionLists[id2] :
      sessionLists[id1][i] = sessionLists[id2][j] => id1 = id2 /\ i = j

(* A request is carried to the cluster it names: a dial of cluster k ends  *)
(* on a session that was filed for k, whatever the other threads did       *)
(* between the two calls.                                                  *)
OwnClusterStep ==
  \A t \in Threads :
    ret'[t] \in Sessions /\ ret'[t] # ret[t] => owner[ret'[t]] = key[t]
DialsOwnCluster == [][OwnClusterStep]_vars

(* DialCluster reports "no session found" only when every session that was *)
(* ever filed for that cluster is closed: no live session is overlooked.   *)
FailStep ==
  \A t \in Threads : ret'[t] = DialError /\ ret[t] # DialError =>
    \A s \in Sessions : owner[s] = key[t] => sess[s] = "closed"
FailsOnlyWhenNoneOpen == [][FailStep]_vars

(* Every call returns: the retry loop of DialCluster ends, and a dial that *)
(* waits inside Open with the mutex held does not hold up for ever the     *)
(* calls for the other clusters, all of which need that mutex.             *)
CallsReturn == \A t \in Threads : pc[t] # "idle" ~> pc[t] = "idle"

-----------------------------------------------------------------------------
(* The inductive invariant of the proofs.                                  *)

(* Exactly the thread inside DialCluster's critical section holds mutex.   *)
LockInv == \A t \in Threads : InDial(t) <=> mutex = t

(* The local ss of a dialling thread is the list in the map: line 77 puts  *)
(* it back after every removal, and nobody else writes while mutex is held.*)
LocalsInv ==
  \A t \in Threads :
    /\ pc[t] # "idle" => key[t] \in Keys
    /\ InDial(t) => ss[t] = sessionLists[String(key[t])]
    /\ pc[t] \in {"open", "drop"} => idx[t] \in 1..Len(ss[t])

(* A session on its way into a list is in no list yet, and one thread has  *)
(* it.                                                                     *)
AddInv ==
  /\ \A t \in Threads : pc[t] = "addLock" =>
       arg[t] \in Sessions /\ sess[arg[t]] # "new" /\ owner[arg[t]] = None
  /\ \A t, u \in Threads :
       pc[t] = "addLock" /\ pc[u] = "addLock" /\ arg[t] = arg[u] => t = u

(* What is listed has been filed under that id, once.                      *)
FiledInv ==
  /\ \A s \in Sessions : sess[s] = "new" => owner[s] = None
  /\ \A id \in Ids : \A i \in 1..Len(sessionLists[id]) :
       /\ owner[sessionLists[id][i]] \in Keys
       /\ String(owner[sessionLists[id][i]]) = id
  /\ \A id \in Ids : \A i, j \in 1..Len(sessionLists[id]) :
       sessionLists[id][i] = sessionLists[id][j] => i = j

IInv == TypeOK /\ LockInv /\ LocalsInv /\ AddInv /\ FiledInv /\ NoOrphan

-----------------------------------------------------------------------------
(* The manager implements the lock-free session pool.                      *)
Pool == INSTANCE SessionPool WITH
  pool <- [k \in Keys |-> ToSet(sessionLists[String(k)])],
  call <- [t \in Threads |-> IF pc[t] = "idle" THEN "idle"
                             ELSE IF pc[t] = "addLock" THEN "add" ELSE "dial"]

(* Each step of the manager is a step of the session pool or invisible to  *)
(* its callers: the mutex makes DialCluster and AddClusterSession atomic.  *)
ImplementsPool == Pool!Spec
=============================================================================
