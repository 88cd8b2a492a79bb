----------------------------- MODULE SessionPool -----------------------------
(***************************************************************************)
(* What the SessionManager interface of a hub promises to its callers      *)
(* (pkg/hub/cluster/session_manager.go): for every cluster a pool of       *)
(* yamux sessions, from which a dial takes a stream on some open session,  *)
(* and fails only when the pool of that very cluster is empty.  There is   *)
(* no lock, no list and no loop here: every call takes effect in one step. *)
(* SessionManager implements this module.                                  *)
(***************************************************************************)
CONSTANTS Keys,      \* NamespacedNames of Cluster objects
          Sessions,  \* yamux sessions, each created once
          Threads,   \* goroutines that call the manager
          None,      \* no key, no session, no result
          DialError  \* the error "no session found for cluster"

VARIABLES sess,  \* session -> "new" | "open" | "closed"
          pool,  \* key -> set of the sessions filed under it
          call,  \* thread -> "idle" | "add" | "dial": the pending call
          key,   \* thread -> the key argument of the pending call
          arg,   \* thread -> the session argument of a pending "add"
          ret    \* thread -> result of the thread's last dial

vars == <<sess, pool, call, key, arg, ret>>

Init ==
  /\ sess = [s \in Sessions |-> "new"]
  /\ pool = [k \in Keys |-> {}]
  /\ call = [t \in Threads |-> "idle"]
  /\ key  = [t \in Threads |-> None]
  /\ arg  = [t \in Threads |-> None]
  /\ ret  = [t \in Threads |-> None]

(* A connect handler has a new session and asks to file it under k.        *)
CallAdd(t, k, s) ==
  /\ call[t] = "idle" /\ sess[s] = "new"
  /\ sess' = [sess EXCEPT ![s] = "open"]
  /\ call' = [call EXCEPT ![t] = "add"]
  /\ key'  = [key EXCEPT ![t] = k]
  /\ arg'  = [arg EXCEPT ![t] = s]
  /\ UNCHANGED <<pool, ret>>

Add(t) ==
  /\ call[t] = "add"
  /\ pool' = [pool EXCEPT ![key[t]] = @ \cup {arg[t]}]
  /\ call' = [call EXCEPT ![t] = "idle"]
  /\ key'  = [key EXCEPT ![t] = None]
  /\ arg'  = [arg EXCEPT ![t] = None]
  /\ UNCHANGED <<sess, ret>>

(* A proxied request needs a connection to cluster k.                      *)
CallDial(t, k) ==
  /\ call[t] = "idle"
  /\ call' = [call EXCEPT ![t] = "dial"]
  /\ key'  = [key EXCEPT ![t] = k]
  /\ ret'  = [ret EXCEPT ![t] = None]
  /\ UNCHANGED <<sess, pool, arg>>

Return(t, r) ==
  /\ call' = [call EXCEPT ![t] = "idle"]
  /\ key'  = [key EXCEPT ![t] = None]
  /\ ret'  = [ret EXCEPT ![t] = r]
  /\ UNCHANGED <<sess, pool, arg>>

DialOK(t) ==
  /\ call[t] = "dial"
  /\ \E s \in pool[key[t]] : sess[s] = "open" /\ Return(t, s)

DialFail(t) ==
  /\ call[t] = "dial"
  /\ pool[key[t]] = {}
  /\ Return(t, DialError)

(* A session leaves the pool of a cluster that is being dialled, and is    *)
(* closed by that very step: the agent at its other end gets to know.      *)
Evict(t) ==
  /\ call[t] = "dial"
  /\ \E s \in pool[key[t]] :
       /\ pool' = [pool EXCEPT ![key[t]] = @ \ {s}]
       /\ sess' = [sess EXCEPT ![s] = "closed"]
  /\ UNCHANGED <<call, key, arg, ret>>

(* The agent or the connection of s is gone.                               *)
End(s) ==
  /\ sess[s] = "open"
  /\ sess' = [sess EXCEPT ![s] = "closed"]
  /\ UNCHANGED <<pool, call, key, arg, ret>>

Next ==
  \/ \E t \in Threads :
       \/ \E k \in Keys : CallDial(t, k) \/ \E s \in Sessions : CallAdd(t, k, s)
       \/ Add(t) \/ DialOK(t) \/ DialFail(t) \/ Evict(t)
  \/ \E s \in Sessions : End(s)

Spec == Init /\ [][Next]_vars
=============================================================================
