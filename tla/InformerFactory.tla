--------------------------- MODULE InformerFactory ---------------------------
(***************************************************************************)
(* The shared informer factory (pkg/client/informers/externalversions):    *)
(* goroutines that share one factory ask it for informers, start it and    *)
(* wait for the caches, in any order and number.  A mutex guards the maps  *)
(* informers and startedInformers; WaitForCacheSync takes a copy under the *)
(* mutex and waits without it.                                             *)
(*                                                                         *)
(* The informers themselves (client-go's SharedIndexInformer) are external:*)
(* one that is run lists until it has synced, and ends some time after its *)
(* stop channel was closed, synced or not.                                 *)
(***************************************************************************)
EXTENDS Naturals

CONSTANTS Types,    \* types of API objects; Cluster is one of them
          Threads,  \* goroutines that use the factory
          Chans,    \* stop channels
          None      \* nobody holds the lock; no channel or type given

ASSUME FactoryAssumption == None \notin Types \cup Threads \cup Chans

VARIABLES
  informers,        \* type -> number of its informer in the map, 0 for none
  startedInformers, \* type -> it has been started
  lock,             \* the goroutine that holds the mutex, or None
  pc,               \* goroutine -> where it is in a call of the factory
  typ,              \* goroutine -> obj argument of InformerFor
  stopCh,           \* goroutine -> channel argument of Start or WaitForCacheSync
  snap,             \* goroutine -> types in the copy of WaitForCacheSync
  res,              \* goroutine -> type -> "none" | "polled" | "true" | "false"
  held,             \* goroutine -> type -> number of the informer it was given
  run,              \* type -> channel that its informer runs with, or None
  synced,           \* types whose HasSynced is true
  stopped,          \* types whose informer has ended
  closed            \* channels that are closed

(* History, for the properties only.                                       *)
VARIABLES
  made,  \* type -> number of informers that newFunc has made
  runs,  \* type -> number of times that Run was called
  asked, \* goroutine -> types it had been given when it last called Start
  owed   \* goroutine -> asked when it last called WaitForCacheSync

mapVars  == <<informers, startedInformers, lock>>
callVars == <<typ, stopCh, snap, res, held>>
runVars  == <<run, synced, stopped, closed>>
histVars == <<made, runs, asked, owed>>
vars == <<mapVars, pc, callVars, runVars, histVars>>

Init ==
  /\ informers = [t \in Types |-> 0]
  /\ startedInformers = [t \in Types |-> FALSE]
  /\ lock   = None
  /\ pc     = [g \in Threads |-> "idle"]
  /\ typ    = [g \in Threads |-> None]
  /\ stopCh = [g \in Threads |-> None]
  /\ snap   = [g \in Threads |-> {}]
  /\ res    = [g \in Threads |-> [t \in Types |-> "none"]]
  /\ held   = [g \in Threads |-> [t \in Types |-> 0]]
  /\ run    = [t \in Types |-> None]
  /\ synced = {} /\ stopped = {} /\ closed = {}
  /\ made   = [t \in Types |-> 0]
  /\ runs   = [t \in Types |-> 0]
  /\ asked  = [g \in Threads |-> {}]
  /\ owed   = [g \in Threads |-> {}]

-----------------------------------------------------------------------------
Goto(g, l) == pc' = [pc EXCEPT ![g] = l]

(* The locals of a call; the result of an earlier wait is forgotten.       *)
Begin(g, l, t, c) ==
  /\ pc[g] = "idle"
  /\ Goto(g, l)
  /\ typ'    = [typ EXCEPT ![g] = t]
  /\ stopCh' = [stopCh EXCEPT ![g] = c]
  /\ snap'   = [snap EXCEPT ![g] = {}]
  /\ res'    = [res EXCEPT ![g] = [u \in Types |-> "none"]]
  /\ UNCHANGED <<mapVars, held, runVars, made, runs, asked>>

AcquireNothing(g) == UNCHANGED lock
Acquire(g) == lock = None /\ lock' = g
ReleaseForgotten(g) == UNCHANGED lock
Release(g) == lock' = None

(* InformerFor, reached by Informer() and Lister() of a ClusterInformer    *)
(* and by ForResource, which fails at once for any other resource.         *)
CallInformerFor(g, t) == Begin(g, "for", t, None) /\ owed' = [owed EXCEPT ![g] = {}]

(* return informer                                                         *)
Give(g, t, n) ==
  /\ held' = [held EXCEPT ![g][t] = n]
  /\ typ'  = [typ EXCEPT ![g] = None]

LookUp(g) ==
  LET t == typ[g] IN
  /\ pc[g] = "for"
  /\ IF informers[t] # 0
     THEN lock = None /\ Give(g, t, informers[t]) /\ Goto(g, "idle") /\ UNCHANGED lock
     ELSE Acquire(g) /\ Goto(g, "new") /\ UNCHANGED <<typ, held>>
  /\ UNCHANGED <<informers, startedInformers, stopCh, snap, res, runVars, histVars>>

(* newFunc makes the informer with the type's own resync period or with    *)
(* the default one, and it is filed.                                       *)
NewInformer(g) ==
  LET t == typ[g] n == made[t] + 1 IN
  /\ pc[g] = "new"
  /\ made' = [made EXCEPT ![t] = n]
  /\ informers' = [informers EXCEPT ![t] = n]
  /\ Give(g, t, n) /\ Release(g) /\ Goto(g, "idle")
  /\ UNCHANGED <<startedInformers, stopCh, snap, res, runVars, runs, asked, owed>>

-----------------------------------------------------------------------------
(* Start                                                                   *)

CallStart(g, c) == Begin(g, "start", None, c) /\ owed' = [owed EXCEPT ![g] = {}]

StartLock(g) ==
  /\ pc[g] = "start" /\ Acquire(g)
  /\ Goto(g, "starting")
  /\ UNCHANGED <<informers, startedInformers, callVars, runVars, histVars>>

ToStart == {t \in Types : informers[t] # 0 /\ ~startedInformers[t]}

MarkNothing(t) == UNCHANGED startedInformers
MarkStarted(t) == startedInformers' = [startedInformers EXCEPT ![t] = TRUE]

StartInformer(g, t) ==
  /\ pc[g] = "starting" /\ t \in ToStart
  /\ run'  = [run EXCEPT ![t] = stopCh[g]]
  /\ runs' = [runs EXCEPT ![t] = IF @ = 2 THEN 2 ELSE @ + 1]
  /\ MarkStarted(t)
  /\ UNCHANGED <<informers, lock, pc, callVars, synced, stopped, closed, made, asked, owed>>

StartReturn(g) ==
  /\ pc[g] = "starting" /\ ToStart = {}
  /\ Release(g) /\ Goto(g, "idle")
  /\ stopCh' = [stopCh EXCEPT ![g] = None]
  /\ asked'  = [asked EXCEPT ![g] = {t \in Types : held[g][t] # 0}]
  /\ UNCHANGED <<informers, startedInformers, typ, snap, res, held, runVars, made, runs, owed>>

-----------------------------------------------------------------------------
(* WaitForCacheSync                                                        *)

CallWait(g, c) == Begin(g, "wait", None, c) /\ owed' = [owed EXCEPT ![g] = asked[g]]

(* The copy: lock, read, unlock in one step.                               *)
WaitSnapshot(g) ==
  /\ pc[g] = "wait" /\ lock = None
  /\ Goto(g, "waiting")
  /\ snap' = [snap EXCEPT ![g] = {t \in Types : informers[t] # 0 /\ startedInformers[t]}]
  /\ UNCHANGED <<mapVars, typ, stopCh, res, held, runVars, histVars>>

HasStarted(t) == startedInformers[t]
HasSynced(t) == t \in synced

StopIgnored(g) == FALSE
StopSeen(g) == stopCh[g] \in closed

(* cache.WaitForCacheSync on one informer after the other: it polls first, *)
(* and gives up only if the channel is closed after a poll that failed.    *)
PollSync(g, t) ==
  /\ pc[g] = "waiting" /\ t \in snap[g]
  /\ \/ /\ res[g][t] = "none"
        /\ \A u \in Types : res[g][u] # "polled"
        /\ res' = [res EXCEPT ![g][t] = IF HasSynced(t) THEN "true" ELSE "polled"]
     \/ /\ res[g][t] = "polled"
        /\ \/ HasSynced(t) /\ res' = [res EXCEPT ![g][t] = "true"]
           \/ StopSeen(g) /\ res' = [res EXCEPT ![g][t] = "false"]
  /\ UNCHANGED <<mapVars, pc, typ, stopCh, snap, held, runVars, histVars>>

WaitReturn(g) ==
  /\ pc[g] = "waiting"
  /\ \A t \in snap[g] : res[g][t] \in {"true", "false"}
  /\ Goto(g, "idle")
  /\ UNCHANGED <<mapVars, callVars, runVars, histVars>>

-----------------------------------------------------------------------------
(* The informers and the owners of the channels                            *)

Running(t) == run[t] # None /\ t \notin stopped

InformerSync(t) ==
  /\ Running(t) /\ t \notin synced
  /\ synced' = synced \cup {t}
  /\ UNCHANGED <<mapVars, pc, callVars, run, stopped, closed, histVars>>

InformerStop(t) ==
  /\ Running(t) /\ run[t] \in closed
  /\ stopped' = stopped \cup {t}
  /\ UNCHANGED <<mapVars, pc, callVars, run, synced, closed, histVars>>

CloseChan(c) ==
  /\ c \notin closed
  /\ closed' = closed \cup {c}
  /\ UNCHANGED <<mapVars, pc, callVars, run, synced, stopped, histVars>>

-----------------------------------------------------------------------------
Calls(g) ==
  \/ \E t \in Types : CallInformerFor(g, t)
  \/ \E c \in Chans : CallStart(g, c) \/ CallWait(g, c)

LockSteps(g) == LookUp(g) \/ StartLock(g) \/ WaitSnapshot(g)

OwnSteps(g) ==
  \/ NewInformer(g) \/ StartReturn(g) \/ WaitReturn(g)
  \/ \E t \in Types : StartInformer(g, t) \/ PollSync(g, t)

Next ==
  \/ \E g \in Threads : Calls(g) \/ LockSteps(g) \/ OwnSteps(g)
  \/ \E t \in Types : InformerSync(t) \/ InformerStop(t)
  \/ \E c \in Chans : CloseChan(c)

Spec == Init /\ [][Next]_vars

(* A goroutine that can go on does, and gets the mutex in the end; nothing *)
(* is assumed of the informers, of the API server or of the channels.      *)
Fairness == \A g \in Threads : WF_vars(OwnSteps(g)) /\ SF_vars(LockSteps(g))

FairSpec == Spec /\ Fairness

-----------------------------------------------------------------------------
(* Properties                                                              *)

(* All goroutines that have been given an informer of a type share the one *)
(* in the map, which is the one that Start runs: nobody is left with an    *)
(* informer that was replaced and never gets an event.                     *)
Shared == \A g \in Threads, t \in Types : held[g][t] # 0 => held[g][t] = informers[t]

(* "This allows Start() to be called multiple times safely": an informer   *)
(* is run at most once, by whichever goroutine and with whichever channel. *)
RunOnce == \A t \in Types : runs[t] <= 1

(* A goroutine that was given an informer, has started the factory and     *)
(* waited for it, has an answer about this informer: true only if its      *)
(* cache is filled, false only if the channel it waited with is closed.    *)
WaitTellsTruth ==
  \A g \in Threads, t \in Types :
    pc[g] = "idle" /\ t \in owed[g] =>
      \/ res[g][t] = "true" /\ t \in synced
      \/ res[g][t] = "false" /\ stopCh[g] \in closed

(* Informer() and Start() return, also while others wait for caches that   *)
(* never fill: the wait does not hold the mutex.                           *)
CallsReturn == \A g \in Threads : pc[g] \in {"for", "new", "start", "starting"} ~> pc[g] = "idle"

(* A wait ends once its channel is closed, or once all that it waits for   *)
(* has synced.                                                             *)
WaitEnds ==
  \A g \in Threads :
    (pc[g] = "waiting" /\ (stopCh[g] \in closed \/ snap[g] \subseteq synced)) ~> pc[g] = "idle"
=============================================================================
