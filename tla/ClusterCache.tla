---------------------------- MODULE ClusterCache ----------------------------
(***************************************************************************)
(* Reading and writing Cluster objects through the clients in pkg/client:  *)
(* the typed client (clientset/versioned/typed/kopilot/v1alpha1), the      *)
(* informer that keeps a cache of them (informers/externalversions), the   *)
(* listers on that cache (listers/kopilot/v1alpha1), and the deep copies   *)
(* that whoever changes a cached object has to make                        *)
(* (pkg/apis/kopilot/v1alpha1/zz_generated.deepcopy.go).                   *)
(*                                                                         *)
(* External: the API server, whose state is the sequence of its writes,    *)
(* the index of a write being its resource version; and client-go's        *)
(* reflector, which lists, then watches from the version of the list, and  *)
(* does so again whenever the watch ends.                                  *)
(***************************************************************************)
EXTENDS Naturals, Sequences, FiniteSetsExt

CONSTANTS Namespaces, Names,
          Clients,   \* goroutines that use the clients
          All,       \* NamespaceAll
          None,      \* no object in hand
          MaxWrites  \* bound on the writes

ASSUME CacheAssumption ==
  /\ All \notin Namespaces
  /\ MaxWrites \in Nat

Keys == Namespaces \X Names

VARIABLES
  log,      \* writes: [key, live, label, cnt]; cnt is the object's content,
            \*   label says whether the tweaked list options select it
  informer, \* namespace and tweakListOptions of the cluster informer
  cache,    \* key -> the object in the indexer, Nil for none
  pos,      \* resource version that the reflector has seen
  conn,     \* reflector: "list" | "watch" (to be opened) | "on"
  obj,      \* client -> object in hand, or None; "shared": it is the one in
            \*   the indexer; "dirty": changed, not yet written
  doomed    \* client -> keys that its DeleteCollection has yet to delete

(* History: accepted updates of an object since it was created.            *)
VARIABLE acc

apiVars == <<log, acc>>
reflectorVars == <<cache, pos, conn>>
clientVars == <<obj, doomed>>
vars == <<apiVars, informer, reflectorVars, clientVars>>

Nil == [ver |-> 0, label |-> FALSE, cnt |-> 0]

-----------------------------------------------------------------------------
(* The API server                                                          *)

(* Version of the last write of k up to n, 0 for none.                     *)
Version(k, n) == Max({0} \cup {i \in 1..n : log[i].key = k})

Now == Len(log)
Live(k) == LET v == Version(k, Now) IN v # 0 /\ log[v].live

Decode(v) == [ver |-> v, label |-> log[v].label, cnt |-> log[v].cnt]

Write(k, live, label, cnt) ==
  /\ Now < MaxWrites
  /\ log' = Append(log, [key |-> k, live |-> live, label |-> label, cnt |-> cnt])

-----------------------------------------------------------------------------
(* The typed client's reads: what List and Watch of namespace ns, with or  *)
(* without the label selector, let through.                                *)
Selected(ns, tweaked, e) ==
  /\ e.live
  /\ ns = All \/ e.key[1] = ns
  /\ tweaked => e.label

List(ns, tweaked, n) ==
  [k \in Keys |-> LET v == Version(k, n) IN
                  IF v # 0 /\ Selected(ns, tweaked, log[v]) THEN Decode(v) ELSE Nil]

Watch(ns, tweaked, e) == Selected(ns, tweaked, e)

-----------------------------------------------------------------------------
(* The informer: what its factory was made with.                           *)
WithNamespace(f, ns) == [f EXCEPT !.namespace = ns]
WithTweakListOptions(f) == [f EXCEPT !.tweakListOptions = TRUE]

NewSharedInformerFactories ==
  LET f == [namespace |-> All, tweakListOptions |-> FALSE]
      fs == {f} \cup {WithNamespace(f, ns) : ns \in Namespaces}
  IN fs \cup {WithTweakListOptions(g) : g \in fs}

(* Kopilot().V1alpha1().Clusters()                                         *)
ClusterInformer(f) ==
  [namespace |-> f.namespace, tweakListOptions |-> f.tweakListOptions]

Init ==
  /\ log    = <<>>
  /\ acc    = [k \in Keys |-> 0]
  /\ informer \in {ClusterInformer(f) : f \in NewSharedInformerFactories}
  /\ cache  = [k \in Keys |-> Nil]
  /\ pos    = 0
  /\ conn   = "list"
  /\ obj    = [c \in Clients |-> None]
  /\ doomed = [c \in Clients |-> {}]

ListFunc(n) == List(informer.namespace, informer.tweakListOptions, n)

WatchFuncUntweaked(e) == Watch(informer.namespace, FALSE, e)
WatchFunc(e) == Watch(informer.namespace, informer.tweakListOptions, e)

(* The resource version that the options of a list carry: the answer is at *)
(* least as new.                                                           *)
ListFrom == pos

ReflectorList ==
  /\ conn = "list"
  /\ \E n \in ListFrom..Now : cache' = ListFunc(n) /\ pos' = n
  /\ conn' = "watch"
  /\ UNCHANGED <<apiVars, informer, clientVars>>

ReflectorWatch ==
  /\ conn = "watch"
  /\ conn' = "on"
  /\ UNCHANGED <<apiVars, informer, cache, pos, clientVars>>

(* The next write: an object that is selected is stored, one that is not,  *)
(* or no longer, is removed.                                               *)
ReflectorEvent ==
  LET e == log[pos + 1] IN
  /\ conn = "on" /\ pos < Now
  /\ cache' = [cache EXCEPT ![e.key] = IF WatchFunc(e) THEN Decode(pos + 1) ELSE Nil]
  /\ pos' = pos + 1
  /\ UNCHANGED <<apiVars, informer, conn, clientVars>>

(* A watch ends: by its timeout, or by an error that requires a new list.  *)
ReflectorBreak ==
  /\ conn = "on"
  /\ conn' \in {"watch", "list"}
  /\ UNCHANGED <<apiVars, informer, cache, pos, clientVars>>

-----------------------------------------------------------------------------
(* Clients: reading an object                                              *)

Take(c, k, o, shared) ==
  /\ obj' = [obj EXCEPT ![c] =
               [key |-> k, ver |-> o.ver, label |-> o.label, cnt |-> o.cnt,
                shared |-> shared, dirty |-> FALSE]]
  /\ UNCHANGED <<apiVars, informer, reflectorVars, doomed>>

(* Get of the typed client; NotFound changes nothing.                      *)
Get(c, k) == Live(k) /\ Take(c, k, Decode(Version(k, Now)), FALSE)

(* Get of the lister: the object itself that is in the indexer.            *)
ListerGet(c, k) == cache[k] # Nil /\ Take(c, k, cache[k], TRUE)

(* List of the lister, of one namespace or all, with or without a selector:*)
(* the client goes on with one of the objects.                             *)
ListerList(ns, selecting) ==
  {k \in Keys : /\ cache[k] # Nil
                /\ ns = All \/ k[1] = ns
                /\ selecting => cache[k].label}

ListerPick(c) ==
  \E ns \in Namespaces \cup {All}, sel \in BOOLEAN : \E k \in ListerList(ns, sel) :
    Take(c, k, cache[k], TRUE)

(* A copy, object metadata included, shares nothing with the original.     *)
DeepCopyShallow(o) == o
DeepCopy(o) == [o EXCEPT !.shared = FALSE]

(* "Objects returned here must be treated as read-only": a client changes  *)
(* a copy of what it was given.                                            *)
Modify(c) ==
  /\ obj[c] # None /\ ~obj[c].dirty
  /\ LET o == DeepCopy(obj[c]) IN
     /\ obj' = [obj EXCEPT ![c] = [o EXCEPT !.cnt = @ + 1, !.dirty = TRUE]]
     /\ cache' = IF o.shared /\ cache[o.key].ver = o.ver
                 THEN [cache EXCEPT ![o.key].cnt = @ + 1] ELSE cache
  /\ UNCHANGED <<apiVars, informer, pos, conn, doomed>>

-----------------------------------------------------------------------------
(* Clients: writing                                                        *)

(* The body of an Update carries the version of the object in hand.        *)
SentLatest(c) == Version(obj[c].key, Now)
SentVersion(c) == obj[c].ver

(* The answer is the object as stored, or is lost; a client that got none  *)
(* tries again, or reads again, as it does after a conflict.               *)
UpdateOK(c) ==
  LET o == obj[c] IN
  /\ o # None /\ o.dirty /\ Live(o.key) /\ SentVersion(c) = Version(o.key, Now)
  /\ Write(o.key, TRUE, o.label, o.cnt)
  /\ acc' = [acc EXCEPT ![o.key] = @ + 1]
  /\ \/ obj' = [obj EXCEPT ![c].ver = Now + 1, ![c].dirty = FALSE]
     \/ UNCHANGED obj
  /\ UNCHANGED <<informer, reflectorVars, doomed>>

UpdateError(c) ==
  LET o == obj[c] IN
  /\ o # None /\ o.dirty /\ ~(Live(o.key) /\ SentVersion(c) = Version(o.key, Now))
  /\ obj' = [obj EXCEPT ![c] = None]
  /\ UNCHANGED <<apiVars, informer, reflectorVars, doomed>>

(* Another program changes the object: only the moment at which its update *)
(* is accepted is seen, when nothing has come between its read and it.     *)
OtherUpdate(k) ==
  LET v == Version(k, Now) IN
  /\ Live(k)
  /\ Write(k, TRUE, log[v].label, log[v].cnt + 1)
  /\ acc' = [acc EXCEPT ![k] = @ + 1]
  /\ UNCHANGED <<informer, reflectorVars, clientVars>>

(* AlreadyExists changes nothing.                                          *)
Create(c, k, label) ==
  /\ ~Live(k)
  /\ Write(k, TRUE, label, 0)
  /\ acc' = [acc EXCEPT ![k] = 0]
  /\ UNCHANGED <<informer, reflectorVars, clientVars>>

(* A merge patch of the label: it has no version and applies to the object *)
(* as it is on the server.                                                 *)
Patch(c, k) ==
  LET v == Version(k, Now) IN
  /\ Live(k)
  /\ Write(k, TRUE, ~log[v].label, log[v].cnt)
  /\ UNCHANGED <<acc, informer, reflectorVars, clientVars>>

Remove(k) ==
  /\ Live(k)
  /\ Write(k, FALSE, FALSE, 0)
  /\ UNCHANGED <<acc, informer, reflectorVars, obj>>

Delete(c, k) == Remove(k) /\ UNCHANGED doomed

(* The server lists the collection, then deletes one object after another. *)
DeleteCollection(c, ns, selecting) ==
  /\ doomed[c] = {}
  /\ doomed' = [doomed EXCEPT ![c] = {k \in Keys : List(ns, selecting, Now)[k] # Nil}]
  /\ UNCHANGED <<apiVars, informer, reflectorVars, obj>>

DeleteNext(c, k) ==
  /\ k \in doomed[c]
  /\ IF Live(k) THEN Remove(k) ELSE UNCHANGED <<apiVars, informer, reflectorVars, obj>>
  /\ doomed' = [doomed EXCEPT ![c] = @ \ {k}]

-----------------------------------------------------------------------------
Reflector == ReflectorList \/ ReflectorWatch \/ ReflectorEvent \/ ReflectorBreak

ClientStep(c) ==
  \/ ListerPick(c) \/ Modify(c) \/ UpdateOK(c) \/ UpdateError(c)
  \/ \E k \in Keys :
       \/ Get(c, k) \/ ListerGet(c, k) \/ Patch(c, k) \/ Delete(c, k) \/ DeleteNext(c, k)
       \/ \E label \in BOOLEAN : Create(c, k, label)
  \/ \E ns \in Namespaces, sel \in BOOLEAN : DeleteCollection(c, ns, sel)

Next ==
  \/ Reflector
  \/ \E c \in Clients : ClientStep(c)
  \/ \E k \in Keys : OtherUpdate(k)

Spec == Init /\ [][Next]_vars

(* The reflector tries again for ever; its lists and watches fail any      *)
(* number of times, but not every time.                                    *)
Fairness == WF_vars(ReflectorList) /\ WF_vars(ReflectorWatch) /\ SF_vars(ReflectorEvent)

FairSpec == Spec /\ Fairness

-----------------------------------------------------------------------------
(* Properties                                                              *)

(* The cache is what the server had at one moment, reduced to what the     *)
(* informer was made for: events are neither lost nor applied twice across *)
(* broken watches and new lists, an object whose label is taken away       *)
(* leaves the cache, and clients that change what listers have given them  *)
(* do not change the cache.                                                *)
CacheIsSnapshot == cache = ListFunc(pos)

(* Concurrent changes are never lost: an object has been changed as often  *)
(* as updates of it were accepted, although clients start from a stale     *)
(* cache, retry updates whose answer was lost, patch the object meanwhile  *)
(* and delete and create it again.                                         *)
NoLostUpdate == \A k \in Keys : Live(k) => log[Version(k, Now)].cnt = acc[k]

(* Once no more is written, the cache comes to show the last state.        *)
CacheCatchesUp == <>[](cache = ListFunc(Len(log)))
=============================================================================
