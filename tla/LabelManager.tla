--------------------------- MODULE LabelManager ---------------------------
(***************************************************************************)
(* The label manager (src/pkg/metadata/labels/manager.go) and the config     *)
(* reloader (src/pkg/config/reloader.go), for one process: PIDs are separate  *)
(* keys of both caches.                                                    *)
(*                                                                         *)
(* A label set is abstracted to the labels of service discovery, the only     *)
(* provider that is not cached, and to the relabel configuration it went      *)
(* through.  The other providers answer the same every time; one stands for   *)
(* all of them.  Caches forget entries some time after they were written.     *)
(***************************************************************************)
EXTENDS Naturals

CONSTANTS Found,            \* label sets of service discovery
          NotFound,         \* none for the process
          Configs,          \* relabel configurations; NoConfig is the empty one
          NoConfig,
          Bad,              \* a file that does not parse
          Requests,         \* goroutines in LabelSet or Fetch
          Missing           \* no cache entry

Discovered == Found \cup {NotFound}

ASSUME NoConfigAssumption == NoConfig \in Configs
ASSUME BadAssumption == Bad \notin Configs
ASSUME NotFoundAssumption == NotFound \notin Found

VARIABLES discovered,       \* what ServiceDiscoveryProvider.Labels answers
          relabelConfigs,
          labelCache,       \* Missing, or labels and configuration
          providerCache,    \* Missing, or the set after the cached provider
          request,          \* request[r]: where LabelSet or Fetch is
          file,             \* the configuration file
          modified,         \* fsnotify holds a write event
          watcher,          \* watchFile: waiting, or sending the trigger
          triggerReload,    \* channel of capacity one
          reloader          \* Run: waiting, loading, or applying what it loaded

config_vars == <<file, modified, watcher, triggerReload, reloader, relabelConfigs>>
label_vars == <<discovered, labelCache, providerCache, request, config_vars>>

LabelSets == [sd : Discovered, config : Configs]
None == [sd |-> NotFound, config |-> NoConfig]
Idle == [at |-> "idle", fetch |-> FALSE, labels |-> None]

LabelTypeOK ==
    /\ discovered \in Discovered
    /\ relabelConfigs \in Configs
    /\ labelCache \in LabelSets \cup {Missing}
    /\ providerCache \in Discovered \cup {Missing}
    /\ request \in [Requests -> [at : {"idle", "start", "sd", "cached", "peek", "relabel", "put", "returned"},
                                 fetch : BOOLEAN, labels : LabelSets]]
    /\ file \in Configs \cup {Bad}
    /\ modified \in BOOLEAN
    /\ watcher \in {"wait", "send"}
    /\ triggerReload \in BOOLEAN
    /\ reloader \in [at : {"wait", "load", "apply", "stopped"}, config : Configs]

LabelInit ==
    /\ discovered \in Discovered
    /\ relabelConfigs \in Configs
    /\ file = relabelConfigs
    /\ labelCache = Missing /\ providerCache = Missing
    /\ request = [r \in Requests |-> Idle]
    /\ modified = FALSE /\ watcher = "wait" /\ triggerReload = FALSE
    /\ reloader = [at |-> "wait", config |-> NoConfig]

-----------------------------------------------------------------------------
(* LabelSet, from the profiling loop, and Fetch, from InfoManager.          *)

Step(r, from, to) == /\ request[r].at = from
                     /\ request' = [request EXCEPT ![r].at = to]

Start(r) ==
    /\ request[r].at = "idle"
    /\ \/ request' = [request EXCEPT ![r] = [Idle EXCEPT !.at = "start"]]
       \/ request' = [request EXCEPT ![r] = [Idle EXCEPT !.at = "sd", !.fetch = TRUE]]
    /\ UNCHANGED <<discovered, labelCache, providerCache, config_vars>>

Cached(r) ==
    /\ request[r].at = "start"
    /\ request' = [request EXCEPT ![r].at = IF labelCache # Missing THEN "returned" ELSE "sd",
                                  ![r].labels = IF labelCache # Missing THEN labelCache ELSE None]
    /\ UNCHANGED <<discovered, labelCache, providerCache, config_vars>>

\* labelSet asks service discovery first; an error leaves the set as it is.
AskDiscovery(r) ==
    /\ request[r].at = "sd"
    /\ request' = [request EXCEPT ![r].at = "cached", ![r].labels.sd = discovered]
    /\ UNCHANGED <<discovered, labelCache, providerCache, config_vars>>

\* Then the cached provider: what is cached for it is the set of all providers so far, and on a
\* hit that is merged over the set.
AskCachedProvider(r) ==
    /\ request[r].at = "cached"
    /\ IF providerCache = Missing
       THEN /\ providerCache' = request[r].labels.sd
            /\ request' = [request EXCEPT ![r] = IF @.fetch THEN Idle ELSE [@ EXCEPT !.at = "peek"]]
       ELSE /\ request' = [request EXCEPT ![r] = IF @.fetch THEN Idle
                             ELSE [@ EXCEPT !.at = "peek",
                                            !.labels.sd = IF providerCache # NotFound THEN providerCache ELSE @]]
            /\ UNCHANGED providerCache
    /\ UNCHANGED <<discovered, labelCache, config_vars>>

\* len(m.relabelConfigs) is read without the mutex, which is taken to relabel.
PeekConfigs(r) ==
    /\ Step(r, "peek", IF relabelConfigs = NoConfig THEN "put" ELSE "relabel")
    /\ UNCHANGED <<discovered, labelCache, providerCache, config_vars>>

ProcessRelabel(r) ==
    /\ request[r].at = "relabel"
    /\ request' = [request EXCEPT ![r].at = "put", ![r].labels.config = relabelConfigs]
    /\ UNCHANGED <<discovered, labelCache, providerCache, config_vars>>

\* A dropped set is cached as well, as an empty one.
PutLabels(r) ==
    /\ Step(r, "put", "returned")
    /\ labelCache' = request[r].labels
    /\ UNCHANGED <<discovered, providerCache, config_vars>>

Return(r) ==
    /\ request[r].at = "returned"
    /\ request' = [request EXCEPT ![r] = Idle]
    /\ UNCHANGED <<discovered, labelCache, providerCache, config_vars>>

\* Mutant of ExpireLabels: expiry is after the last access, and the entry is in use.
KeepLabels ==
    /\ \A r \in Requests : request[r].at = "idle"
    /\ labelCache # Missing
    /\ labelCache' = Missing
    /\ UNCHANGED <<discovered, providerCache, request, config_vars>>

\* burrow.WithExpireAfterWrite, three rounds and sixty rounds.
ExpireLabels ==
    /\ labelCache # Missing
    /\ labelCache' = Missing
    /\ UNCHANGED <<discovered, providerCache, request, config_vars>>

ExpireProvider ==
    /\ providerCache # Missing
    /\ providerCache' = Missing
    /\ UNCHANGED <<discovered, labelCache, request, config_vars>>

\* Service discovery stores another state (Discovery).
Rediscover ==
    /\ discovered' \in Discovered \ {discovered}
    /\ UNCHANGED <<labelCache, providerCache, request, config_vars>>

-----------------------------------------------------------------------------
(* The configuration file and ConfigReloader.                              *)

labels_only == <<discovered, providerCache, request>>

\* Somebody writes the file in place, and fsnotify reports it as a write, the only event that
\* watchFile acts on.
WriteFile ==
    /\ file' \in (Configs \cup {Bad}) \ {file}
    /\ modified' = TRUE
    /\ UNCHANGED <<labels_only, labelCache, watcher, triggerReload, reloader, relabelConfigs>>

WatchEvent ==
    /\ watcher = "wait"
    /\ modified
    /\ modified' = FALSE
    /\ watcher' = "send"
    /\ UNCHANGED <<labels_only, labelCache, file, triggerReload, reloader, relabelConfigs>>

\* The send blocks while a trigger is pending.
SendTrigger ==
    /\ watcher = "send"
    /\ ~triggerReload
    /\ triggerReload' = TRUE
    /\ watcher' = "wait"
    /\ UNCHANGED <<labels_only, labelCache, file, modified, reloader, relabelConfigs>>

TakeTrigger ==
    /\ reloader.at = "wait"
    /\ triggerReload
    /\ triggerReload' = FALSE
    /\ reloader' = [reloader EXCEPT !.at = "load"]
    /\ UNCHANGED <<labels_only, labelCache, file, modified, watcher, relabelConfigs>>

\* Mutant of LoadFile: a file that does not parse ends Run.
LoadFileOrStop ==
    /\ reloader.at = "load"
    /\ reloader' = IF file = Bad THEN [reloader EXCEPT !.at = "stopped"]
                   ELSE [at |-> "apply", config |-> file]
    /\ UNCHANGED <<labels_only, labelCache, file, modified, watcher, triggerReload, relabelConfigs>>

\* An error is logged, and the old configuration stays.
LoadFile ==
    /\ reloader.at = "load"
    /\ reloader' = IF file = Bad THEN [reloader EXCEPT !.at = "wait"]
                   ELSE [at |-> "apply", config |-> file]
    /\ UNCHANGED <<labels_only, labelCache, file, modified, watcher, triggerReload, relabelConfigs>>

\* Manager.ApplyConfig, under the mutex: the configuration and an empty cache.
ApplyConfig ==
    /\ reloader.at = "apply"
    /\ relabelConfigs' = reloader.config
    /\ labelCache' = Missing
    /\ reloader' = [at |-> "wait", config |-> NoConfig]
    /\ UNCHANGED <<labels_only, file, modified, watcher, triggerReload>>

-----------------------------------------------------------------------------
Answer(r) == Cached(r) \/ AskDiscovery(r) \/ AskCachedProvider(r) \/ PeekConfigs(r)
                \/ ProcessRelabel(r) \/ PutLabels(r) \/ Return(r)
Watch == WatchEvent \/ SendTrigger
Reload == TakeTrigger \/ LoadFile \/ ApplyConfig

LabelNext ==
    \/ \E r \in Requests : Start(r) \/ Answer(r)
    \/ ExpireLabels \/ ExpireProvider \/ Rediscover
    \/ WriteFile \/ Watch \/ Reload

LabelSpec == LabelInit /\ [][LabelNext]_label_vars

\* Goroutines go on, file events are delivered and cache entries expire.
LabelFairness ==
    /\ \A r \in Requests : WF_label_vars(Answer(r))
    /\ WF_label_vars(ExpireLabels)
    /\ WF_label_vars(ExpireProvider)
    /\ WF_label_vars(Watch)
    /\ WF_label_vars(Reload)

-----------------------------------------------------------------------------
(* Properties.                                                             *)

\* The last configuration that was written and parses is applied, whatever came before it: a
\* write while a reload runs or while triggers are pending, or a file that did not parse.
LastConfigApplied == \A c \in Configs : <>[](file = c) => <>[](relabelConfigs = c)

\* Once service discovery and the file have settled, all answers of LabelSet come to agree with
\* both: what a request computed under an older configuration or from older labels, and put in
\* a cache after the change, does not stay.
LabelsCatchUp ==
    \A d \in Discovered, c \in Configs :
        <>[](discovered = d /\ file = c)
            => <>[](\A r \in Requests : request[r].at = "returned" => request[r].labels = [sd |-> d, config |-> c])

\* Nothing relabelled with a configuration that ApplyConfig has replaced is in the cache it emptied
\* ("ApplyConfig updates the Manager's config").
CachedUnderConfig == labelCache # Missing => labelCache.config = relabelConfigs

\* Labels of service discovery are not cached with those of the stateless providers ("Stateless
\* providers are cached for a longer period of time"): a set is not merged with labels that
\* service discovery gave another time.
DiscoveryIsNotCached ==
    [][\A r \in Requests : request[r].at = "cached" /\ request'[r].at = "peek"
          => request'[r].labels.sd = request[r].labels.sd]_label_vars
=============================================================================
