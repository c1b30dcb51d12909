----------------------------- MODULE Discovery -----------------------------
(***************************************************************************)
(* Service discovery: how a change of a systemd unit reaches the labels of   *)
(* a process.  SystemdDiscoverer (src/pkg/discovery/systemd.go) polls the     *)
(* units and reports those that changed to the discovery manager             *)
(* (discovery_manager.go), whose updater stores them in Targets and whose     *)
(* sender offers all of them, at most once a tick, to                       *)
(* ServiceDiscoveryProvider (src/pkg/metadata/service_discovery.go).         *)
(*                                                                         *)
(* The agent configures the manager once, at its start, so the providers     *)
(* stay.  The manager, one discoverer and one target set are modelled; a     *)
(* group is the main PID of a unit, or Empty for a unit without targets.      *)
(***************************************************************************)
EXTENDS Naturals

CONSTANTS Units,
          MainPIDs,         \* PIDs that may be the main process of a unit
          MaxDBusFaults,    \* bound on failed calls to systemd
          Absent, Dead,     \* a unit that is not loaded, or not running
          NoGroup, Empty    \* nothing reported for a unit, or that it has no target

VARIABLES unit,             \* unit[u]: Absent, Dead, or its main PID
          seen,             \* SystemdDiscoverer.units, by substate
          disc,             \* Run of the discoverer
          updater,          \* the updater goroutine
          Targets,          \* Manager.Targets of the only pool key
          triggerSend,      \* channel of capacity one
          sender,           \* the sender goroutine
          receiver,         \* Run of ServiceDiscoveryProvider
          state,            \* its map: the units whose labels each PID has
          dbus_faults

disc_vars == <<unit, seen, disc, updater, Targets, triggerSend, sender, receiver, state, dbus_faults>>

Running == "running"
SubStates == {Absent, Dead, Running}
SubState(u) == IF unit[u] \in MainPIDs THEN Running ELSE unit[u]

Groups == [Units -> MainPIDs \cup {Empty, NoGroup}]
Nothing == [u \in Units |-> NoGroup]

DiscTypeOK ==
    /\ unit \in [Units -> MainPIDs \cup {Absent, Dead}]
    /\ seen \in [Units -> SubStates]
    /\ disc \in [at : {"sleep", "ask", "stopped"}, ask : SUBSET Units, groups : Groups]
    /\ updater \in [at : {"wait", "update", "trigger"}, groups : Groups]
    /\ Targets \in Groups
    /\ triggerSend \in BOOLEAN
    /\ sender \in [at : {"tick", "offer"}, groups : Groups]
    /\ receiver \in [at : {"wait", "store"}, groups : Groups]
    /\ state \in [MainPIDs -> SUBSET Units]
    /\ dbus_faults \in 0..MaxDBusFaults

DiscInit ==
    /\ unit \in [Units -> {Absent}]
    /\ seen = [u \in Units |-> Absent]
    /\ disc = [at |-> "sleep", ask |-> {}, groups |-> Nothing]
    /\ updater = [at |-> "wait", groups |-> Nothing]
    /\ Targets = Nothing
    /\ triggerSend = FALSE
    /\ sender = [at |-> "tick", groups |-> Nothing]
    /\ receiver = [at |-> "wait", groups |-> Nothing]
    /\ state = [p \in MainPIDs |-> {}]
    /\ dbus_faults = 0

-----------------------------------------------------------------------------
\* systemd: a unit starts, stops, restarts with another main PID, or is unloaded.
ChangeUnit(u) ==
    /\ \E s \in (MainPIDs \ {unit[v] : v \in Units \ {u}}) \cup {Absent, Dead} :
          s # unit[u] /\ unit' = [unit EXCEPT ![u] = s]
    /\ UNCHANGED <<seen, disc, updater, Targets, triggerSend, sender, receiver, state, dbus_faults>>

-----------------------------------------------------------------------------
(* SystemdDiscoverer.Run.                                                  *)

\* Mutant of Changed: units that are gone are not reported.
ChangedAndLoaded == {u \in Units : SubState(u) # seen[u] /\ unit[u] # Absent}

\* unitsUpdate: the units that are new, gone, or in another substate.
Changed == {u \in Units : SubState(u) # seen[u]}

\* Every five seconds.  Only running units are asked for their PID.
Poll ==
    /\ disc.at = "sleep"
    /\ seen' = [u \in Units |-> SubState(u)]
    /\ disc' = IF Changed = {} THEN disc
               ELSE [at |-> "ask",
                     ask |-> {u \in Changed : SubState(u) = Running},
                     groups |-> [u \in Units |-> IF u \in Changed /\ SubState(u) # Running
                                                 THEN Empty ELSE NoGroup]]
    /\ UNCHANGED <<unit, updater, Targets, triggerSend, sender, receiver, state, dbus_faults>>

\* MainPID of a unit that has stopped since is 0, which the receiver ignores.
AskMainPID(u) ==
    /\ disc.at = "ask"
    /\ u \in disc.ask
    /\ unit[u] # Absent
    /\ disc' = [disc EXCEPT !.ask = @ \ {u},
                            !.groups[u] = IF unit[u] \in MainPIDs THEN unit[u] ELSE Empty]
    /\ UNCHANGED <<unit, seen, updater, Targets, triggerSend, sender, receiver, state, dbus_faults>>

\* After an error the client reconnects; if that fails, the discoverer ends.
Reset(d) == disc' \in {d, [d EXCEPT !.at = "stopped", !.ask = {}, !.groups = Nothing]}

Fault == dbus_faults < MaxDBusFaults /\ dbus_faults' = dbus_faults + 1

PollFails ==
    /\ disc.at = "sleep"
    /\ Fault
    /\ Reset(disc)
    /\ UNCHANGED <<unit, seen, updater, Targets, triggerSend, sender, receiver, state>>

\* The unit is left out of the update ...
AskFails(u) ==
    /\ disc.at = "ask"
    /\ u \in disc.ask
    /\ Fault
    /\ Reset([disc EXCEPT !.ask = @ \ {u}])
    /\ UNCHANGED <<unit, seen, updater, Targets, triggerSend, sender, receiver, state>>

\* ... and so is one that was unloaded since, and has no MainPID.
AskUnloaded(u) ==
    /\ disc.at = "ask"
    /\ u \in disc.ask
    /\ unit[u] = Absent
    /\ disc' = [disc EXCEPT !.ask = @ \ {u}]
    /\ UNCHANGED <<unit, seen, updater, Targets, triggerSend, sender, receiver, state, dbus_faults>>

\* The unbuffered channel of updates: discoverer and updater move.
SendUpdate ==
    /\ disc.at = "ask"
    /\ disc.ask = {}
    /\ updater.at = "wait"
    /\ updater' = [at |-> "update", groups |-> disc.groups]
    /\ disc' = [at |-> "sleep", ask |-> {}, groups |-> Nothing]
    /\ UNCHANGED <<unit, seen, Targets, triggerSend, sender, receiver, state, dbus_faults>>

-----------------------------------------------------------------------------
(* The discovery manager.                                                  *)

\* updateGroup, under the mutex.
UpdateGroup ==
    /\ updater.at = "update"
    /\ Targets' = [u \in Units |-> IF updater.groups[u] # NoGroup THEN updater.groups[u] ELSE Targets[u]]
    /\ updater' = [at |-> "trigger", groups |-> Nothing]
    /\ UNCHANGED <<unit, seen, disc, triggerSend, sender, receiver, state, dbus_faults>>

\* A full channel is left as it is.
Trigger ==
    /\ updater.at = "trigger"
    /\ triggerSend' = TRUE
    /\ updater' = [updater EXCEPT !.at = "wait"]
    /\ UNCHANGED <<unit, seen, disc, Targets, sender, receiver, state, dbus_faults>>

\* The ticker of the sender: takes the trigger and evaluates allGroups.
SenderTicks ==
    /\ sender.at = "tick"
    /\ triggerSend
    /\ triggerSend' = FALSE
    /\ sender' = [at |-> "offer", groups |-> Targets]
    /\ UNCHANGED <<unit, seen, disc, updater, Targets, receiver, state, dbus_faults>>

\* Mutant of Offer: a receiver that is busy misses the update.
OfferOnce ==
    /\ sender.at = "offer"
    /\ sender' = [at |-> "tick", groups |-> Nothing]
    /\ receiver' = IF receiver.at = "wait" THEN [at |-> "store", groups |-> sender.groups] ELSE receiver
    /\ UNCHANGED <<unit, seen, disc, updater, Targets, triggerSend, state, dbus_faults>>

\* Sends if the receiver waits, otherwise sets the trigger for the next tick.
Offer ==
    /\ sender.at = "offer"
    /\ sender' = [at |-> "tick", groups |-> Nothing]
    /\ \/ /\ receiver.at = "wait"
          /\ receiver' = [at |-> "store", groups |-> sender.groups]
          /\ UNCHANGED triggerSend
       \/ /\ receiver.at # "wait"
          /\ triggerSend' = TRUE
          /\ UNCHANGED receiver
    /\ UNCHANGED <<unit, seen, disc, updater, Targets, state, dbus_faults>>

\* ServiceDiscoveryProvider.Run replaces its state; PID 0 and groups without labels are left out.
Store ==
    /\ receiver.at = "store"
    /\ state' = [p \in MainPIDs |-> {u \in Units : receiver.groups[u] = p}]
    /\ receiver' = [at |-> "wait", groups |-> Nothing]
    /\ UNCHANGED <<unit, seen, disc, updater, Targets, triggerSend, sender, dbus_faults>>

-----------------------------------------------------------------------------
Discover == Poll \/ (\E u \in Units : AskMainPID(u) \/ AskUnloaded(u)) \/ SendUpdate
DBusFails == PollFails \/ \E u \in Units : AskFails(u)
Update == UpdateGroup \/ Trigger
Send == SenderTicks \/ Offer

DiscNext == (\E u \in Units : ChangeUnit(u)) \/ Discover \/ DBusFails \/ Update \/ Send \/ Store

DiscSpec == DiscInit /\ [][DiscNext]_disc_vars

\* Tickers tick and goroutines go on; nothing is promised of units and faults.
DiscFairness ==
    /\ WF_disc_vars(Discover)
    /\ WF_disc_vars(Update)
    /\ WF_disc_vars(Send)
    /\ WF_disc_vars(Store)

-----------------------------------------------------------------------------
(* Properties.                                                             *)

Labelled(u, p) == u \in state[p]

\* What the manager has stored for a unit becomes what the label provider answers, unless it is
\* replaced before: the throttled sender never loses the last update, though it offers without
\* waiting and the trigger has room for one.
ReportedArrives ==
    \A u \in Units, g \in MainPIDs \cup {Empty} :
        Targets[u] = g ~> (Targets[u] # g \/ \A p \in MainPIDs : Labelled(u, p) <=> g = p)

\* A unit that has stopped for good loses its labels for good, whatever was being asked, sent or
\* stored when it stopped, as long as the discoverer has not given up systemd.
StoppedLosesLabels ==
    \A u \in Units :
        <>[](unit[u] \notin MainPIDs /\ disc.at # "stopped") => <>[](\A p \in MainPIDs : ~Labelled(u, p))

\* The counterpart: a unit that goes on running keeps its labels on its main PID ("unitsUpdate
\* returns systemd units if there were any changes detected").
RunningGetsLabels ==
    \A u \in Units, p \in MainPIDs :
        <>[](unit[u] = p /\ disc.at # "stopped") => <>[]Labelled(u, p)
=============================================================================
