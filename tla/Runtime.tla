------------------------------- MODULE Runtime -------------------------------
\* The process in cmd/l7rp/main.go: the signal loop of serve, reloadConfig with
\* its listener plan, the goroutines that drain replaced listeners, and the
\* shutdown.  A definition in a configuration is a version number, and a
\* listener or pool built from one is known by its name and its place in the
\* sequence of those built under that name.  Requests are left out: the states
\* of sockets and monitors are what a reload must keep right for them.  TCP
\* listeners are too, since reload never touches them.
EXTENDS Naturals, Sequences

CONSTANTS
  Names,       \* names of listeners
  Pools,       \* names of pools, all of them with a health monitor
  Versions,    \* the definitions a name can be given
  MaxEdits     \* bound: how often the operator changes the file

Absent == 0

ASSUME RuntimeAssumption == Versions \subseteq Nat \ {Absent} /\ MaxEdits \in Nat

VARIABLES
  file,        \* the configuration on disk
  edits,       \* how often it was changed
  owed,        \* it was changed, and SIGHUP has yet to be sent
  sigCh,       \* the channel of capacity 1 that signal.Notify sends to
  pc,          \* where serve's goroutine is
  cfg,         \* rt.cfg
  listeners,   \* rt.listeners: the current instance of each name, Absent if none
  pools,       \* rt.pools, and with it the router's table
  sockets,     \* for each name the listeners built: bound, serving or closed
  monitors,    \* for each pool the monitors started: is Run still running?
  newCfg,      \* reloadConfig's locals: the configuration it loaded,
  newOnes,     \*   plan.newOnes,
  retired,     \*   plan.retired,
  newPools,    \*   and newPools
  draining     \* listeners that background goroutines have yet to shut down

operatorVars == <<file, edits, owed>>
localVars == <<newCfg, newOnes, retired, newPools>>
vars == <<operatorVars, sigCh, pc, cfg, listeners, pools, sockets, monitors,
          localVars, draining>>

Config == [listeners : [Names -> Versions \cup {Absent}],
           pools : [Pools -> Versions \cup {Absent}]]

\* The process after buildRuntime and the loop that starts its listeners.
Init ==
  /\ cfg \in Config
  /\ file = cfg /\ edits = 0 /\ owed = FALSE
  /\ sigCh = "empty"
  /\ pc = "waiting"
  /\ listeners = [n \in Names |-> IF cfg.listeners[n] = Absent THEN Absent ELSE 1]
  /\ sockets = [n \in Names |-> IF cfg.listeners[n] = Absent THEN <<>> ELSE <<"serving">>]
  /\ pools = [p \in Pools |-> IF cfg.pools[p] = Absent THEN Absent ELSE 1]
  /\ monitors = [p \in Pools |-> IF cfg.pools[p] = Absent THEN <<>> ELSE <<TRUE>>]
  /\ newCfg = cfg
  /\ newOnes = [n \in Names |-> Absent]
  /\ retired = {}
  /\ newPools = [p \in Pools |-> Absent]
  /\ draining = {}

Alive == pc # "stopped"

-----------------------------------------------------------------------------
\* The operator writes the file, and then sends SIGHUP.
WriteFile(c) ==
  /\ Alive /\ edits < MaxEdits
  /\ file' = c /\ edits' = edits + 1 /\ owed' = TRUE
  /\ UNCHANGED <<sigCh, pc, cfg, listeners, pools, sockets, monitors, localVars, draining>>

\* Mutant: an unbuffered channel.
NotifyUnbuffered(s) == sigCh' = IF sigCh = "empty" /\ pc = "waiting" THEN s ELSE sigCh

\* signal.Notify does not block: with a signal in the channel a second one is
\* dropped.
Notify(s) == sigCh' = IF sigCh = "empty" THEN s ELSE sigCh

SendHUP ==
  /\ Alive /\ owed
  /\ owed' = FALSE
  /\ Notify("SIGHUP")
  /\ UNCHANGED <<file, edits, pc, cfg, listeners, pools, sockets, monitors, localVars, draining>>

SendTERM ==
  /\ Alive
  /\ Notify("SIGTERM")
  /\ UNCHANGED <<operatorVars, pc, cfg, listeners, pools, sockets, monitors, localVars, draining>>

-----------------------------------------------------------------------------
\* reloadConfig loads the file: a file that does not parse or validate ends the
\* reload.
LoadFails ==
  /\ pc = "waiting" /\ sigCh = "SIGHUP"
  /\ sigCh' = "empty"
  /\ newCfg' = file
  /\ UNCHANGED <<operatorVars, pc, cfg, listeners, pools, sockets, monitors,
                 newOnes, retired, newPools, draining>>

Load ==
  /\ pc = "waiting" /\ sigCh = "SIGHUP"
  /\ sigCh' = "empty"
  /\ newCfg' = file
  /\ newOnes' = [n \in Names |-> Absent]
  /\ pc' = "diff"
  /\ UNCHANGED <<operatorVars, cfg, listeners, pools, sockets, monitors,
                 retired, newPools, draining>>

removed == {n \in Names : cfg.listeners[n] # Absent /\ newCfg.listeners[n] = Absent}
added == {n \in Names : cfg.listeners[n] = Absent /\ newCfg.listeners[n] # Absent}
replaced == {n \in Names : cfg.listeners[n] # Absent /\ newCfg.listeners[n] # Absent
                             /\ cfg.listeners[n] # newCfg.listeners[n]}

ToBuild == {n \in replaced \cup added : newOnes[n] = Absent}

\* The next listener of the plan is bound: its socket is open, beside that of
\* the instance it will replace, and nothing accepts from it yet.
BuildListener(n) ==
  /\ pc = "diff"
  /\ n \in ToBuild
  /\ n \in added => ToBuild \cap replaced = {}
  /\ sockets' = [sockets EXCEPT ![n] = Append(@, "bound")]
  /\ newOnes' = [newOnes EXCEPT ![n] = Len(sockets[n]) + 1]
  /\ UNCHANGED <<operatorVars, sigCh, pc, cfg, listeners, pools, monitors,
                 newCfg, retired, newPools, draining>>

\* An address, a certificate or a QUIC port fails, and the reload returns: the
\* listeners built before stay bound.
BuildListenerFails ==
  /\ pc = "diff" /\ ToBuild # {}
  /\ pc' = "waiting"
  /\ UNCHANGED <<operatorVars, sigCh, cfg, listeners, pools, sockets, monitors,
                 localVars, draining>>

\* The plan is complete; pools with an equal definition are kept.
ListenersBuilt ==
  /\ pc = "diff" /\ ToBuild = {}
  /\ retired' = {<<n, listeners[n]>> : n \in {m \in removed \cup replaced : listeners[m] # Absent}}
  /\ newPools' = [p \in Pools |-> IF cfg.pools[p] = newCfg.pools[p] THEN pools[p] ELSE Absent]
  /\ pc' = "pools"
  /\ UNCHANGED <<operatorVars, sigCh, cfg, listeners, pools, sockets, monitors,
                 newCfg, newOnes, draining>>

PoolsToBuild == {p \in Pools : newCfg.pools[p] # Absent /\ newPools[p] = Absent}

\* The monitors of pool p with its current one cancelled.
Cancelled(p) == IF pools[p] = Absent THEN monitors[p]
                ELSE [monitors[p] EXCEPT ![pools[p]] = FALSE]

\* A new or changed pool: the old monitor is cancelled, and buildPool starts
\* the new one.
RebuildPool(p) ==
  /\ pc = "pools"
  /\ p \in PoolsToBuild
  /\ monitors' = [monitors EXCEPT ![p] = Append(Cancelled(p), TRUE)]
  /\ newPools' = [newPools EXCEPT ![p] = Len(monitors[p]) + 1]
  /\ UNCHANGED <<operatorVars, sigCh, pc, cfg, listeners, pools, sockets,
                 newCfg, newOnes, retired, draining>>

\* buildPool fails (a URL, a selector, a certificate) when the old monitor has
\* been cancelled, and the reload returns.
RebuildPoolFails(p) ==
  /\ pc = "pools"
  /\ p \in PoolsToBuild
  /\ monitors' = [monitors EXCEPT ![p] = Cancelled(p)]
  /\ pc' = "waiting"
  /\ UNCHANGED <<operatorVars, sigCh, cfg, listeners, pools, sockets, localVars, draining>>

\* Pools that are gone from the configuration lose their monitors ...
PoolsRetired ==
  /\ pc = "pools" /\ PoolsToBuild = {}
  /\ monitors' = [p \in Pools |-> IF newPools[p] = Absent THEN Cancelled(p) ELSE monitors[p]]

\* ... before NewRouter may refuse the routes, which ends the reload ...
RouterFails ==
  /\ PoolsRetired
  /\ pc' = "waiting"
  /\ UNCHANGED <<operatorVars, sigCh, cfg, listeners, pools, sockets, localVars, draining>>

\* ... or accept them: the new pools and the new router are live.
Swap ==
  /\ PoolsRetired
  /\ pools' = newPools
  /\ cfg' = newCfg
  /\ pc' = "apply"
  /\ UNCHANGED <<operatorVars, sigCh, listeners, sockets, localVars, draining>>

ToStart == {n \in Names : newOnes[n] # Absent}

\* apply starts a listener of the plan.
StartListener(n) ==
  /\ pc = "apply"
  /\ n \in ToStart
  /\ listeners' = [listeners EXCEPT ![n] = newOnes[n]]
  /\ sockets' = [sockets EXCEPT ![n][newOnes[n]] = "serving"]
  /\ newOnes' = [newOnes EXCEPT ![n] = Absent]
  /\ UNCHANGED <<operatorVars, sigCh, pc, cfg, pools, monitors, newCfg, retired,
                 newPools, draining>>

\* Mutant: apply retires the old listeners before it starts the new ones.
retiresFirst ==
  /\ pc = "apply" /\ (retired # {} \/ ToStart = {})
  /\ draining' = draining \cup retired
  /\ listeners' = [n \in Names |-> IF \E i \in retired : i[1] = n THEN Absent ELSE listeners[n]]
  /\ retired' = {}
  /\ pc' = IF ToStart = {} THEN "waiting" ELSE "apply"
  /\ UNCHANGED <<operatorVars, sigCh, cfg, pools, sockets, monitors, newCfg,
                 newOnes, newPools>>

\* apply hands the retired listeners to a goroutine and deletes their names
\* from rt.listeners; the reload is over.
RetireListeners ==
  /\ pc = "apply" /\ ToStart = {}
  /\ draining' = draining \cup retired
  /\ listeners' = [n \in Names |-> IF \E i \in retired : i[1] = n THEN Absent ELSE listeners[n]]
  /\ retired' = {}
  /\ pc' = "waiting"
  /\ UNCHANGED <<operatorVars, sigCh, cfg, pools, sockets, monitors, newCfg,
                 newOnes, newPools>>

\* The goroutine shuts down a listener: its socket closes and Serve returns.
DrainRetired(i) ==
  /\ Alive
  /\ i \in draining
  /\ sockets' = [sockets EXCEPT ![i[1]][i[2]] = "closed"]
  /\ draining' = draining \ {i}
  /\ UNCHANGED <<operatorVars, sigCh, pc, cfg, listeners, pools, monitors, localVars>>

-----------------------------------------------------------------------------
\* SIGINT or SIGTERM ends the loop.
BeginDrain ==
  /\ pc = "waiting" /\ sigCh = "SIGTERM"
  /\ sigCh' = "empty"
  /\ pc' = "drain"
  /\ UNCHANGED <<operatorVars, cfg, listeners, pools, sockets, monitors, localVars, draining>>

\* serve shuts down the listeners in rt.listeners ...
ShutdownListener(n) ==
  /\ pc = "drain"
  /\ listeners[n] # Absent /\ sockets[n][listeners[n]] # "closed"
  /\ sockets' = [sockets EXCEPT ![n][listeners[n]] = "closed"]
  /\ UNCHANGED <<operatorVars, sigCh, pc, cfg, listeners, pools, monitors, localVars, draining>>

\* ... cancels the context of every monitor ...
CancelRoot ==
  /\ pc = "drain"
  /\ \A n \in Names : listeners[n] # Absent => sockets[n][listeners[n]] = "closed"
  /\ monitors' = [p \in Pools |-> [g \in DOMAIN monitors[p] |-> FALSE]]
  /\ pc' = "wait"
  /\ UNCHANGED <<operatorVars, sigCh, cfg, listeners, pools, sockets, localVars, draining>>

\* ... and returns when listenerWG has seen every Serve return.
WaitGroupDone ==
  /\ pc = "wait"
  /\ \A n \in Names : \A g \in DOMAIN sockets[n] : sockets[n][g] # "serving"
  /\ pc' = "stopped"
  /\ UNCHANGED <<operatorVars, sigCh, cfg, listeners, pools, sockets, monitors,
                 localVars, draining>>

-----------------------------------------------------------------------------
Reload ==
  \/ LoadFails \/ Load
  \/ \E n \in Names : BuildListener(n)
  \/ BuildListenerFails
  \/ ListenersBuilt
  \/ \E p \in Pools : RebuildPool(p) \/ RebuildPoolFails(p)
  \/ RouterFails \/ Swap
  \/ \E n \in Names : StartListener(n)
  \/ RetireListeners

Shutdown ==
  \/ BeginDrain
  \/ \E n \in Names : ShutdownListener(n)
  \/ CancelRoot
  \/ WaitGroupDone

Next ==
  \/ \E c \in Config : WriteFile(c)
  \/ SendHUP
  \/ SendTERM
  \/ Reload
  \/ Shutdown
  \/ \E i \in draining : DrainRetired(i)

Spec == Init /\ [][Next]_vars

\* serve's goroutine and the draining goroutines keep running: Shutdown of a
\* listener returns within its drain timeout.  Nothing is assumed of the operator.
FairSpec ==
  /\ Spec
  /\ WF_vars(Reload) /\ WF_vars(Shutdown)
  /\ WF_vars(\E i \in draining : DrainRetired(i))

-----------------------------------------------------------------------------
\* Instances named by the runtime exist, and its maps keep their types.
TypeOK ==
  /\ {file, cfg, newCfg} \subseteq Config
  /\ edits \in 0..MaxEdits /\ owed \in BOOLEAN
  /\ sigCh \in {"empty", "SIGHUP", "SIGTERM"}
  /\ pc \in {"waiting", "diff", "pools", "apply", "drain", "wait", "stopped"}
  /\ sockets \in [Names -> Seq({"bound", "serving", "closed"})]
  /\ monitors \in [Pools -> Seq(BOOLEAN)]
  /\ DOMAIN listeners = Names /\ DOMAIN newOnes = Names
  /\ \A n \in Names : {listeners[n], newOnes[n]} \subseteq 0..Len(sockets[n])
  /\ DOMAIN pools = Pools /\ DOMAIN newPools = Pools
  /\ \A p \in Pools : {pools[p], newPools[p]} \subseteq 0..Len(monitors[p])
  /\ \A i \in retired \cup draining : i[1] \in Names /\ i[2] \in 1..Len(sockets[i[1]])

\* Some instance accepts connections for n that nothing is about to drain.
Served(n) == \E g \in DOMAIN sockets[n] : sockets[n][g] = "serving" /\ <<n, g>> \notin draining

\* Once served, a listener that stays in the configuration is served without a
\* gap until shutdown, through any sequence of successful and failed reloads
\* and however late the drains of the instances they retired come.
StaysServed ==
  [][\A n \in Names :
       Served(n) /\ cfg'.listeners[n] # Absent /\ pc' \notin {"drain", "wait", "stopped"}
         => Served(n)']_vars

\* No edit is missed: when no signal is outstanding and the loop waits, the
\* last file it loaded is the one on disk, although signals that arrive during
\* a reload share one place in the channel.
NoEditMissed ==
  pc = "waiting" /\ sigCh = "empty" /\ ~ owed => newCfg = file

\* Shutdown ends: listenerWG waits only for listeners that were told to stop.
ShutdownEnds == pc = "drain" ~> pc = "stopped"
=============================================================================
