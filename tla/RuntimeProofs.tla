---------------------------- MODULE RuntimeProofs ----------------------------
(***************************************************************************)
(* Proofs about Runtime, for any number of listeners, pools, definitions   *)
(* and reloads, and about two parts that a runtime keeps going: its health *)
(* monitors, for any number of overlapping probes, any number of monitors  *)
(* and any thresholds, and its rate limit, for every rate, burst and       *)
(* number of handlers.                                                     *)
(***************************************************************************)
EXTENDS Runtime, HealthMonitor, RateLimit, TLAPS

USE SMTT(30)

\* Facts about sequences.
LEMMA LenIs ==
  ASSUME NEW S, NEW s \in Seq(S)
  PROVE  Len(s) \in Nat /\ DOMAIN s = 1..Len(s) /\ \A i \in 1..Len(s) : s[i] \in S
OBVIOUS

LEMMA AppendIs ==
  ASSUME NEW S, NEW s \in Seq(S), NEW e \in S
  PROVE  /\ Append(s, e) \in Seq(S) /\ Len(Append(s, e)) = Len(s) + 1
         /\ \A i \in 1..Len(s) : Append(s, e)[i] = s[i]
         /\ Append(s, e)[Len(s) + 1] = e
OBVIOUS

LEMMA EmptyIs ==
  ASSUME NEW S
  PROVE  <<>> \in Seq(S) /\ Len(<<>>) = 0 /\ \A s \in Seq(S) : s # <<>> => Len(s) > 0
OBVIOUS

LEMMA SeqOfMore ==
  ASSUME NEW S, NEW T, S \subseteq T, NEW s \in Seq(S)
  PROVE  s \in Seq(T)
OBVIOUS

Socket == {"bound", "serving", "closed"}
PC == {"waiting", "diff", "pools", "apply", "drain", "wait", "stopped"}
Ending == {"drain", "wait", "stopped"}

\* The part of TypeOK about the configurations and the signal.
ConfigsOK ==
  /\ file \in Config /\ cfg \in Config /\ newCfg \in Config
  /\ edits \in 0..MaxEdits /\ owed \in BOOLEAN
  /\ sigCh \in {"empty", "SIGHUP", "SIGTERM"} /\ pc \in PC

\* The part about sockets ...
SocketsOK ==
  /\ sockets \in [Names -> Seq(Socket)]
  /\ listeners \in [Names -> Nat] /\ newOnes \in [Names -> Nat]
  /\ \A n \in Names : listeners[n] <= Len(sockets[n]) /\ newOnes[n] <= Len(sockets[n])
  /\ retired \cup draining \subseteq Names \X Nat
  /\ \A i \in retired \cup draining : i[2] \in 1..Len(sockets[i[1]])

\* ... and the part about monitors.
MonitorsOK ==
  /\ monitors \in [Pools -> Seq(BOOLEAN)]
  /\ pools \in [Pools -> Nat] /\ newPools \in [Pools -> Nat]
  /\ \A p \in Pools : pools[p] <= Len(monitors[p]) /\ newPools[p] <= Len(monitors[p])

\* An edit that has not been loaded is announced, or the process is ending.
EditInv == newCfg = file \/ owed \/ sigCh # "empty" \/ pc \in Ending

\* What is or was in use is not merely bound, and what a reload has built is.
InUse ==
  /\ \A n \in Names : listeners[n] # Absent => sockets[n][listeners[n]] # "bound"
  /\ \A i \in retired \cup draining : sockets[i[1]][i[2]] # "bound"
  /\ pc \in {"diff", "pools", "apply"} =>
       \A n \in Names : newOnes[n] # Absent => sockets[n][newOnes[n]] = "bound"

Started(n) ==
  /\ listeners[n] # Absent /\ sockets[n][listeners[n]] = "serving"
  /\ <<n, listeners[n]>> \notin retired \cup draining

\* A listener about to be retired is gone from the configuration, or its
\* successor is ready, or serving.
SuccessorInv ==
  /\ pc = "pools" =>
       \A i \in retired : newCfg.listeners[i[1]] = Absent \/ newOnes[i[1]] # Absent
  /\ pc = "apply" =>
       \A i \in retired : cfg.listeners[i[1]] = Absent \/ newOnes[i[1]] # Absent \/ Started(i[1])

RuntimeInv == ConfigsOK /\ SocketsOK /\ MonitorsOK /\ EditInv /\ InUse /\ SuccessorInv

-----------------------------------------------------------------------------
\* An edit or a signal is not missed: every step keeps EditInv.
LEMMA EditStep ==
  ASSUME ConfigsOK, EditInv, [Next]_vars
  PROVE  EditInv'
<1> USE DEF EditInv, Ending, operatorVars, localVars
<1>1. ASSUME NEW c \in Config, WriteFile(c) PROVE EditInv'
  BY <1>1 DEF WriteFile
<1>2. ASSUME SendHUP \/ SendTERM PROVE EditInv'
  BY <1>2 DEF SendHUP, SendTERM, Notify, ConfigsOK
<1>3. ASSUME LoadFails \/ Load PROVE EditInv'
  BY <1>3 DEF LoadFails, Load
<1>4. ASSUME \/ \E n \in Names : BuildListener(n) \/ StartListener(n)
             \/ BuildListenerFails \/ ListenersBuilt \/ RetireListeners
      PROVE  EditInv'
  BY <1>4 DEF BuildListener, StartListener, BuildListenerFails, ListenersBuilt, RetireListeners
<1>5. ASSUME \/ \E p \in Pools : RebuildPool(p) \/ RebuildPoolFails(p)
             \/ RouterFails \/ Swap
      PROVE  EditInv'
  BY Zenon, <1>5 DEF RebuildPool, RebuildPoolFails, RouterFails, PoolsRetired, Swap
<1>6. ASSUME \/ BeginDrain \/ CancelRoot \/ WaitGroupDone
             \/ \E n \in Names : ShutdownListener(n)
      PROVE  EditInv'
  BY <1>6 DEF BeginDrain, ShutdownListener, CancelRoot, WaitGroupDone
<1>7. ASSUME NEW i \in draining, DrainRetired(i) PROVE EditInv'
  BY <1>7 DEF DrainRetired
<1>8. ASSUME UNCHANGED vars PROVE EditInv'
  BY <1>8 DEF vars
<1> QED
  BY <1>1, <1>2, <1>3, <1>4, <1>5, <1>6, <1>7, <1>8, Zenon DEF Next, Reload, Shutdown

\* Configurations, signals and serve's place keep their types.
LEMMA ConfigsStep ==
  ASSUME ConfigsOK, [Next]_vars
  PROVE  ConfigsOK'
<1> USE DEF ConfigsOK, PC, operatorVars, localVars
<1>1. ASSUME NEW c \in Config, WriteFile(c) PROVE ConfigsOK'
  BY <1>1, RuntimeAssumption DEF WriteFile
<1>2. ASSUME SendHUP \/ SendTERM PROVE ConfigsOK'
  BY Zenon, <1>2 DEF SendHUP, SendTERM, Notify
<1>3. ASSUME LoadFails \/ Load PROVE ConfigsOK'
  BY <1>3 DEF LoadFails, Load
<1>4. ASSUME \/ \E n \in Names : BuildListener(n) \/ StartListener(n)
             \/ BuildListenerFails \/ ListenersBuilt \/ RetireListeners
      PROVE  ConfigsOK'
  BY <1>4 DEF BuildListener, StartListener, BuildListenerFails, ListenersBuilt, RetireListeners
<1>5. ASSUME \/ \E p \in Pools : RebuildPool(p) \/ RebuildPoolFails(p)
             \/ RouterFails \/ Swap
      PROVE  ConfigsOK'
  BY Zenon, <1>5 DEF RebuildPool, RebuildPoolFails, RouterFails, PoolsRetired, Swap
<1>6. ASSUME \/ BeginDrain \/ CancelRoot \/ WaitGroupDone
             \/ \E n \in Names : ShutdownListener(n)
      PROVE  ConfigsOK'
  BY <1>6 DEF BeginDrain, ShutdownListener, CancelRoot, WaitGroupDone
<1>7. ASSUME NEW i \in draining, DrainRetired(i) PROVE ConfigsOK'
  BY <1>7 DEF DrainRetired
<1>8. ASSUME UNCHANGED vars PROVE ConfigsOK'
  BY <1>8 DEF vars
<1> QED
  BY <1>1, <1>2, <1>3, <1>4, <1>5, <1>6, <1>7, <1>8, Zenon DEF Next, Reload, Shutdown

-----------------------------------------------------------------------------
\* A sequence with one element replaced.
LEMMA ReplaceProperties ==
  ASSUME NEW S, NEW s \in Seq(S), NEW k \in 1..Len(s), NEW v \in S
  PROVE  /\ [s EXCEPT ![k] = v] \in Seq(S) /\ Len([s EXCEPT ![k] = v]) = Len(s)
         /\ [s EXCEPT ![k] = v][k] = v
         /\ \A j \in 1..Len(s) : j # k => [s EXCEPT ![k] = v][j] = s[j]
<1>1. Len(s) \in Nat /\ s \in [1..Len(s) -> S]
  OBVIOUS
<1>2. PICK n \in Nat : n = Len(s)
  BY Zenon, <1>1
<1>3. PICK t \in [1..n -> S] : t = [s EXCEPT ![k] = v]
  BY Zenon, <1>1, <1>2
<1>4. t \in Seq(S) /\ Len(t) = n
  BY <1>3
<1>5. t[k] = v /\ \A j \in 1..n : j # k => t[j] = s[j]
  BY <1>1, <1>2, <1>3
<1> QED
  BY <1>2, <1>3, <1>4, <1>5

\* A sequence of one element.
LEMMA Singleton ==
  ASSUME NEW S, NEW v \in S
  PROVE  <<v>> \in Seq(S) /\ Len(<<v>>) = 1 /\ <<v>>[1] = v
OBVIOUS

\* The monitors of a pool whose current one is cancelled are as many.
LEMMA CancelledType ==
  ASSUME MonitorsOK, NEW p \in Pools
  PROVE  Cancelled(p) \in Seq(BOOLEAN) /\ Len(Cancelled(p)) = Len(monitors[p])
<1>1. monitors[p] \in Seq(BOOLEAN) /\ pools[p] \in Nat /\ pools[p] <= Len(monitors[p])
  BY DEF MonitorsOK
<1>2. CASE pools[p] = Absent
  BY <1>1, <1>2 DEF Cancelled
<1>3. CASE pools[p] # Absent
  <2>1. pools[p] \in 1..Len(monitors[p])
    BY <1>1, <1>3, LenIs DEF Absent
  <2>2. Cancelled(p) = [monitors[p] EXCEPT ![pools[p]] = FALSE]
    BY <1>3 DEF Cancelled
  <2> QED
    BY <1>1, <2>1, <2>2, ReplaceProperties
<1> QED
  BY <1>2, <1>3

\* Monitors are only ever added, and a pool names one of its own.
LEMMA MonitorsStep ==
  ASSUME MonitorsOK, [Next]_vars
  PROVE  MonitorsOK'
<1>1. ASSUME UNCHANGED <<monitors, pools, newPools>> PROVE MonitorsOK'
  BY <1>1 DEF MonitorsOK
<1>2. ASSUME ListenersBuilt PROVE MonitorsOK'
  <2>1. \A p \in Pools : newPools'[p] \in Nat /\ newPools'[p] <= Len(monitors[p])
    BY <1>2, LenIs DEF ListenersBuilt, MonitorsOK, Absent
  <2> QED
    BY <1>2, <2>1 DEF ListenersBuilt, MonitorsOK
<1>3. ASSUME NEW p \in Pools, RebuildPool(p) PROVE MonitorsOK'
  <2>1. Cancelled(p) \in Seq(BOOLEAN) /\ Len(Cancelled(p)) = Len(monitors[p])
    BY CancelledType
  <2>5. PICK c \in Seq(BOOLEAN), t \in BOOLEAN : c = Cancelled(p) /\ t = TRUE
    BY Zenon, <2>1
  <2>6. Append(c, t) \in Seq(BOOLEAN) /\ Len(Append(c, t)) = Len(c) + 1
    BY AppendIs
  <2>2. PICK m \in Seq(BOOLEAN) : m = Append(Cancelled(p), TRUE) /\ Len(m) = Len(monitors[p]) + 1
    BY Zenon, <2>1, <2>5, <2>6
  <2>3. monitors' = [monitors EXCEPT ![p] = m] /\ pools' = pools
        /\ newPools' = [newPools EXCEPT ![p] = Len(monitors[p]) + 1]
    BY <1>3, <2>2 DEF RebuildPool
  <2>4. Len(monitors[p]) \in Nat
    BY LenIs DEF MonitorsOK
  <2> QED
    BY <2>2, <2>3, <2>4 DEF MonitorsOK
<1>4. ASSUME NEW p \in Pools, RebuildPoolFails(p) PROVE MonitorsOK'
  <2>1. PICK m \in Seq(BOOLEAN) : m = Cancelled(p) /\ Len(m) = Len(monitors[p])
    BY CancelledType
  <2>2. monitors' = [monitors EXCEPT ![p] = m] /\ pools' = pools /\ newPools' = newPools
    BY <1>4, <2>1 DEF RebuildPoolFails, localVars
  <2> QED
    BY <2>1, <2>2 DEF MonitorsOK
<1>5. ASSUME PoolsRetired, newPools' = newPools, pools' \in {pools, newPools} PROVE MonitorsOK'
  <2>1. \A p \in Pools : Cancelled(p) \in Seq(BOOLEAN) /\ Len(Cancelled(p)) = Len(monitors[p])
    BY CancelledType
  <2>2. /\ monitors' \in [Pools -> Seq(BOOLEAN)]
        /\ \A p \in Pools : Len(monitors'[p]) = Len(monitors[p])
    BY <1>5, <2>1 DEF PoolsRetired, MonitorsOK
  <2> QED
    BY <1>5, <2>2 DEF MonitorsOK
<1>6. ASSUME CancelRoot PROVE MonitorsOK'
  <2>1. ASSUME NEW p \in Pools
        PROVE  [g \in DOMAIN monitors[p] |-> FALSE] \in Seq(BOOLEAN)
               /\ Len([g \in DOMAIN monitors[p] |-> FALSE]) = Len(monitors[p])
    <3>1. DOMAIN monitors[p] = 1..Len(monitors[p]) /\ Len(monitors[p]) \in Nat
      BY LenIs DEF MonitorsOK
    <3> QED
      BY <3>1
  <2>2. /\ monitors' \in [Pools -> Seq(BOOLEAN)]
        /\ \A p \in Pools : Len(monitors'[p]) = Len(monitors[p])
    BY Zenon, <1>6, <2>1 DEF CancelRoot
  <2> QED
    BY <1>6, <2>2 DEF MonitorsOK, CancelRoot, localVars
<1>7. ASSUME \/ \E c \in Config : WriteFile(c)
             \/ SendHUP \/ SendTERM \/ LoadFails \/ Load
             \/ \E n \in Names : BuildListener(n) \/ StartListener(n) \/ ShutdownListener(n)
             \/ BuildListenerFails \/ RetireListeners \/ BeginDrain \/ WaitGroupDone
             \/ \E i \in draining : DrainRetired(i)
             \/ UNCHANGED vars
      PROVE  UNCHANGED <<monitors, pools, newPools>>
  BY Zenon, <1>7 DEF WriteFile, SendHUP, SendTERM, LoadFails, Load, BuildListener, StartListener,
    ShutdownListener, BuildListenerFails, RetireListeners, BeginDrain, WaitGroupDone,
    DrainRetired, vars, localVars
<1>8. ASSUME RouterFails \/ Swap PROVE MonitorsOK'
  BY <1>5, <1>8 DEF RouterFails, Swap, localVars
<1> QED
  BY <1>1, <1>2, <1>3, <1>4, <1>6, <1>7, <1>8, Zenon DEF Next, Reload, Shutdown

-----------------------------------------------------------------------------
\* A step that is no step of a listener, nor of a plan: serve may reach the
\* stages of a reload only in their order.
Elsewhere ==
  /\ UNCHANGED <<sockets, listeners, newOnes, retired, draining>>
  /\ pc' \in {"diff", "pools", "apply"} => pc \in {"diff", "pools", "apply"}
  /\ pc' = "pools" => pc = "pools" /\ newCfg' = newCfg
  /\ pc' = "apply" => (pc = "apply" /\ cfg' = cfg) \/ (pc = "pools" /\ cfg' = newCfg)

\* All other steps are a listener's, or the plan's.
LEMMA ElsewhereSteps ==
  ASSUME [Next]_vars
  PROVE  \/ Elsewhere \/ Load \/ ListenersBuilt \/ RetireListeners
         \/ \E n \in Names : BuildListener(n) \/ StartListener(n) \/ ShutdownListener(n)
         \/ \E i \in draining : DrainRetired(i)
<1> USE DEF Elsewhere, operatorVars, localVars
<1>1. ASSUME \/ \E c \in Config : WriteFile(c)
             \/ SendHUP \/ SendTERM \/ LoadFails \/ UNCHANGED vars
      PROVE  Elsewhere
  BY <1>1 DEF WriteFile, SendHUP, SendTERM, LoadFails, vars
<1>2. ASSUME \/ BuildListenerFails \/ RouterFails \/ Swap
             \/ \E p \in Pools : RebuildPool(p) \/ RebuildPoolFails(p)
      PROVE  Elsewhere
  BY Zenon, <1>2 DEF BuildListenerFails, RebuildPool, RebuildPoolFails, RouterFails, Swap, PoolsRetired
<1>3. ASSUME BeginDrain \/ CancelRoot \/ WaitGroupDone PROVE Elsewhere
  BY <1>3 DEF BeginDrain, CancelRoot, WaitGroupDone
<1> QED
  BY <1>1, <1>2, <1>3, Zenon DEF Next, Reload, Shutdown

\* A socket changes its state: what that does to the table of sockets.
SetSocket(n, k, state) ==
  /\ n \in Names /\ k \in 1..Len(sockets[n])
  /\ sockets' = [sockets EXCEPT ![n][k] = state]

\* Only that socket is another.
LEMMA SetSocketProperties ==
  ASSUME SocketsOK, NEW n, NEW k, NEW state \in Socket, SetSocket(n, k, state)
  PROVE  /\ sockets' \in [Names -> Seq(Socket)]
         /\ \A m \in Names : Len(sockets'[m]) = Len(sockets[m])
         /\ sockets'[n][k] = state
         /\ \A m \in Names : \A j \in 1..Len(sockets[m]) :
              <<m, j>> # <<n, k>> => sockets'[m][j] = sockets[m][j]
<1>1. sockets[n] \in Seq(Socket) /\ n \in Names /\ sockets \in [Names -> Seq(Socket)]
  BY DEF SocketsOK, SetSocket
<1>2. PICK s : s = [sockets[n] EXCEPT ![k] = state]
  BY Zenon
<1>3. /\ s \in Seq(Socket) /\ Len(s) = Len(sockets[n]) /\ s[k] = state
      /\ \A j \in 1..Len(sockets[n]) : j # k => s[j] = sockets[n][j]
  BY <1>1, <1>2, ReplaceProperties DEF SetSocket
<1>4. sockets' = [sockets EXCEPT ![n] = s]
  BY <1>2 DEF SetSocket
<1> QED
  BY <1>1, <1>3, <1>4

-----------------------------------------------------------------------------
ListenersInv == ConfigsOK /\ SocketsOK /\ InUse /\ SuccessorInv

\* What a step keeps: the invariant, and every listener served that stays in
\* the configuration.
Keeps ==
  /\ SocketsOK' /\ InUse' /\ SuccessorInv'
  /\ \A n \in Names : Served(n) /\ cfg'.listeners[n] # Absent /\ pc' \notin Ending => Served(n)'

\* A step elsewhere keeps it.
LEMMA ElsewhereKeeps ==
  ASSUME ListenersInv, Elsewhere
  PROVE  Keeps
<1>1. SocketsOK'
  BY DEF ListenersInv, SocketsOK, Elsewhere
<1>2. InUse'
  BY DEF ListenersInv, InUse, Elsewhere
<1>3. SuccessorInv'
  <2>1. ASSUME pc' = "pools", NEW i \in retired'
        PROVE  newCfg'.listeners[i[1]] = Absent \/ newOnes'[i[1]] # Absent
    BY <2>1 DEF ListenersInv, SuccessorInv, Elsewhere
  <2>2. ASSUME pc' = "apply", NEW i \in retired'
        PROVE  cfg'.listeners[i[1]] = Absent \/ newOnes'[i[1]] # Absent \/ Started(i[1])'
    BY <2>2 DEF ListenersInv, SuccessorInv, Elsewhere, Started
  <2> QED
    BY <2>1, <2>2 DEF SuccessorInv
<1>4. \A n \in Names : Served(n) => Served(n)'
  BY DEF Served, Elsewhere
<1> QED
  BY <1>1, <1>2, <1>3, <1>4 DEF Keeps

\* A new plan is empty.
LEMMA LoadKeeps ==
  ASSUME ListenersInv, Load
  PROVE  Keeps
<1>1. /\ pc' = "diff" /\ newOnes' = [n \in Names |-> Absent]
      /\ UNCHANGED <<sockets, listeners, retired, draining>>
  BY DEF Load
<1>2. SocketsOK'
  <2>1. newOnes' \in [Names -> Nat]
    BY <1>1 DEF Absent
  <2>2. \A n \in Names : newOnes'[n] <= Len(sockets[n])
    BY <1>1, LenIs DEF Absent, ListenersInv, SocketsOK
  <2> QED
    BY <1>1, <2>1, <2>2 DEF ListenersInv, SocketsOK
<1>3. InUse' /\ SuccessorInv'
  BY <1>1 DEF ListenersInv, InUse, SuccessorInv
<1>4. \A n \in Names : Served(n) => Served(n)'
  BY <1>1 DEF Served
<1> QED
  BY <1>2, <1>3, <1>4 DEF Keeps

\* A listener is bound: the sockets there were are as they were.
LEMMA BuildKeeps ==
  ASSUME ListenersInv, NEW n \in Names, BuildListener(n)
  PROVE  Keeps
<1>1. PICK s \in Seq(Socket), l \in Nat : s = sockets[n] /\ l = Len(s)
  BY LenIs DEF ListenersInv, SocketsOK
<1>2. PICK b \in Socket : b = "bound"
  BY DEF Socket
<1>3. PICK t : t = Append(s, b)
  BY Zenon
<1>4. t \in Seq(Socket) /\ Len(t) = l + 1 /\ t[l + 1] = "bound" /\ \A j \in 1..l : t[j] = s[j]
  BY <1>1, <1>2, <1>3, AppendIs
<1>5. /\ pc = "diff" /\ pc' = "diff"
      /\ sockets' = [sockets EXCEPT ![n] = t] /\ newOnes' = [newOnes EXCEPT ![n] = l + 1]
      /\ UNCHANGED <<listeners, retired, draining>>
  BY <1>1, <1>2, <1>3 DEF BuildListener
<1>6. /\ sockets' \in [Names -> Seq(Socket)]
      /\ \A m \in Names : Len(sockets[m]) \in Nat /\ Len(sockets[m]) <= Len(sockets'[m])
      /\ \A m \in Names : \A j \in 1..Len(sockets[m]) : sockets'[m][j] = sockets[m][j]
      /\ Len(sockets'[n]) = l + 1 /\ sockets'[n][l + 1] = "bound"
  BY <1>1, <1>4, <1>5, LenIs DEF ListenersInv, SocketsOK
<1>7. /\ newOnes' \in [Names -> Nat] /\ newOnes'[n] = l + 1
      /\ \A m \in Names \ {n} : newOnes'[m] = newOnes[m]
  BY <1>5 DEF ListenersInv, SocketsOK
<1>8. SocketsOK'
  <2>1. \A m \in Names : listeners'[m] <= Len(sockets'[m]) /\ newOnes'[m] <= Len(sockets'[m])
    BY <1>5, <1>6, <1>7 DEF ListenersInv, SocketsOK
  <2>2. \A i \in retired' \cup draining' : i[2] \in 1..Len(sockets'[i[1]])
    BY <1>5, <1>6 DEF ListenersInv, SocketsOK
  <2> QED
    BY <1>5, <1>6, <1>7, <2>1, <2>2 DEF ListenersInv, SocketsOK
<1>9. InUse'
  <2>1. \A m \in Names : listeners'[m] # Absent => sockets'[m][listeners'[m]] # "bound"
    BY <1>5, <1>6 DEF ListenersInv, SocketsOK, InUse, Absent
  <2>2. \A i \in retired' \cup draining' : sockets'[i[1]][i[2]] # "bound"
    BY <1>5, <1>6 DEF ListenersInv, SocketsOK, InUse
  <2>3. \A m \in Names : newOnes'[m] # Absent => sockets'[m][newOnes'[m]] = "bound"
    BY <1>5, <1>6, <1>7 DEF ListenersInv, SocketsOK, InUse, Absent
  <2> QED
    BY <2>1, <2>2, <2>3 DEF InUse
<1>10. SuccessorInv'
  BY <1>5 DEF SuccessorInv
<1>11. \A m \in Names : Served(m) => Served(m)'
  <2> SUFFICES ASSUME NEW m \in Names, NEW g \in DOMAIN sockets[m],
                      sockets[m][g] = "serving", <<m, g>> \notin draining
               PROVE  g \in DOMAIN sockets'[m] /\ sockets'[m][g] = "serving"
    BY <1>5 DEF Served
  <2>1. DOMAIN sockets[m] = 1..Len(sockets[m]) /\ DOMAIN sockets'[m] = 1..Len(sockets'[m])
    BY <1>6, LenIs DEF ListenersInv, SocketsOK
  <2> QED
    BY <1>6, <2>1
<1> QED
  BY <1>8, <1>9, <1>10, <1>11 DEF Keeps

\* The plan is complete: every listener that will be retired has a successor in
\* it, or none in the configuration.
LEMMA PlanKeeps ==
  ASSUME ListenersInv, ListenersBuilt
  PROVE  Keeps
<1>1. /\ pc = "diff" /\ pc' = "pools" /\ ToBuild = {}
      /\ retired' = {<<n, listeners[n]>> : n \in {m \in removed \cup replaced : listeners[m] # Absent}}
      /\ UNCHANGED <<sockets, listeners, newOnes, newCfg, draining>>
  BY DEF ListenersBuilt
<1>2. ASSUME NEW i \in retired'
      PROVE  \E n \in removed \cup replaced :
               /\ i = <<n, listeners[n]>> /\ i[1] = n /\ i[2] = listeners[n]
               /\ n \in Names /\ listeners[n] # Absent
  BY <1>1, <1>2 DEF removed, replaced
<1>3. SocketsOK'
  <2>1. ASSUME NEW i \in retired'
        PROVE  i \in Names \X Nat /\ i[2] \in 1..Len(sockets[i[1]])
    BY <1>2, LenIs DEF ListenersInv, SocketsOK, Absent
  <2> QED
    BY <1>1, <2>1 DEF ListenersInv, SocketsOK
<1>4. InUse'
  <2>1. \A i \in retired' : sockets[i[1]][i[2]] # "bound"
    BY <1>2 DEF ListenersInv, InUse
  <2> QED
    BY <1>1, <2>1 DEF ListenersInv, InUse
<1>5. SuccessorInv'
  <2>1. ASSUME NEW i \in retired'
        PROVE  newCfg.listeners[i[1]] = Absent \/ newOnes[i[1]] # Absent
    BY <1>1, <1>2 DEF removed, replaced, ToBuild
  <2> QED
    BY Zenon, <1>1, <2>1 DEF SuccessorInv
<1>6. \A n \in Names : Served(n) => Served(n)'
  BY <1>1 DEF Served
<1> QED
  BY <1>3, <1>4, <1>5, <1>6 DEF Keeps

\* A listener of the plan starts to serve: its socket was bound, so that no one
\* is about to drain it.
LEMMA StartKeeps ==
  ASSUME ListenersInv, NEW n \in Names, StartListener(n)
  PROVE  Keeps
<1>1. PICK k \in Nat : k = newOnes[n]
  BY DEF ListenersInv, SocketsOK
<1>2. /\ pc = "apply" /\ pc' = "apply" /\ k # Absent /\ cfg' = cfg
      /\ sockets' = [sockets EXCEPT ![n][k] = "serving"]
      /\ listeners' = [listeners EXCEPT ![n] = k]
      /\ newOnes' = [newOnes EXCEPT ![n] = Absent]
      /\ UNCHANGED <<retired, draining>>
  BY <1>1 DEF StartListener, ToStart
<1>3. k \in 1..Len(sockets[n]) /\ sockets[n][k] = "bound"
  BY <1>1, <1>2, LenIs DEF ListenersInv, SocketsOK, InUse, Absent
<1>4. PICK v \in Socket : v = "serving"
  BY DEF Socket
<1>5. SetSocket(n, k, v)
  BY <1>2, <1>3, <1>4 DEF SetSocket
<1>6. /\ sockets' \in [Names -> Seq(Socket)]
      /\ \A m \in Names : Len(sockets'[m]) = Len(sockets[m])
      /\ sockets'[n][k] = "serving"
      /\ \A m \in Names : \A j \in 1..Len(sockets[m]) :
           <<m, j>> # <<n, k>> => sockets'[m][j] = sockets[m][j]
  BY <1>4, <1>5, SetSocketProperties DEF ListenersInv
<1>7. /\ listeners' \in [Names -> Nat] /\ newOnes' \in [Names -> Nat]
      /\ listeners'[n] = k /\ newOnes'[n] = Absent
      /\ \A m \in Names \ {n} : listeners'[m] = listeners[m] /\ newOnes'[m] = newOnes[m]
  BY <1>2 DEF ListenersInv, SocketsOK, Absent
<1>8. SocketsOK'
  <2>1. \A m \in Names : listeners'[m] <= Len(sockets'[m]) /\ newOnes'[m] <= Len(sockets'[m])
    <3>1. \A m \in Names : /\ listeners[m] <= Len(sockets[m]) /\ newOnes[m] <= Len(sockets[m])
                           /\ Len(sockets[m]) \in Nat
      BY Zenon, LenIs DEF ListenersInv, SocketsOK
    <3>2. listeners'[n] <= Len(sockets'[n]) /\ newOnes'[n] <= Len(sockets'[n])
      BY SMTT(30), <1>3, <1>6, <1>7, <3>1 DEF Absent
    <3> QED
      BY Zenon, <1>6, <1>7, <3>1, <3>2
  <2>2. \A i \in retired' \cup draining' : i[2] \in 1..Len(sockets'[i[1]])
    BY <1>2, <1>6 DEF ListenersInv, SocketsOK
  <2> QED
    BY <1>2, <1>6, <1>7, <2>1, <2>2 DEF ListenersInv, SocketsOK
<1>9. \A i \in retired \cup draining : i # <<n, k>> /\ sockets'[i[1]][i[2]] = sockets[i[1]][i[2]]
  <2> SUFFICES ASSUME NEW i \in retired \cup draining
               PROVE  i # <<n, k>> /\ sockets'[i[1]][i[2]] = sockets[i[1]][i[2]]
    OBVIOUS
  <2>1. PICK m \in Names, j \in Nat : i = <<m, j>>
    BY DEF ListenersInv, SocketsOK
  <2>2. j \in 1..Len(sockets[m]) /\ sockets[m][j] # "bound"
    BY <2>1 DEF ListenersInv, SocketsOK, InUse
  <2>3. <<m, j>> # <<n, k>>
    BY <1>3, <2>2
  <2> QED
    BY <1>6, <2>1, <2>2, <2>3
<1>10. InUse'
  <2>1. \A m \in Names : listeners'[m] # Absent => sockets'[m][listeners'[m]] # "bound"
    <3> SUFFICES ASSUME NEW m \in Names \ {n}, listeners[m] # Absent
                 PROVE  sockets'[m][listeners[m]] # "bound"
      BY Zenon, <1>6, <1>7
    <3>1. listeners[m] \in 1..Len(sockets[m]) /\ sockets[m][listeners[m]] # "bound"
      BY LenIs DEF ListenersInv, SocketsOK, InUse, Absent
    <3> QED
      BY <1>6, <3>1
  <2>2. \A i \in retired' \cup draining' : sockets'[i[1]][i[2]] # "bound"
    BY <1>2, <1>9 DEF ListenersInv, InUse
  <2>3. \A m \in Names : newOnes'[m] # Absent => sockets'[m][newOnes'[m]] = "bound"
    <3> SUFFICES ASSUME NEW m \in Names \ {n}, newOnes[m] # Absent
                 PROVE  sockets'[m][newOnes[m]] = "bound"
      BY <1>7
    <3>1. newOnes[m] \in 1..Len(sockets[m]) /\ sockets[m][newOnes[m]] = "bound"
      BY <1>2, LenIs DEF ListenersInv, SocketsOK, InUse, Absent
    <3> QED
      BY <1>6, <3>1
  <2> QED
    BY <2>1, <2>2, <2>3 DEF InUse
<1>11. SuccessorInv'
  <2> SUFFICES ASSUME NEW i \in retired
               PROVE  cfg.listeners[i[1]] = Absent \/ newOnes'[i[1]] # Absent \/ Started(i[1])'
    BY <1>2 DEF SuccessorInv
  <2>1. PICK m \in Names : m = i[1]
    BY DEF ListenersInv, SocketsOK
  <2>2. CASE m = n
    <3>1. <<n, k>> \notin retired \cup draining
      BY Zenon, <1>9
    <3> QED
      BY <1>2, <1>6, <1>7, <2>1, <2>2, <3>1 DEF Started
  <2>3. CASE m # n
    <3>1. cfg.listeners[m] = Absent \/ newOnes[m] # Absent \/ Started(m)
      BY <1>2, <2>1 DEF ListenersInv, SuccessorInv
    <3>2. Started(m) => Started(m)'
      <4>1. listeners[m] # Absent => listeners[m] \in 1..Len(sockets[m])
        BY LenIs DEF ListenersInv, SocketsOK, Absent
      <4> QED
        BY <1>2, <1>6, <1>7, <2>3, <4>1 DEF Started
    <3> QED
      BY <1>7, <2>1, <2>3, <3>1, <3>2
  <2> QED
    BY <2>2, <2>3
<1>12. \A m \in Names : Served(m) => Served(m)'
  <2> SUFFICES ASSUME NEW m \in Names, NEW g \in DOMAIN sockets[m],
                      sockets[m][g] = "serving", <<m, g>> \notin draining
               PROVE  g \in DOMAIN sockets'[m] /\ sockets'[m][g] = "serving"
    BY Zenon, <1>2 DEF Served
  <2>1. DOMAIN sockets[m] = 1..Len(sockets[m]) /\ DOMAIN sockets'[m] = 1..Len(sockets'[m])
    BY <1>6, LenIs DEF ListenersInv, SocketsOK
  <2> QED
    BY <1>3, <1>6, <2>1
<1> QED
  BY <1>8, <1>10, <1>11, <1>12 DEF Keeps

\* The old listeners are handed to the goroutine that drains them: whoever was
\* served by one of them, and is still configured, is served by its successor.
LEMMA RetireKeeps ==
  ASSUME ListenersInv, RetireListeners
  PROVE  Keeps
<1>1. /\ pc = "apply" /\ pc' = "waiting" /\ ToStart = {} /\ cfg' = cfg
      /\ draining' = draining \cup retired /\ retired' = {}
      /\ listeners' = [n \in Names |-> IF \E i \in retired : i[1] = n THEN Absent ELSE listeners[n]]
      /\ UNCHANGED <<sockets, newOnes>>
  BY DEF RetireListeners
<1>2. \A n \in Names : listeners'[n] \in {Absent, listeners[n]}
  BY <1>1
<1>3. SocketsOK'
  <2>1. listeners' \in [Names -> Nat] /\ \A n \in Names : listeners'[n] <= Len(sockets[n])
    BY <1>1, <1>2, LenIs DEF ListenersInv, SocketsOK, Absent
  <2> QED
    BY <1>1, <2>1 DEF ListenersInv, SocketsOK
<1>4. InUse' /\ SuccessorInv'
  BY <1>1, <1>2 DEF ListenersInv, InUse, SuccessorInv
<1>5. ASSUME NEW n \in Names, Served(n), cfg.listeners[n] # Absent PROVE Served(n)'
  <2>1. PICK g \in DOMAIN sockets[n] : sockets[n][g] = "serving" /\ <<n, g>> \notin draining
    BY <1>5 DEF Served
  <2>2. CASE <<n, g>> \notin retired
    BY <1>1, <2>1, <2>2 DEF Served
  <2>3. CASE <<n, g>> \in retired
    <3>1. newOnes[n] = Absent
      BY <1>1 DEF ToStart
    <3>2. PICK i \in retired : i[1] = n
      BY Zenon, <2>3
    <3>3. Started(n)
      BY <1>1, <1>5, <3>1, <3>2 DEF ListenersInv, SuccessorInv
    <3>4. listeners[n] \in DOMAIN sockets[n]
      BY <3>3, LenIs DEF Started, ListenersInv, SocketsOK, Absent
    <3> QED
      BY <1>1, <3>3, <3>4 DEF Started, Served
  <2> QED
    BY <2>2, <2>3
<1> QED
  BY <1>1, <1>3, <1>4, <1>5 DEF Keeps

\* A socket that is drained or shut down closes, and no other changes.
LEMMA CloseKeeps ==
  ASSUME ListenersInv, NEW n \in Names, NEW k \in 1..Len(sockets[n]),
         sockets' = [sockets EXCEPT ![n][k] = "closed"],
         UNCHANGED <<listeners, newOnes, retired, pc, cfg>>, draining' \subseteq draining
  PROVE  /\ SocketsOK'
         /\ \A m \in Names : \A j \in 1..Len(sockets[m]) :
              <<m, j>> # <<n, k>> => sockets'[m][j] = sockets[m][j]
         /\ \A m \in Names : \A j \in 1..Len(sockets[m]) :
              sockets[m][j] # "bound" => sockets'[m][j] # "bound"
         /\ \A m \in Names : DOMAIN sockets'[m] = DOMAIN sockets[m]
<1>1. PICK v \in Socket : v = "closed"
  BY DEF Socket
<1>2. SetSocket(n, k, v)
  BY <1>1 DEF SetSocket
<1>3. /\ sockets' \in [Names -> Seq(Socket)]
      /\ \A m \in Names : Len(sockets'[m]) = Len(sockets[m])
      /\ sockets'[n][k] = "closed"
      /\ \A m \in Names : \A j \in 1..Len(sockets[m]) :
           <<m, j>> # <<n, k>> => sockets'[m][j] = sockets[m][j]
  BY <1>1, <1>2, SetSocketProperties DEF ListenersInv
<1>4. SocketsOK'
  BY <1>3 DEF ListenersInv, SocketsOK
<1>5. ASSUME NEW m \in Names, NEW j \in 1..Len(sockets[m]), sockets[m][j] # "bound"
      PROVE  sockets'[m][j] # "bound"
  <2>1. CASE m = n /\ j = k
    BY <1>3, <2>1
  <2>2. CASE ~ (m = n /\ j = k)
    BY <1>3, <1>5, <2>2
  <2> QED
    BY <2>1, <2>2
<1>6. \A m \in Names : DOMAIN sockets'[m] = DOMAIN sockets[m]
  BY <1>3, LenIs DEF ListenersInv, SocketsOK
<1> QED
  BY <1>3, <1>4, <1>5, <1>6

\* A retired listener is drained: nobody counts on it.
LEMMA DrainKeeps ==
  ASSUME ListenersInv, NEW i \in draining, DrainRetired(i)
  PROVE  Keeps
<1>1. PICK n \in Names, k \in Nat : i = <<n, k>>
  BY DEF ListenersInv, SocketsOK
<1>2. k \in 1..Len(sockets[n]) /\ sockets[n][k] # "bound"
  BY <1>1 DEF ListenersInv, SocketsOK, InUse
<1>3. /\ sockets' = [sockets EXCEPT ![n][k] = "closed"] /\ draining' = draining \ {<<n, k>>}
      /\ UNCHANGED <<listeners, newOnes, retired, pc, cfg, newCfg>>
  BY <1>1 DEF DrainRetired, localVars
<1>4. draining' \subseteq draining
  BY <1>3
<1>5. /\ SocketsOK'
      /\ \A m \in Names : \A j \in 1..Len(sockets[m]) :
           <<m, j>> # <<n, k>> => sockets'[m][j] = sockets[m][j]
      /\ \A m \in Names : \A j \in 1..Len(sockets[m]) :
           sockets[m][j] # "bound" => sockets'[m][j] # "bound"
      /\ \A m \in Names : DOMAIN sockets'[m] = DOMAIN sockets[m]
  BY Zenon, <1>2, <1>3, <1>4, CloseKeeps
<1>6. InUse'
  <2>1. \A m \in Names : listeners'[m] # Absent => sockets'[m][listeners'[m]] # "bound"
    <3> SUFFICES ASSUME NEW m \in Names, listeners[m] # Absent
                 PROVE  sockets'[m][listeners[m]] # "bound"
      BY <1>3
    <3>1. listeners[m] \in 1..Len(sockets[m]) /\ sockets[m][listeners[m]] # "bound"
      BY LenIs DEF ListenersInv, SocketsOK, InUse, Absent
    <3> QED
      BY <1>5, <3>1
  <2>2. \A x \in retired' \cup draining' : sockets'[x[1]][x[2]] # "bound"
    <3> SUFFICES ASSUME NEW x \in retired \cup draining PROVE sockets'[x[1]][x[2]] # "bound"
      BY <1>3
    <3>1. x[1] \in Names /\ x[2] \in 1..Len(sockets[x[1]]) /\ sockets[x[1]][x[2]] # "bound"
      BY DEF ListenersInv, SocketsOK, InUse
    <3> QED
      BY <1>5, <3>1
  <2>3. ASSUME pc \in {"diff", "pools", "apply"}, NEW m \in Names, newOnes[m] # Absent
        PROVE  sockets'[m][newOnes[m]] = "bound"
    <3>1. newOnes[m] \in 1..Len(sockets[m]) /\ sockets[m][newOnes[m]] = "bound"
      BY <2>3, LenIs DEF ListenersInv, SocketsOK, InUse, Absent
    <3>2. <<m, newOnes[m]>> # <<n, k>>
      BY <1>2, <3>1
    <3> QED
      BY <1>5, <3>1, <3>2
  <2> QED
    BY <1>3, <2>1, <2>2, <2>3 DEF InUse
<1>7. \A m \in Names : Started(m) => Started(m)'
  <2> SUFFICES ASSUME NEW m \in Names, Started(m) PROVE Started(m)'
    OBVIOUS
  <2>1. listeners[m] \in 1..Len(sockets[m]) /\ sockets[m][listeners[m]] = "serving"
        /\ <<m, listeners[m]>> \notin retired \cup draining
    BY LenIs DEF Started, ListenersInv, SocketsOK, Absent
  <2>2. <<m, listeners[m]>> # <<n, k>>
    BY <1>1, <2>1
  <2> QED
    BY <1>3, <1>5, <2>1, <2>2 DEF Started, Absent
<1>8. SuccessorInv'
  <2>1. \A x \in retired : x[1] \in Names
    BY DEF ListenersInv, SocketsOK
  <2> QED
    BY <1>3, <1>7, <2>1 DEF ListenersInv, SuccessorInv
<1>9. ASSUME NEW m \in Names, Served(m) PROVE Served(m)'
  <2>1. PICK g \in DOMAIN sockets[m] : sockets[m][g] = "serving" /\ <<m, g>> \notin draining
    BY <1>9 DEF Served
  <2>2. g \in 1..Len(sockets[m]) /\ <<m, g>> # <<n, k>>
    BY Zenon, <1>1, <2>1, LenIs DEF ListenersInv, SocketsOK
  <2> QED
    BY ZenonT(30), <1>3, <1>5, <2>1, <2>2 DEF Served
<1> QED
  BY <1>5, <1>6, <1>8, <1>9 DEF Keeps

\* At the end of the process listeners are shut down.
LEMMA ShutdownKeeps ==
  ASSUME ListenersInv, NEW n \in Names, ShutdownListener(n)
  PROVE  Keeps
<1>1. PICK k \in 1..Len(sockets[n]) : k = listeners[n]
  BY LenIs DEF ShutdownListener, ListenersInv, SocketsOK, Absent
<1>2. /\ pc = "drain" /\ pc' = "drain" /\ sockets' = [sockets EXCEPT ![n][k] = "closed"]
      /\ UNCHANGED <<listeners, newOnes, retired, pc, cfg, draining>>
  BY <1>1 DEF ShutdownListener, localVars
<1>3. /\ SocketsOK'
      /\ \A m \in Names : \A j \in 1..Len(sockets[m]) :
           sockets[m][j] # "bound" => sockets'[m][j] # "bound"
  BY Zenon, <1>2, CloseKeeps
<1>4. InUse'
  <2>1. ASSUME NEW m \in Names, listeners[m] # Absent PROVE sockets'[m][listeners[m]] # "bound"
    <3>1. listeners[m] \in 1..Len(sockets[m]) /\ sockets[m][listeners[m]] # "bound"
      BY <2>1, LenIs DEF ListenersInv, SocketsOK, InUse, Absent
    <3> QED
      BY <1>3, <3>1
  <2>2. ASSUME NEW x \in retired \cup draining PROVE sockets'[x[1]][x[2]] # "bound"
    <3>1. x[1] \in Names /\ x[2] \in 1..Len(sockets[x[1]]) /\ sockets[x[1]][x[2]] # "bound"
      BY <2>2 DEF ListenersInv, SocketsOK, InUse
    <3> QED
      BY <1>3, <3>1
  <2> QED
    BY <1>2, <2>1, <2>2 DEF InUse
<1>5. SuccessorInv'
  BY <1>2 DEF SuccessorInv
<1> QED
  BY <1>2, <1>3, <1>4, <1>5 DEF Keeps, Ending

\* Every step keeps the invariant, and the listeners served.
LEMMA KeepsStep ==
  ASSUME ListenersInv, [Next]_vars
  PROVE  Keeps
BY ElsewhereSteps, ElsewhereKeeps, LoadKeeps, BuildKeeps, PlanKeeps, StartKeeps, RetireKeeps,
   DrainKeeps, ShutdownKeeps, Zenon

-----------------------------------------------------------------------------
\* RuntimeInv is an inductive invariant.
LEMMA RuntimeInvariant == Spec => []RuntimeInv
<1>1. Init => RuntimeInv
  <2> SUFFICES ASSUME Init PROVE RuntimeInv
    OBVIOUS
  <2>1. ConfigsOK /\ EditInv
    <3>1. 0 \in 0..MaxEdits
      BY RuntimeAssumption
    <3>2. edits = 0 /\ file = cfg /\ newCfg = cfg /\ cfg \in Config
      BY DEF Init
    <3>3. owed = FALSE /\ sigCh = "empty" /\ pc = "waiting"
      BY DEF Init
    <3> QED
      BY <3>1, <3>2, <3>3, Zenon DEF ConfigsOK, PC, EditInv
  <2>2. PICK one \in Seq(Socket), none \in Seq(Socket) :
          one = <<"serving">> /\ none = <<>> /\ Len(one) = 1 /\ Len(none) = 0 /\ one[1] = "serving"
    <3>1. PICK v \in Socket : v = "serving"
      BY DEF Socket
    <3>2. <<v>> \in Seq(Socket) /\ Len(<<v>>) = 1 /\ <<v>>[1] = v
      BY Singleton
    <3> QED
      BY Zenon, <3>1, <3>2, EmptyIs
  <2>3. \A n \in Names : \/ listeners[n] = 0 /\ sockets[n] = none
                         \/ listeners[n] = 1 /\ sockets[n] = one
    BY Zenon, <2>2 DEF Init, Absent
  <2>4. DOMAIN listeners = Names /\ DOMAIN sockets = Names
        /\ newOnes = [n \in Names |-> 0] /\ retired = {} /\ draining = {} /\ pc = "waiting"
        /\ sockets = [n \in Names |-> sockets[n]] /\ listeners = [n \in Names |-> listeners[n]]
    BY DEF Init, Absent
  <2>5. SocketsOK
    <3>3. Len(one) = 1 /\ Len(none) = 0
      BY <2>2
    <3>1. ASSUME NEW n \in Names
          PROVE  /\ sockets[n] \in Seq(Socket)
                 /\ listeners[n] \in Nat /\ newOnes[n] \in Nat
                 /\ listeners[n] <= Len(sockets[n]) /\ newOnes[n] <= Len(sockets[n])
      <4>1. newOnes[n] = 0
        BY <2>4
      <4>2. \/ listeners[n] = 0 /\ sockets[n] = none
            \/ listeners[n] = 1 /\ sockets[n] = one
        BY <2>3
      <4>3. 0 \in Nat /\ 1 \in Nat /\ 0 <= 0 /\ 0 <= 1 /\ 1 <= 1
        OBVIOUS
      <4> QED
        BY <3>3, <4>1, <4>2, <4>3, Zenon
    <3>2. sockets \in [Names -> Seq(Socket)] /\ listeners \in [Names -> Nat] /\ newOnes \in [Names -> Nat]
      BY <2>4, <3>1
    <3> QED
      BY <2>4, <3>1, <3>2 DEF SocketsOK
  <2>6. InUse /\ SuccessorInv
    BY <2>2, <2>3, <2>4 DEF InUse, SuccessorInv, Absent
  <2>7. MonitorsOK
    <3>1. PICK one1 \in Seq(BOOLEAN), none1 \in Seq(BOOLEAN) :
            one1 = <<TRUE>> /\ none1 = <<>> /\ Len(one1) = 1 /\ Len(none1) = 0
      <4>1. PICK v \in BOOLEAN : v = TRUE
        BY Zenon
      <4>2. <<v>> \in Seq(BOOLEAN) /\ Len(<<v>>) = 1
        BY Singleton
      <4> QED
        BY Zenon, <4>1, <4>2, EmptyIs
    <3>2. \A p \in Pools : \/ pools[p] = 0 /\ monitors[p] = none1
                           \/ pools[p] = 1 /\ monitors[p] = one1
      BY Zenon, <3>1 DEF Init, Absent
    <3>3. /\ pools = [p \in Pools |-> pools[p]] /\ monitors = [p \in Pools |-> monitors[p]]
          /\ newPools = [p \in Pools |-> 0]
      BY DEF Init, Absent
    <3>6. Len(one1) = 1 /\ Len(none1) = 0
      BY <3>1
    <3>4. ASSUME NEW p \in Pools
          PROVE  /\ monitors[p] \in Seq(BOOLEAN)
                 /\ pools[p] \in Nat /\ newPools[p] \in Nat
                 /\ pools[p] <= Len(monitors[p]) /\ newPools[p] <= Len(monitors[p])
      <4>1. newPools[p] = 0
        BY <3>3
      <4>2. \/ pools[p] = 0 /\ monitors[p] = none1
            \/ pools[p] = 1 /\ monitors[p] = one1
        BY <3>2
      <4>3. 0 \in Nat /\ 1 \in Nat /\ 0 <= 0 /\ 0 <= 1 /\ 1 <= 1
        OBVIOUS
      <4> QED
        BY <3>6, <4>1, <4>2, <4>3, Zenon
    <3>5. monitors \in [Pools -> Seq(BOOLEAN)] /\ pools \in [Pools -> Nat] /\ newPools \in [Pools -> Nat]
      BY <3>3, <3>4
    <3> QED
      BY <3>4, <3>5 DEF MonitorsOK
  <2> QED
    BY <2>1, <2>5, <2>6, <2>7 DEF RuntimeInv
<1>2. RuntimeInv /\ [Next]_vars => RuntimeInv'
  BY KeepsStep, ConfigsStep, MonitorsStep, EditStep DEF RuntimeInv, ListenersInv, Keeps
<1> QED
  BY <1>1, <1>2, PTL DEF Spec

\* Every instance and monitor the runtime names exists, after any sequence of
\* reloads, complete or given up.
THEOREM RuntimeTypeCorrect == Spec => []TypeOK
<1>1. RuntimeInv => TypeOK
  <2> SUFFICES ASSUME RuntimeInv PROVE TypeOK
    OBVIOUS
  <2>1. \A n \in Names : {listeners[n], newOnes[n]} \subseteq 0..Len(sockets[n])
    <3>2. \A n \in Names : Len(sockets[n]) \in Nat
      BY Zenon, LenIs DEF RuntimeInv, SocketsOK
    <3>1. \A n \in Names : listeners[n] \in 0..Len(sockets[n]) /\ newOnes[n] \in 0..Len(sockets[n])
      <4>1. /\ listeners \in [Names -> Nat] /\ newOnes \in [Names -> Nat]
            /\ \A n \in Names : listeners[n] <= Len(sockets[n]) /\ newOnes[n] <= Len(sockets[n])
        BY DEF RuntimeInv, SocketsOK
      <4>2. \A x, l \in Nat : x <= l => x \in 0..l
        OBVIOUS
      <4> QED
        BY <3>2, <4>1, <4>2, Zenon
    <3> QED
      BY <3>1, Zenon
  <2>2. \A p \in Pools : {pools[p], newPools[p]} \subseteq 0..Len(monitors[p])
    <3>2. \A p \in Pools : Len(monitors[p]) \in Nat
      BY LenIs DEF RuntimeInv, MonitorsOK
    <3>1. \A p \in Pools : pools[p] \in 0..Len(monitors[p]) /\ newPools[p] \in 0..Len(monitors[p])
      <4>1. /\ pools \in [Pools -> Nat] /\ newPools \in [Pools -> Nat]
            /\ \A p \in Pools : pools[p] <= Len(monitors[p]) /\ newPools[p] <= Len(monitors[p])
        BY DEF RuntimeInv, MonitorsOK
      <4>2. \A x, l \in Nat : x <= l => x \in 0..l
        OBVIOUS
      <4>3. \A p \in Pools : pools[p] \in Nat /\ newPools[p] \in Nat
        BY <4>1
      <4> QED
        BY <3>2, <4>1, <4>2, <4>3, Zenon
    <3> QED
      BY <3>1, Zenon
  <2>3. \A i \in retired \cup draining : i[1] \in Names /\ i[2] \in 1..Len(sockets[i[1]])
    BY DEF RuntimeInv, SocketsOK
  <2> QED
    BY <2>1, <2>2, <2>3 DEF RuntimeInv, TypeOK, ConfigsOK, SocketsOK, MonitorsOK, Socket, PC
<1> QED
  BY <1>1, RuntimeInvariant, PTL

\* The last edit is loaded, or a signal for it is on its way (serve, reloadConfig).
THEOREM EditsAreLoaded == Spec => []NoEditMissed
<1>1. RuntimeInv => NoEditMissed
  BY DEF RuntimeInv, EditInv, NoEditMissed, Ending
<1> QED
  BY <1>1, RuntimeInvariant, PTL

\* No reload, whatever becomes of it and however late its drains are, leaves a
\* configured listener unserved that was served before (reloadConfig, apply).
THEOREM NoGapInService == Spec => StaysServed
<1>1. RuntimeInv /\ [Next]_vars =>
        [\A n \in Names :
           Served(n) /\ cfg'.listeners[n] # Absent /\ pc' \notin {"drain", "wait", "stopped"}
             => Served(n)']_vars
  BY KeepsStep DEF RuntimeInv, ListenersInv, Keeps, Ending
<1> QED
  BY <1>1, RuntimeInvariant, PTL DEF Spec, StaysServed

-----------------------------------------------------------------------------
\* The health monitors.

\* The last k results of r all succeeded.
RunOf(r, k) == k <= Len(r) /\ \A i \in (Len(r) - k + 1)..Len(r) : r[i]

\* The inductive form of RestoredByRun: a success counter never claims more
\* than the run of successes that the monitor's results end with.
Claim(s) == IF s.successes > HealthyThreshold THEN HealthyThreshold ELSE s.successes

CountsRuns == \A g \in Monitors : RunOf(results[g], Claim(states[g]))

\* LastResults keeps the end of the results, and at most HealthyThreshold.
LEMMA LastResultsProperties ==
  ASSUME NEW s \in Seq(BOOLEAN)
  PROVE  LET t == LastResults(s)
             d == Len(s) - Len(t)
         IN  /\ t \in Seq(BOOLEAN) /\ Len(t) <= HealthyThreshold
             /\ d \in Nat /\ (Len(s) <= HealthyThreshold => d = 0)
             /\ Len(s) > HealthyThreshold => Len(t) = HealthyThreshold
             /\ \A i \in 1..Len(t) : t[i] = s[i + d]
<1>1. Len(s) \in Nat /\ HealthyThreshold \in Nat /\ HealthyThreshold >= 1
  BY MonitorConfig, LenIs
<1> DEFINE m == IF Len(s) > HealthyThreshold THEN Len(s) - HealthyThreshold + 1 ELSE 1
           t == LastResults(s)
<1>2. m \in 1..(Len(s) + 1)
  BY <1>1
<1>3. t = SubSeq(s, m, Len(s))
  BY DEF LastResults
<1> HIDE DEF m, t
<1>4. /\ t \in Seq(BOOLEAN) /\ Len(t) = Len(s) - m + 1
      /\ \A i \in 1..(Len(s) - m + 1) : t[i] = s[m + i - 1]
  <2>1. \A i \in m..Len(s) : s[i] \in BOOLEAN
    BY <1>1, <1>2, LenIs
  <2>2. t = [i \in 1..(Len(s) - m + 1) |-> s[i + m - 1]]
    BY <1>1, <1>2, <1>3
  <2>3. Len(s) - m + 1 \in Nat
    BY <1>1, <1>2
  <2>4. \A i \in 1..(Len(s) - m + 1) : i + m - 1 \in m..Len(s) /\ i + m - 1 = m + i - 1
    BY <1>1, <1>2
  <2> HIDE DEF m
  <2>5. \A i \in 1..(Len(s) - m + 1) : s[i + m - 1] \in BOOLEAN
    BY <2>1, <2>4
  <2>6. t \in [1..(Len(s) - m + 1) -> BOOLEAN]
    BY <2>2, <2>5
  <2>7. t \in Seq(BOOLEAN) /\ Len(t) = Len(s) - m + 1
    BY <2>3, <2>6
  <2> QED
    BY Zenon, <2>2, <2>4, <2>7
<1>5. Len(s) - Len(t) = m - 1
  BY <1>1, <1>2, <1>4
<1>6. \A i \in 1..Len(t) : t[i] = s[i + (Len(s) - Len(t))]
  <2> TAKE i \in 1..Len(t)
  <2>1. m + i - 1 = i + (Len(s) - Len(t)) /\ i \in 1..(Len(s) - m + 1)
    BY <1>1, <1>2, <1>4
  <2> QED
    BY <1>4, <2>1
<1> QED
  BY <1>1, <1>4, <1>5, <1>6 DEF m, t

\* Counting a result keeps a counter within its cap.
LEMMA CountedType ==
  ASSUME NEW s \in probeState, NEW ok \in BOOLEAN
  PROVE  /\ Counted(s, ok) \in probeState
         /\ ~ ok => Counted(s, ok).successes = 0
         /\ ok => Claim(Counted(s, ok)) <= Claim(s) + 1
<1>1. /\ s.successes \in 0..(HealthyThreshold + 1) /\ s.failures \in 0..(UnhealthyThreshold + 1)
      /\ HealthyThreshold \in Nat /\ UnhealthyThreshold \in Nat
  BY MonitorConfig DEF probeState
<1>2. /\ Capped(s.successes + 1, HealthyThreshold) \in 0..(HealthyThreshold + 1)
      /\ Capped(s.failures + 1, UnhealthyThreshold) \in 0..(UnhealthyThreshold + 1)
      /\ 0 \in 0..(HealthyThreshold + 1) /\ 0 \in 0..(UnhealthyThreshold + 1)
  BY <1>1 DEF Capped
<1>3. Counted(s, ok) \in probeState
  BY Zenon, <1>2 DEF Counted, probeState
<1>4. ~ ok => Counted(s, ok).successes = 0
  BY DEF Counted, probeState
<1>5. ok => Counted(s, ok).successes = Capped(s.successes + 1, HealthyThreshold)
  BY DEF Counted, probeState
<1>6. ok => Claim(Counted(s, ok)) <= Claim(s) + 1
  <2> SUFFICES ASSUME ok PROVE Claim(Counted(s, ok)) <= Claim(s) + 1
    BY Zenon
  <2> DEFINE n == s.successes
             m == Counted(s, ok).successes
             c == Claim(s)
             d == Claim(Counted(s, ok))
             H == HealthyThreshold
  <2>1. m = IF n + 1 > H THEN H + 1 ELSE n + 1
    BY Zenon, <1>5 DEF Capped
  <2>2. c = (IF n > H THEN H ELSE n) /\ d = (IF m > H THEN H ELSE m)
    BY DEF Claim
  <2>3. n \in Nat /\ H \in Nat
    BY <1>1
  <2> HIDE DEF n, m, c, d, H
  <2>4. d <= c + 1
    BY <2>1, <2>2, <2>3
  <2> QED
    BY Zenon, <2>4 DEF c, d
<1> QED
  BY <1>3, <1>4, <1>6

\* Every step of the probes, the request handlers and a reload keeps the types.
LEMMA TypeStep == HealthTypeOK /\ [HealthNext]_healthVars => HealthTypeOK'
<1> SUFFICES ASSUME HealthTypeOK, [HealthNext]_healthVars PROVE HealthTypeOK'
  OBVIOUS
<1> USE DEF HealthTypeOK
<1>1. CASE UNCHANGED healthVars
  BY <1>1 DEF healthVars, monVars
<1>2. CASE RunStarts
  BY Zenon, <1>2 DEF RunStarts
<1>3. ASSUME NEW p \in Probes, StartProbe(p) PROVE HealthTypeOK'
  <2>1. probe' = [probe EXCEPT ![p].pc = "sent", ![p].mon = gen]
    BY <1>3 DEF StartProbe
  <2>2. probe' \in [Probes -> Probe]
    <3> HIDE DEF HealthTypeOK
    <3>1. probe \in [Probes -> Probe] /\ gen \in Monitors
      BY DEF HealthTypeOK
    <3>2. [probe[p] EXCEPT !.pc = "sent", !.mon = gen] \in Probe
      BY Zenon, <3>1 DEF Probe, ProbePC
    <3> QED
      BY <2>1, <3>1, <3>2
  <2> QED
    BY <1>3, <2>2 DEF StartProbe, monVars
<1>4. ASSUME NEW p \in Probes, NEW ok \in BOOLEAN, Answer(p, ok) PROVE HealthTypeOK'
  <2>1. probe' = [probe EXCEPT ![p].pc = "answered", ![p].ok = ok]
    BY <1>4 DEF Answer
  <2>2. probe' \in [Probes -> Probe]
    <3> HIDE DEF HealthTypeOK
    <3>1. probe \in [Probes -> Probe]
      BY DEF HealthTypeOK
    <3>2. [probe[p] EXCEPT !.pc = "answered", !.ok = ok] \in Probe
      BY Zenon, <3>1 DEF Probe, ProbePC
    <3> QED
      BY <2>1, <3>1, <3>2
  <2> QED
    BY <1>4, <2>2 DEF Answer, monVars
<1>5. ASSUME NEW p \in Probes, Count(p) PROVE HealthTypeOK'
  <2> DEFINE g == probe[p].mon
             ok == probe[p].ok
             s == Counted(states[g], ok)
  <2>1. g \in Monitors /\ ok \in BOOLEAN /\ states[g] \in probeState /\ results[g] \in Seq(BOOLEAN)
    BY DEF Probe
  <2>2. s \in probeState
    BY Zenon, <2>1, CountedType
  <2>3. Append(results[g], ok) \in Seq(BOOLEAN)
    BY <2>1, AppendIs
  <2>4. /\ LastResults(Append(results[g], ok)) \in Seq(BOOLEAN)
        /\ Len(LastResults(Append(results[g], ok))) <= HealthyThreshold
    BY Zenon, <2>3, LastResultsProperties
  <2>5. Reached(s, ok) \in BOOLEAN
    <3>1. CASE ok
      BY <3>1 DEF Reached
    <3>2. CASE ~ ok
      BY <3>2 DEF Reached
    <3> QED
      BY <3>1, <3>2
  <2>6. /\ states' = [states EXCEPT ![g] = s]
        /\ probe' = [probe EXCEPT ![p].pc = "counted", ![p].enough = Reached(s, ok)]
        /\ results' = [results EXCEPT ![g] = IF ok THEN LastResults(Append(results[g], ok)) ELSE <<>>]
        /\ UNCHANGED <<backend, eligible, monVars>>
    BY <1>5 DEF Count
  <2> HIDE DEF g, ok, s
  <2>7. states' \in [Monitors -> probeState]
    BY <2>1, <2>2, <2>6
  <2>8. probe' \in [Probes -> Probe]
    <3> HIDE DEF HealthTypeOK
    <3>1. probe \in [Probes -> Probe]
      BY DEF HealthTypeOK
    <3>2. PICK e \in BOOLEAN : e = Reached(s, ok)
      BY <2>5
    <3>3. probe' = [probe EXCEPT ![p].pc = "counted", ![p].enough = e]
      BY <2>6, <3>2
    <3> QED
      BY ZenonT(30), <3>1, <3>3 DEF Probe, ProbePC
  <2>9. \A h \in Monitors : results'[h] \in Seq(BOOLEAN) /\ Len(results'[h]) <= HealthyThreshold
    <3>1. <<>> \in Seq(BOOLEAN) /\ Len(<<>>) <= HealthyThreshold
      BY MonitorConfig
    <3> QED
      BY Zenon, <2>1, <2>4, <2>6, <3>1
  <2> QED
    BY <2>6, <2>7, <2>8, <2>9 DEF monVars
<1>6. ASSUME NEW p \in Probes, Decide(p) \/ Store(p) PROVE HealthTypeOK'
  <2>1. 1 \in Monitors
    BY MonitorConfig DEF Monitors
  <2>2. probe' \in [Probes -> Probe]
    <3>1. Done(p) \in [Probes -> Probe]
      BY <2>1 DEF Done, NoProbe, Probe, ProbePC
    <3>2. [probe EXCEPT ![p].pc = "storing"] \in [Probes -> Probe]
      BY Zenon DEF Probe, ProbePC
    <3> QED
      BY Zenon, <1>6, <3>1, <3>2 DEF Decide, Store
  <2>3. eligible' \in BOOLEAN
    BY <1>6 DEF Decide, Store, Probe
  <2> QED
    BY <1>6, <2>2, <2>3 DEF Decide, Store, monVars
<1>7. ASSUME NEW g \in Monitors, NEW isError \in BOOLEAN, NEW high \in BOOLEAN,
             RecordOutcome(g, isError, high)
      PROVE  HealthTypeOK'
  <2>1. /\ 0 \in 0..(HealthyThreshold + 1) /\ 0 \in 0..(UnhealthyThreshold + 1)
        /\ states[g] \in probeState
    BY MonitorConfig
  <2>2. states' \in [Monitors -> probeState]
    BY <1>7, <2>1 DEF RecordOutcome, probeState
  <2> QED
    BY <1>7, <2>1, <2>2 DEF RecordOutcome, monVars
<1>8. CASE CancelMonitor
  BY <1>8 DEF CancelMonitor
<1>9. CASE ReplaceMonitor
  BY <1>9, MonitorConfig DEF ReplaceMonitor, Monitors
<1>10. CASE BackendChanges
  BY <1>10 DEF BackendChanges, monVars
<1> QED
  BY Zenon, <1>1, <1>2, <1>3, <1>4, <1>5, <1>6, <1>7, <1>8, <1>9, <1>10 DEF HealthNext, ProbeSteps

\* A run that a success extends, of which only the end is kept, is a run of
\* any shorter length.
LEMMA RunExtends ==
  ASSUME NEW r \in Seq(BOOLEAN), NEW k \in Nat, RunOf(r, k), NEW c \in Nat,
         c <= k + 1, c <= HealthyThreshold
  PROVE  RunOf(LastResults(Append(r, TRUE)), c)
<1> DEFINE s == Append(r, TRUE)
           t == LastResults(s)
           d == Len(s) - Len(t)
<1>1. /\ s \in Seq(BOOLEAN) /\ Len(s) = Len(r) + 1
      /\ \A i \in 1..Len(r) : s[i] = r[i]
      /\ s[Len(r) + 1] = TRUE
  BY AppendIs
<1>2. /\ t \in Seq(BOOLEAN) /\ Len(t) <= HealthyThreshold
      /\ d \in Nat /\ (Len(s) <= HealthyThreshold => d = 0)
      /\ Len(s) > HealthyThreshold => Len(t) = HealthyThreshold
      /\ \A i \in 1..Len(t) : t[i] = s[i + d]
  BY Zenon, <1>1, LastResultsProperties
<1>3. Len(r) \in Nat /\ Len(t) \in Nat /\ HealthyThreshold \in Nat /\ k <= Len(r)
  BY Zenon, <1>2, LenIs, MonitorConfig DEF RunOf
<1>4. \A j \in (Len(r) - k + 1)..(Len(r) + 1) : s[j]
  <2> TAKE j \in (Len(r) - k + 1)..(Len(r) + 1)
  <2>1. CASE j = Len(r) + 1
    BY <1>1, <2>1
  <2>2. CASE j # Len(r) + 1
    <3>1. j \in (Len(r) - k + 1)..Len(r) /\ j \in 1..Len(r)
      BY <1>3, <2>2
    <3> QED
      BY <1>1, <3>1 DEF RunOf
  <2> QED
    BY Zenon, <2>1, <2>2
<1>5. d = Len(s) - Len(t)
  OBVIOUS
<1> HIDE DEF s, t, d
<1>6. c <= Len(t)
  BY <1>1, <1>2, <1>3, <1>5
<1>7. \A i \in (Len(t) - c + 1)..Len(t) : t[i]
  <2> TAKE i \in (Len(t) - c + 1)..Len(t)
  <2>0. Len(s) = Len(r) + 1
    BY Zenon, <1>1
  <2>1. i \in 1..Len(t) /\ i + d \in (Len(r) - k + 1)..(Len(r) + 1)
    BY <1>3, <1>5, <1>6, <2>0
  <2> QED
    BY Zenon, <1>2, <1>4, <2>1
<1> QED
  BY Zenon, <1>6, <1>7 DEF RunOf, t, s

\* Every step keeps the counters honest: only Count and RecordOutcome write
\* them, under the same lock.
LEMMA RunStep == HealthTypeOK /\ CountsRuns /\ [HealthNext]_healthVars => CountsRuns'
<1> SUFFICES ASSUME HealthTypeOK, CountsRuns, [HealthNext]_healthVars, NEW h \in Monitors
             PROVE  RunOf(results'[h], Claim(states'[h]))
  BY DEF CountsRuns
<1>0. /\ RunOf(results[h], Claim(states[h]))
      /\ results[h] \in Seq(BOOLEAN) /\ states[h] \in probeState
      /\ states \in [Monitors -> probeState] /\ results \in [Monitors -> Seq(BOOLEAN)]
  BY DEF HealthTypeOK, CountsRuns
<1>1. \A r \in Seq(BOOLEAN) : RunOf(r, 0)
  BY LenIs DEF RunOf
<1>2. \A s \in probeState : Claim(s) \in Nat /\ Claim(s) <= HealthyThreshold
  <2> TAKE s \in probeState
  <2>1. s.successes \in Nat /\ HealthyThreshold \in Nat
    BY MonitorConfig DEF probeState
  <2> QED
    BY <2>1 DEF Claim
<1>3. CASE UNCHANGED <<states, results>>
  BY Zenon, <1>0, <1>3
<1>4. ASSUME NEW p \in Probes, Count(p) PROVE RunOf(results'[h], Claim(states'[h]))
  <2> DEFINE ok == probe[p].ok
             s == Counted(states[h], ok)
  <2>1. probe[p].mon \in Monitors /\ ok \in BOOLEAN
    BY Zenon DEF HealthTypeOK, Probe
  <2>2. CASE probe[p].mon # h
    <3>1. states'[h] = states[h] /\ results'[h] = results[h]
      BY Zenon, <1>0, <1>4, <2>1, <2>2 DEF Count
    <3> QED
      BY Zenon, <1>0, <3>1
  <2>3. CASE probe[p].mon = h
    <3>1. states'[h] = s /\ results'[h] = IF ok THEN LastResults(Append(results[h], ok)) ELSE <<>>
      BY Zenon, <1>0, <1>4, <2>3 DEF Count
    <3>2. /\ s \in probeState
          /\ ~ ok => s.successes = 0
          /\ ok => Claim(s) <= Claim(states[h]) + 1
      BY Zenon, <1>0, <2>1, CountedType
    <3> HIDE DEF s, ok
    <3>3. CASE ok
      <4>1. ok = TRUE
        BY <2>1, <3>3
      <4>2. Claim(s) \in Nat /\ Claim(s) <= HealthyThreshold /\ Claim(states[h]) \in Nat
        BY <1>0, <1>2, <3>2
      <4> QED
        BY Zenon, <1>0, <3>1, <3>2, <3>3, <4>1, <4>2, RunExtends
    <3>4. CASE ~ ok
      <4>1. Claim(s) = 0
        BY <3>2, <3>4, MonitorConfig DEF Claim
      <4>2. <<>> \in Seq(BOOLEAN) /\ results'[h] = <<>>
        BY <3>1, <3>4
      <4> QED
        BY Zenon, <1>1, <3>1, <4>1, <4>2
    <3> QED
      BY <3>3, <3>4
  <2> QED
    BY Zenon, <2>2, <2>3
<1>5. ASSUME NEW g \in Monitors, NEW isError \in BOOLEAN, NEW high \in BOOLEAN,
             RecordOutcome(g, isError, high)
      PROVE  RunOf(results'[h], Claim(states'[h]))
  <2>1. results' = results /\ states'[h].successes \in {0, states[h].successes}
    BY <1>0, <1>5 DEF RecordOutcome, probeState
  <2>2. Claim(states'[h]) \in {0, Claim(states[h])}
    BY <2>1, MonitorConfig DEF Claim
  <2> QED
    BY Zenon, <1>0, <1>1, <2>1, <2>2
<1> QED
  BY Zenon, <1>3, <1>4, <1>5
  DEF HealthNext, healthVars, monVars, RunStarts, StartProbe, ProbeSteps, Answer, Decide, Store,
      CancelMonitor, ReplaceMonitor, BackendChanges

\* Counters, goroutines and the reload keep their types.
THEOREM MonitorTypeCorrect == HealthSpec => []HealthTypeOK
<1>1. HealthInit => HealthTypeOK
  <2>1. /\ 1 \in Monitors /\ 0 \in 0..(HealthyThreshold + 1) /\ 0 \in 0..(UnhealthyThreshold + 1)
        /\ <<>> \in Seq(BOOLEAN) /\ Len(<<>>) <= HealthyThreshold
    BY MonitorConfig DEF Monitors
  <2>2. NoResults \in probeState /\ NoProbe \in Probe
    BY <2>1 DEF NoResults, probeState, NoProbe, Probe, ProbePC
  <2> QED
    BY Zenon, <2>1, <2>2 DEF HealthInit, HealthTypeOK
<1> QED
  BY <1>1, TypeStep, PTL DEF HealthSpec

\* An upstream is put into rotation only by a run of HealthyThreshold probes
\* that all succeeded: the counter recordResult compares is never ahead of the
\* monitor's results, for any number of overlapping probes.
THEOREM RestoredOnlyByRun == HealthSpec => []RestoredByRun
<1>1. HealthInit => CountsRuns
  <2>1. Claim(NoResults) = 0 /\ RunOf(<<>>, 0)
    BY MonitorConfig DEF Claim, NoResults, RunOf
  <2> QED
    BY <2>1 DEF HealthInit, CountsRuns
<1>2. HealthTypeOK /\ CountsRuns => RestoredByRun
  <2> SUFFICES ASSUME HealthTypeOK, CountsRuns, NEW g \in Monitors,
                      states[g].successes >= HealthyThreshold
               PROVE  /\ Len(results[g]) = HealthyThreshold
                      /\ \A i \in 1..HealthyThreshold : results[g][i]
    BY DEF RestoredByRun
  <2>1. /\ results[g] \in Seq(BOOLEAN) /\ Len(results[g]) <= HealthyThreshold
        /\ states[g].successes \in Nat /\ HealthyThreshold \in Nat
    BY MonitorConfig DEF HealthTypeOK, probeState
  <2>2. Claim(states[g]) = HealthyThreshold
    BY <2>1 DEF Claim
  <2>3. RunOf(results[g], HealthyThreshold)
    BY <2>2 DEF CountsRuns
  <2>4. Len(results[g]) = HealthyThreshold
    BY <2>1, <2>3, LenIs DEF RunOf
  <2> QED
    BY <2>1, <2>3, <2>4 DEF RunOf
<1> QED
  BY <1>1, <1>2, RunStep, MonitorTypeCorrect, PTL DEF HealthSpec

-----------------------------------------------------------------------------
\* The rate limit.

\* What the rate gives from x to y, and what n requests cost.
Gain(x, y) == (y - x) * RPS
Cost(n) == n * Second

\* A bucket that is not there was never drawn from, and what has been drawn
\* from one, from any admission on, and what is left in it is no more than the
\* burst and what the time since gave.
Paid(k) ==
  /\ buckets[k].lastFill = Never => admits[k] = <<>> /\ promise[k] = Never
  /\ \A i \in DOMAIN admits[k] :
       Cost(Len(admits[k]) - i + 1) + buckets[k].tokens <= burst + Gain(admits[k][i], buckets[k].lastFill)

\* WithinRate, of one key.
Within(k) ==
  \A i, j \in DOMAIN admits[k] :
    i <= j => Cost(j - i + 1) <= burst + Gain(admits[k][i], admits[k][j])

\* At the time a client was promised its bucket holds a token.
Owed(k) ==
  promise[k] # Never => Second <= buckets[k].tokens + Gain(buckets[k].lastFill, promise[k])

LimitInv == LimitTypeOK /\ \A k \in Keys : Paid(k) /\ Within(k) /\ Owed(k)

Bucket(top) == [tokens : 0..burst, lastFill : Never..top]

\* A bucket's capacity is at least one token, and does not change.
LEMMA BurstHoldsOne == burst \in Nat /\ Second <= burst /\ burst' = burst
<1>1. PICK n \in Nat \ {0} : burst = Second * n
  BY RateLimitAssumption DEF burst
<1>2. Second * n >= Second
  BY RateLimitAssumption
<1>3. burst' = burst
  BY DEF burst
<1> QED
  BY <1>1, <1>2, <1>3, RateLimitAssumption

\* What the rate gives in a span of time is the sum of what it gives in its
\* parts, and nothing is negative about it.
LEMMA GainProperties ==
  /\ \A x, y \in Int : Gain(x, y) \in Int /\ (x <= y => Gain(x, y) >= 0)
  /\ \A x \in Int : Gain(x, x) = 0
  /\ \A x, y, z \in Int : Gain(x, y) + Gain(y, z) = Gain(x, z)
<1>1. \A x, y \in Int : Gain(x, y) \in Int
  BY RateLimitAssumption DEF Gain
<1>2. \A x, y \in Int : x <= y => Gain(x, y) >= 0
  BY RateLimitAssumption DEF Gain
<1>3. \A x \in Int : Gain(x, x) = 0
  BY RateLimitAssumption DEF Gain
<1>4. \A x, y, z \in Int : Gain(x, y) + Gain(y, z) = Gain(x, z)
  BY RateLimitAssumption DEF Gain
<1> QED
  BY <1>1, <1>2, <1>3, <1>4

\* A request costs a second's units.
LEMMA CostProperties ==
  /\ \A n \in Int : Cost(n) \in Int /\ Cost(n + 1) = Cost(n) + Second
  /\ Cost(1) = Second
BY RateLimitAssumption DEF Cost

\* Filling a bucket keeps it one; its time is the later of the two, and it gains
\* no more than the rate gives in between, and no less unless it is full.
LEMMA FillProperties ==
  ASSUME NEW top \in Nat, NEW b \in Bucket(top), NEW t \in 0..top, b.lastFill # Never,
         NEW f, f = Fill(b, t)
  PROVE  /\ f \in Bucket(top) /\ f.lastFill \in 0..top
         /\ f.tokens <= b.tokens + Gain(b.lastFill, f.lastFill)
         /\ f.tokens < burst => f.tokens = b.tokens + Gain(b.lastFill, f.lastFill)
         /\ t <= f.lastFill /\ b.lastFill <= f.lastFill
         /\ f.lastFill \in {t, b.lastFill}
<1>1. /\ b.tokens \in 0..burst /\ b.lastFill \in 0..top /\ burst \in Nat
  BY BurstHoldsOne DEF Bucket, Never
<1>2. CASE t > b.lastFill
  <2>6. b.lastFill \in Int /\ t \in Int /\ b.lastFill <= t
    BY <1>1, <1>2
  <2>7. Gain(b.lastFill, t) \in Int /\ Gain(b.lastFill, t) >= 0
    BY <2>6, GainProperties, Zenon
  <2>1. PICK g \in Nat : g = Gain(b.lastFill, t)
    BY <2>7
  <2>2. PICK n : n = IF b.tokens + g > burst THEN burst ELSE b.tokens + g
    OBVIOUS
  <2>3. n \in 0..burst /\ n <= b.tokens + g /\ (n < burst => n = b.tokens + g)
    BY <1>1, <2>2
  <2>4. f = [tokens |-> n, lastFill |-> t]
    BY <1>2, <2>1, <2>2 DEF Fill, Gain
  <2>5. [tokens |-> n, lastFill |-> t] \in Bucket(top)
    BY <2>3 DEF Bucket, Never
  <2> QED
    BY <1>1, <1>2, <2>1, <2>3, <2>4, <2>5
<1>3. CASE ~ (t > b.lastFill)
  <2>1. f = b
    BY <1>3 DEF Fill
  <2>3. b.lastFill \in Int
    BY <1>1
  <2>2. Gain(b.lastFill, b.lastFill) = 0
    BY <2>3, GainProperties, Zenon
  <2> QED
    BY <1>1, <1>3, <2>1, <2>2
<1> QED
  BY <1>2, <1>3

\* A new bucket is full.
LEMMA FillNew ==
  ASSUME NEW top \in Nat, NEW b, NEW t \in 0..top, b.lastFill = Never, NEW f, f = Fill(b, t)
  PROVE  f = [tokens |-> burst, lastFill |-> t] /\ f \in Bucket(top) /\ f.lastFill \in 0..top
<1>1. f = [tokens |-> burst, lastFill |-> t]
  BY DEF Fill
<1>2. burst \in 0..burst /\ t \in Never..top
  BY BurstHoldsOne DEF Never
<1> QED
  BY <1>1, <1>2 DEF Bucket

\* The wait a refused client is told is worth what it lacks.
LEMMA RetryAfterCovers ==
  ASSUME NEW tokens \in Nat, tokens < Second, NEW x \in Int
  PROVE  /\ RetryAfter(tokens) * Second \in Nat
         /\ Second - tokens <= Gain(x, x + RetryAfter(tokens) * Second)
<1>1. PICK d \in Nat : d = Second - tokens
  BY RateLimitAssumption
<1>2. PICK y \in Nat \ {0} : y = RPS * Second
  BY RateLimitAssumption
<1>3. PICK q \in Nat : q = d \div y
  BY <1>1, <1>2
<1>4. d <= (q + 1) * y
  BY <1>3
<1>5. RetryAfter(tokens) = q + 1
  BY <1>1, <1>2, <1>3 DEF RetryAfter
<1>6. PICK w \in Nat : w = (q + 1) * Second
  BY RateLimitAssumption
<1>7. w * RPS = (q + 1) * y
  BY <1>2, <1>6, RateLimitAssumption
<1>8. Gain(x, x + w) = w * RPS
  BY RateLimitAssumption DEF Gain
<1> QED
  BY <1>1, <1>4, <1>5, <1>6, <1>7, <1>8

-----------------------------------------------------------------------------
\* An admission keeps the invariant: the token it takes was in the bucket.
LEMMA AdmitKeeps ==
  ASSUME LimitInv, NEW h \in Handlers, Admit(h)
  PROVE  LimitInv'
<1>0. PICK k \in Keys : k = key[h]
  BY Zenon DEF LimitInv, LimitTypeOK, Admit
<1>1. PICK b, t, s, f :
        k = key[h] /\ b = buckets[k] /\ t = now[h] /\ s = admits[k] /\ f = Fill(b, t)
  BY <1>0
<1>2. /\ clock \in Nat /\ clock' = clock /\ t \in 0..clock
      /\ b \in Bucket(clock) /\ s \in Seq(0..clock)
      /\ buckets \in [Keys -> Bucket(clock)] /\ admits \in [Keys -> Seq(0..clock)]
      /\ promise \in [Keys -> {Never} \cup Nat]
      /\ key \in [Handlers -> Keys \cup {None}] /\ now \in [Handlers -> 0..clock]
  BY <1>1 DEF LimitInv, LimitTypeOK, Admit, Bucket
<1>3. /\ f.tokens >= Second
      /\ buckets' = [buckets EXCEPT ![k] = [f EXCEPT !.tokens = f.tokens - Second]]
      /\ admits' = [admits EXCEPT ![k] = Append(s, f.lastFill)]
      /\ promise' = [promise EXCEPT ![k] = Never]
      /\ key' = [key EXCEPT ![h] = None] /\ now' = [now EXCEPT ![h] = 0]
  BY <1>1 DEF Admit
<1>4. /\ f \in Bucket(clock) /\ f.lastFill \in 0..clock
      /\ b.lastFill # Never => f.tokens <= b.tokens + Gain(b.lastFill, f.lastFill)
  <2>1. CASE b.lastFill = Never
    BY Zenon, <1>1, <1>2, <2>1, FillNew
  <2>2. CASE b.lastFill # Never
    BY <1>1, <1>2, <2>2, FillProperties
  <2> QED
    BY Zenon, <2>1, <2>2
<1>5. burst \in Nat /\ Second \in Nat \ {0} /\ burst' = burst
  BY BurstHoldsOne, RateLimitAssumption
<1>6. Paid(k) /\ Within(k) /\ \A j \in Keys : Paid(j) /\ Within(j) /\ Owed(j)
  BY DEF LimitInv
<1>7. PICK n \in 0..burst : n = f.tokens - Second
  BY <1>3, <1>4, <1>5 DEF Bucket
<1>8. PICK c : c = [f EXCEPT !.tokens = n]
  BY Zenon
<1>9. c \in Bucket(clock) /\ c.tokens = n /\ c.lastFill = f.lastFill
  BY <1>4, <1>8 DEF Bucket
<1>10. /\ buckets' = [buckets EXCEPT ![k] = c] /\ buckets'[k] = c
       /\ admits'[k] = Append(s, f.lastFill) /\ promise'[k] = Never
       /\ \A j \in Keys \ {k} : /\ buckets'[j] = buckets[j] /\ admits'[j] = admits[j]
                                /\ promise'[j] = promise[j]
  BY <1>2, <1>3, <1>7, <1>8
<1>11. LimitTypeOK'
  <2>1. buckets' \in [Keys -> Bucket(clock)]
    BY Zenon, <1>2, <1>9, <1>10
  <2>2. Append(s, f.lastFill) \in Seq(0..clock)
    BY <1>2, <1>4
  <2>3. admits' \in [Keys -> Seq(0..clock)]
    BY <1>2, <1>3, <2>2
  <2>4. promise' \in [Keys -> {Never} \cup Nat]
    BY <1>2, <1>3
  <2>5. key' \in [Handlers -> Keys \cup {None}] /\ now' \in [Handlers -> 0..clock]
    BY <1>2, <1>3
  <2> QED
    BY Zenon, <1>2, <1>5, <2>1, <2>3, <2>4, <2>5 DEF LimitTypeOK, Bucket
<1>12. PICK l \in Nat : l = Len(s) /\ DOMAIN s = 1..l /\ \A i \in 1..l : s[i] \in 0..clock
  BY Zenon, <1>2, LenIs
<1>13. /\ Len(admits'[k]) = l + 1 /\ DOMAIN admits'[k] = 1..(l + 1)
       /\ \A i \in 1..l : admits'[k][i] = s[i]
       /\ admits'[k][l + 1] = f.lastFill
       /\ \A i \in 1..(l + 1) : admits'[k][i] \in Int
  <2>1. PICK T : T = 0..clock
    OBVIOUS
  <2>2. s \in Seq(T) /\ f.lastFill \in T
    BY <1>2, <1>4, <2>1
  <2>3. PICK r \in Seq(T) : r = Append(s, f.lastFill)
    BY ZenonT(30), <2>2, AppendIs
  <2>4. /\ Len(r) = l + 1 /\ \A i \in 1..l : r[i] = s[i]
        /\ r[l + 1] = f.lastFill
    BY <1>12, <2>2, <2>3, AppendIs
  <2>5. DOMAIN r = 1..(l + 1) /\ \A i \in 1..(l + 1) : r[i] \in T
    BY Zenon, <2>3, <2>4, LenIs
  <2>6. \A i \in T : i \in Int
    BY <1>2, <2>1
  <2>7. \A i \in 1..(l + 1) : r[i] \in Int
    BY Zenon, <2>5, <2>6
  <2>8. admits'[k] = r
    BY Zenon, <1>10, <2>3
  <2> QED
    BY Zenon, <2>4, <2>5, <2>7, <2>8
<1>14. ASSUME NEW i \in 1..(l + 1)
       PROVE  Cost(l + 1 - i + 1) + n <= burst + Gain(admits'[k][i], f.lastFill)
  <2>1. CASE i \in 1..l
    <3>1. b.lastFill # Never /\ Cost(l - i + 1) + b.tokens <= burst + Gain(s[i], b.lastFill)
      <4>1. s # <<>>
        BY <1>12, <2>1
      <4> QED
        BY Zenon, <1>1, <1>6, <1>12, <2>1, <4>1 DEF Paid
    <3>2. /\ s[i] \in Int /\ b.lastFill \in Int /\ f.lastFill \in Int
          /\ b.tokens \in Int /\ f.tokens \in Int /\ l - i + 1 \in Int
      <4>1. s[i] \in 0..clock /\ l - i + 1 \in Int
        BY <1>2, <1>12, <2>1
      <4>2. b.lastFill \in Int /\ f.lastFill \in Int /\ b.tokens \in Int /\ f.tokens \in Int
        BY <1>2, <1>4 DEF Bucket, Never
      <4> QED
        BY <1>2, <4>1, <4>2
    <3>3a. /\ Gain(s[i], b.lastFill) \in Int /\ Gain(b.lastFill, f.lastFill) \in Int
           /\ Gain(s[i], f.lastFill) \in Int
      BY <3>2, GainProperties, Zenon
    <3>3b. Gain(s[i], b.lastFill) + Gain(b.lastFill, f.lastFill) = Gain(s[i], f.lastFill)
      BY <3>2, GainProperties, ZenonT(30)
    <3>3. PICK u \in Int, v \in Int, w \in Int :
               /\ u = Gain(s[i], b.lastFill) /\ v = Gain(b.lastFill, f.lastFill)
               /\ w = Gain(s[i], f.lastFill) /\ u + v = w
      BY <3>3a, <3>3b
    <3>4. PICK m \in Int : m = Cost(l - i + 1) /\ Cost(l - i + 1 + 1) = m + Second
      BY Zenon, <3>2, CostProperties
    <3>5. f.tokens <= b.tokens + v /\ m + b.tokens <= burst + u
      BY <1>4, <3>1, <3>3, <3>4
    <3>6. m + Second + n <= burst + w
      BY <1>5, <1>7, <3>2, <3>3, <3>5
    <3>7. l + 1 - i + 1 = l - i + 1 + 1
      BY <2>1
    <3> QED
      BY Zenon, <1>13, <2>1, <3>3, <3>4, <3>6, <3>7
  <2>2. CASE i = l + 1
    <3>1. l + 1 - i + 1 = 1 /\ Cost(1) = Second
      BY <2>2, CostProperties
    <3>2. f.lastFill \in Int
      BY <1>4
    <3>3. Gain(f.lastFill, f.lastFill) = 0
      BY <3>2, GainProperties, Zenon
    <3>4. Second + n <= burst
      BY <1>4, <1>5, <1>7 DEF Bucket
    <3>5. admits'[k][i] = f.lastFill
      BY Zenon, <1>13, <2>2
    <3>6. Cost(l + 1 - i + 1) = Second /\ Gain(admits'[k][i], f.lastFill) = 0
      BY Zenon, <3>1, <3>3, <3>5
    <3> QED
      BY SMTT(30), <1>5, <3>4, <3>6
  <2>3. i \in 1..l \/ i = l + 1
    BY <1>12
  <2> QED
    BY Zenon, <2>1, <2>2, <2>3
<1>15. Paid(k)'
  <2>1. f.lastFill # Never
    BY <1>4 DEF Never
  <2>2. /\ buckets'[k].tokens = n /\ buckets'[k].lastFill = f.lastFill
    BY ZenonT(30), <1>9, <1>10
  <2>3. \A i \in DOMAIN admits'[k] :
          Cost(Len(admits'[k]) - i + 1) + buckets'[k].tokens
            <= burst + Gain(admits'[k][i], buckets'[k].lastFill)
    BY <1>13, <1>14, <2>2
  <2> QED
    BY <1>5, <2>1, <2>2, <2>3 DEF Paid, Cost, Gain
<1>16. Within(k)'
  <2> SUFFICES ASSUME NEW x \in 1..(l + 1), NEW y \in 1..(l + 1), x <= y
               PROVE  Cost(y - x + 1) <= burst + Gain(admits'[k][x], admits'[k][y])
    BY Zenon, <1>5, <1>13 DEF Within, Cost, Gain
  <2>1. CASE y \in 1..l
    <3>1. x \in 1..l /\ y \in 1..l /\ admits'[k][x] = s[x] /\ admits'[k][y] = s[y]
      BY <1>13, <2>1
    <3>2. Cost(y - x + 1) <= burst + Gain(s[x], s[y])
      BY Zenon, <1>1, <1>6, <1>12, <3>1 DEF Within
    <3> QED
      BY <3>1, <3>2
  <2>2. CASE y = l + 1
    <3>2. admits'[k][x] \in Int /\ f.lastFill \in Int /\ l + 1 - x + 1 \in Int
      BY <1>4, <1>13
    <3>1. Cost(l + 1 - x + 1) \in Int /\ Gain(admits'[k][x], f.lastFill) \in Int
      BY <3>2, CostProperties, GainProperties, Zenon
    <3>3. Cost(l + 1 - x + 1) + n <= burst + Gain(admits'[k][x], f.lastFill)
      BY <1>14, Zenon
    <3>4. PICK w \in Int, g \in Int : w = Cost(l + 1 - x + 1) /\ g = Gain(admits'[k][x], f.lastFill)
      BY <3>1, Zenon
    <3>5. w + n <= burst + g
      BY <3>3, <3>4, Zenon
    <3>6. w <= burst + g
      BY <1>5, <1>7, <3>5
    <3>7. y - x + 1 = l + 1 - x + 1 /\ admits'[k][y] = f.lastFill
      BY <1>13, <2>2
    <3> QED
      BY <3>4, <3>6, <3>7, ZenonT(30)
  <2> QED
    BY <2>1, <2>2
<1>17. \A j \in Keys \ {k} : Paid(j)' /\ Within(j)' /\ Owed(j)'
  BY ZenonT(30), <1>5, <1>6, <1>10 DEF Paid, Within, Owed, Cost, Gain
<1>18. Owed(k)'
  BY Zenon, <1>10 DEF Owed
<1> QED
  BY <1>11, <1>15, <1>16, <1>17, <1>18 DEF LimitInv

\* A refusal keeps it: the bucket may have gained, and the promise is made of
\* what it has gained.
LEMMA RefuseKeeps ==
  ASSUME LimitInv, NEW h \in Handlers, Refuse(h)
  PROVE  LimitInv' /\ (promise[key[h]] # Never => now[h] < promise[key[h]])
<1>0. PICK k \in Keys : k = key[h]
  BY DEF LimitInv, LimitTypeOK, Refuse
<1>1. PICK b, t, s, f, p :
        /\ k = key[h] /\ b = buckets[k] /\ t = now[h] /\ s = admits[k] /\ f = Fill(b, t)
        /\ p = promise[k]
  BY ZenonT(30), <1>0
<1>2. /\ clock \in Nat /\ clock' = clock /\ t \in 0..clock
      /\ b \in Bucket(clock) /\ s \in Seq(0..clock) /\ p \in {Never} \cup Nat
      /\ buckets \in [Keys -> Bucket(clock)] /\ admits \in [Keys -> Seq(0..clock)]
      /\ promise \in [Keys -> {Never} \cup Nat]
      /\ key \in [Handlers -> Keys \cup {None}] /\ now \in [Handlers -> 0..clock]
  BY <1>1 DEF LimitInv, LimitTypeOK, Refuse, Bucket
<1>3. PICK back : back = clock + RetryAfter(f.tokens) * Second
  OBVIOUS
<1>4. PICK q : q = IF p = Never \/ back < p THEN back ELSE p
  OBVIOUS
<1>5. /\ f.tokens < Second
      /\ buckets' = [buckets EXCEPT ![k] = f]
      /\ promise' = [promise EXCEPT ![k] = q]
      /\ key' = [key EXCEPT ![h] = None] /\ now' = [now EXCEPT ![h] = 0]
      /\ admits' = admits
  BY Zenon, <1>1, <1>3, <1>4 DEF Refuse
<1>6. burst \in Nat /\ Second \in Nat \ {0} /\ burst' = burst /\ Second <= burst
  BY BurstHoldsOne, RateLimitAssumption
<1>7. Paid(k) /\ \A j \in Keys : Paid(j) /\ Within(j) /\ Owed(j)
  BY DEF LimitInv
<1>8. b.lastFill # Never
  <2>1. ASSUME b.lastFill = Never PROVE FALSE
    <3>1. f = [tokens |-> burst, lastFill |-> t]
      BY <1>1, <1>2, <2>1, FillNew
    <3> QED
      BY <1>5, <1>6, <3>1
  <2> QED
    BY <2>1
<1>9. /\ f \in Bucket(clock) /\ f.lastFill \in 0..clock
      /\ f.tokens = b.tokens + Gain(b.lastFill, f.lastFill)
      /\ t <= f.lastFill /\ b.lastFill <= f.lastFill
  <2>1. /\ f \in Bucket(clock) /\ f.lastFill \in 0..clock
        /\ f.tokens < burst => f.tokens = b.tokens + Gain(b.lastFill, f.lastFill)
        /\ t <= f.lastFill /\ b.lastFill <= f.lastFill
    BY <1>1, <1>2, <1>8, FillProperties
  <2>2. f.tokens < burst
    BY <1>5, <1>6, <2>1 DEF Bucket
  <2> QED
    BY Zenon, <2>1, <2>2
<1>10. /\ b.lastFill \in Int /\ f.lastFill \in Int /\ f.tokens \in Nat /\ b.tokens \in Int
       /\ clock \in Int
  BY <1>2, <1>9 DEF Bucket, Never
<1>11. PICK g \in Int : g = Gain(b.lastFill, f.lastFill) /\ f.tokens = b.tokens + g
  BY <1>9, <1>10, GainProperties, Zenon
<1>12. back \in Nat /\ Second - f.tokens <= Gain(clock, back)
  <2>1. /\ RetryAfter(f.tokens) * Second \in Nat
        /\ Second - f.tokens <= Gain(clock, clock + RetryAfter(f.tokens) * Second)
    BY <1>5, <1>10, RetryAfterCovers, Zenon
  <2> QED
    BY <1>2, <1>3, <2>1
<1>13. q \in Nat /\ (q = back \/ (q = p /\ p # Never))
  BY <1>2, <1>4, <1>12
<1>14. /\ buckets'[k] = f /\ promise'[k] = q
       /\ \A j \in Keys \ {k} : buckets'[j] = buckets[j] /\ promise'[j] = promise[j]
  BY Zenon, <1>2, <1>5
<1>15. LimitTypeOK'
  <2>1. buckets' \in [Keys -> Bucket(clock)]
    BY Zenon, <1>2, <1>5, <1>9
  <2>2. promise' \in [Keys -> {Never} \cup Nat]
    BY Zenon, <1>2, <1>5, <1>13
  <2>3. key' \in [Handlers -> Keys \cup {None}] /\ now' \in [Handlers -> 0..clock]
    BY <1>2, <1>5
  <2> QED
    BY Zenon, <1>2, <1>5, <1>6, <2>1, <2>2, <2>3 DEF LimitTypeOK, Bucket
<1>16. Paid(k)'
  <2>1. ASSUME NEW i \in DOMAIN s
        PROVE  Cost(Len(s) - i + 1) + f.tokens <= burst + Gain(s[i], f.lastFill)
    <3>1. Cost(Len(s) - i + 1) + b.tokens <= burst + Gain(s[i], b.lastFill)
      BY Zenon, <1>1, <1>7 DEF Paid
    <3>2. s[i] \in Int /\ Len(s) - i + 1 \in Int
      BY <1>2
    <3>3a. /\ Gain(s[i], b.lastFill) \in Int /\ Gain(b.lastFill, f.lastFill) \in Int
           /\ Gain(s[i], f.lastFill) \in Int
      BY <1>10, <3>2, GainProperties, Zenon
    <3>3b. Gain(s[i], b.lastFill) + Gain(b.lastFill, f.lastFill) = Gain(s[i], f.lastFill)
      BY <1>10, <3>2, GainProperties, ZenonT(30)
    <3>3. PICK u \in Int, v \in Int, w \in Int :
               /\ u = Gain(s[i], b.lastFill) /\ v = Gain(b.lastFill, f.lastFill)
               /\ w = Gain(s[i], f.lastFill) /\ u + v = w
      BY <3>3a, <3>3b
    <3>4. PICK m \in Int : m = Cost(Len(s) - i + 1)
      BY <3>2, CostProperties, Zenon
    <3>5. m + b.tokens <= burst + u /\ f.tokens = b.tokens + v
      BY Zenon, <1>11, <3>1, <3>3, <3>4
    <3>6. m + f.tokens <= burst + w
      BY <1>6, <1>10, <3>3, <3>5
    <3> QED
      BY <3>3, <3>4, <3>6
  <2>2. f.lastFill # Never
    BY <1>9 DEF Never
  <2>3. \A i \in DOMAIN admits'[k] :
          Cost(Len(admits'[k]) - i + 1) + buckets'[k].tokens
            <= burst + Gain(admits'[k][i], buckets'[k].lastFill)
    BY Zenon, <1>1, <1>5, <1>14, <2>1
  <2> QED
    BY Zenon, <1>6, <1>14, <2>2, <2>3 DEF Paid, Cost, Gain
<1>17. Second <= f.tokens + Gain(f.lastFill, q)
  <2>1. CASE q = back
    <3>1. back \in Int
      BY <1>12
    <3>2a. /\ Gain(f.lastFill, clock) \in Int /\ Gain(clock, back) \in Int
           /\ Gain(f.lastFill, back) \in Int
      BY <1>10, <3>1, GainProperties, Zenon
    <3>2b. Gain(f.lastFill, clock) + Gain(clock, back) = Gain(f.lastFill, back)
      BY <1>10, <3>1, GainProperties, ZenonT(30)
    <3>2. PICK u \in Int, v \in Int, w \in Int :
               /\ u = Gain(f.lastFill, clock) /\ v = Gain(clock, back)
               /\ w = Gain(f.lastFill, back) /\ u + v = w
      BY Zenon, <3>2a, <3>2b
    <3>3. f.lastFill <= clock
      BY <1>2, <1>9
    <3>4. Gain(f.lastFill, clock) >= 0
      BY <1>10, <3>3, GainProperties, Zenon
    <3> QED
      BY <1>6, <1>10, <1>12, <2>1, <3>2, <3>4
  <2>2. CASE q = p /\ p # Never
    <3>1. Second <= b.tokens + Gain(b.lastFill, p)
      BY Zenon, <1>1, <1>7, <2>2 DEF Owed
    <3>2. p \in Int
      BY <1>13, <2>2
    <3>3a. /\ Gain(b.lastFill, f.lastFill) \in Int /\ Gain(f.lastFill, p) \in Int
           /\ Gain(b.lastFill, p) \in Int
      BY <1>10, <3>2, GainProperties, Zenon
    <3>3b. Gain(b.lastFill, f.lastFill) + Gain(f.lastFill, p) = Gain(b.lastFill, p)
      BY <1>10, <3>2, GainProperties, Zenon
    <3>3. PICK u \in Int, v \in Int, w \in Int :
               /\ u = Gain(b.lastFill, f.lastFill) /\ v = Gain(f.lastFill, p)
               /\ w = Gain(b.lastFill, p) /\ u + v = w
      BY <3>3a, <3>3b
    <3> QED
      BY <1>6, <1>10, <1>11, <2>2, <3>1, <3>3
  <2> QED
    BY Zenon, <1>13, <2>1, <2>2
<1>18. Owed(k)'
  BY Zenon, <1>14, <1>17 DEF Owed, Gain
<1>19. \A j \in Keys : Within(j)'
  BY Zenon, <1>5, <1>6, <1>7 DEF Within, Cost, Gain
<1>20. \A j \in Keys \ {k} : Paid(j)' /\ Owed(j)'
  BY Zenon, <1>5, <1>6, <1>7, <1>14 DEF Paid, Owed, Cost, Gain
<1>21. p # Never => t < p
  <2> SUFFICES ASSUME p \in Nat, p <= t, p # Never PROVE FALSE
    BY <1>2
  <2>1. p <= f.lastFill /\ p \in Int
    BY <1>2, <1>9
  <2>2. Second <= b.tokens + Gain(b.lastFill, p)
    BY Zenon, <1>1, <1>7 DEF Owed
  <2>3a. /\ Gain(b.lastFill, p) \in Int /\ Gain(p, f.lastFill) \in Int
         /\ Gain(b.lastFill, f.lastFill) \in Int
    BY <1>10, <2>1, GainProperties, Zenon
  <2>3b. Gain(b.lastFill, p) + Gain(p, f.lastFill) = Gain(b.lastFill, f.lastFill)
    BY <1>10, <2>1, GainProperties, Zenon
  <2>3. PICK u \in Int, v \in Int, w \in Int :
             /\ u = Gain(b.lastFill, p) /\ v = Gain(p, f.lastFill)
             /\ w = Gain(b.lastFill, f.lastFill) /\ u + v = w
    BY <2>3a, <2>3b
  <2>4. Gain(p, f.lastFill) >= 0
    BY <1>10, <2>1, GainProperties, Zenon
  <2> QED
    BY <1>5, <1>6, <1>10, <1>11, <2>2, <2>3, <2>4
<1>22. LimitInv'
  BY <1>15, <1>16, <1>18, <1>19, <1>20 DEF LimitInv
<1> QED
  BY Zenon, <1>1, <1>21, <1>22

\* A request's key is an address, or the route's.
LEMMA KeyOfClient ==
  ASSUME NEW c \in Clients
  PROVE  bucketKey(c) \in Keys
<1>1. c.peer \in Addresses /\ c.xff \in Seq(Addresses) /\ TrustProxyHops \in Nat
  BY Zenon, RateLimitAssumption
<1>2. clientIPWithTrust(c) \in Addresses
  <2>1. CASE TrustProxyHops > 0 /\ c.xff # <<>>
    <3>3. Len(c.xff) \in Nat /\ Len(c.xff) # 0
      BY <1>1, <2>1, EmptyIs
    <3>4. PICK n \in Nat \ {0} : n = Len(c.xff)
      BY <3>3
    <3>5. PICK i : i = IF TrustProxyHops > n THEN 1 ELSE n - TrustProxyHops + 1
      OBVIOUS
    <3>1. i \in 1..n
      <4>1. CASE TrustProxyHops > n
        BY <3>5, <4>1
      <4>2. CASE ~ (TrustProxyHops > n)
        BY <1>1, <2>1, <3>5, <4>2
      <4> QED
        BY <4>1, <4>2
    <3>2. clientIPWithTrust(c) = c.xff[i]
      BY Zenon, <2>1, <3>4, <3>5 DEF clientIPWithTrust
    <3>6. c.xff[i] \in Addresses
      BY Zenon, <1>1, <3>1, <3>4, LenIs
    <3> QED
      BY <3>2, <3>6
  <2>2. CASE ~ (TrustProxyHops > 0 /\ c.xff # <<>>)
    BY <1>1, <2>2 DEF clientIPWithTrust
  <2> QED
    BY <2>1, <2>2
<1> QED
  BY <1>2 DEF bucketKey, Keys

\* The other steps leave the buckets alone.
LEMMA RestKeeps ==
  ASSUME LimitInv, \/ \E h \in Handlers, c \in Clients : Arrive(h, c)
                   \/ Tick
                   \/ UNCHANGED limitVars
  PROVE  LimitInv'
<1>1. buckets' = buckets /\ admits' = admits /\ promise' = promise
  BY ZenonT(30) DEF Arrive, Tick, limitVars
<1>2. \A k \in Keys : Paid(k)' /\ Within(k)' /\ Owed(k)'
  BY ZenonT(30), <1>1, BurstHoldsOne DEF LimitInv, Paid, Within, Owed, Cost, Gain
<1>3. LimitTypeOK
  BY DEF LimitInv
<1>4. burst' = burst
  BY Zenon, BurstHoldsOne
<1>5. ASSUME NEW h \in Handlers, NEW c \in Clients, Arrive(h, c) PROVE LimitTypeOK'
  <2>1. bucketKey(c) \in Keys
    BY KeyOfClient
  <2>2. PICK k \in Keys : k = bucketKey(c)
    BY ZenonT(30), <2>1
  <2>3. key' \in [Handlers -> Keys \cup {None}] /\ now' \in [Handlers -> 0..clock]
    BY <1>3, <1>5, <2>2 DEF Arrive, LimitTypeOK
  <2> QED
    BY <1>1, <1>3, <1>4, <1>5, <2>3 DEF Arrive, LimitTypeOK
<1>6. ASSUME Tick PROVE LimitTypeOK'
  <2>1. clock \in Nat /\ clock' = clock + 1 /\ key' = key /\ now' = now
    BY <1>3, <1>6 DEF Tick, LimitTypeOK
  <2>2. 0..clock \subseteq 0..clock' /\ Never..clock \subseteq Never..clock'
    BY <2>1 DEF Never
  <2>3. \A s \in Seq(0..clock) : s \in Seq(0..clock')
    <3> TAKE s \in Seq(0..clock)
    <3> QED
      BY Zenon, <2>2, SeqOfMore
  <2>4. admits' \in [Keys -> Seq(0..clock')]
    BY <1>1, <1>3, <2>3 DEF LimitTypeOK
  <2>5. \A b \in [tokens : 0..burst, lastFill : Never..clock] :
          b \in [tokens : 0..burst, lastFill : Never..clock']
    BY Zenon, <2>2
  <2>6. buckets' \in [Keys -> [tokens : 0..burst, lastFill : Never..clock']]
    BY Zenon, <1>1, <1>3, <2>5 DEF LimitTypeOK
  <2>7. now' \in [Handlers -> 0..clock'] /\ clock' \in Nat
    BY <1>3, <2>1, <2>2 DEF LimitTypeOK
  <2> QED
    BY Zenon, <1>1, <1>3, <1>4, <2>1, <2>4, <2>6, <2>7 DEF LimitTypeOK
<1>7. ASSUME UNCHANGED limitVars PROVE LimitTypeOK'
  BY <1>3, <1>4, <1>7 DEF LimitTypeOK, limitVars
<1> QED
  BY <1>2, <1>5, <1>6, <1>7 DEF LimitInv

\* LimitInv is an inductive invariant.
LEMMA LimitInvariant == LimitSpec => []LimitInv
<1>1. LimitInit => LimitInv
  <2> SUFFICES ASSUME LimitInit PROVE LimitInv
    OBVIOUS
  <2>1. 0 \in 0..burst /\ Never \in Never..0 /\ 0 \in 0..0
    BY BurstHoldsOne DEF Never
  <2>2. NoBucket \in [tokens : 0..burst, lastFill : Never..0]
    BY Zenon, <2>1 DEF NoBucket
  <2>3. LimitTypeOK
    BY <2>1, <2>2 DEF LimitInit, LimitTypeOK
  <2>4. \A k \in Keys : Paid(k) /\ Within(k) /\ Owed(k)
    BY DEF LimitInit, Paid, Within, Owed
  <2> QED
    BY <2>3, <2>4 DEF LimitInv
<1>2. LimitInv /\ [LimitNext]_limitVars => LimitInv'
  BY AdmitKeeps, RefuseKeeps, RestKeeps, Zenon DEF LimitNext
<1> QED
  BY <1>1, <1>2, PTL DEF LimitSpec

\* No bucket is overdrawn or overfull, whatever the order of the readings.
THEOREM BucketsInBounds == LimitSpec => []LimitTypeOK
BY LimitInvariant, PTL DEF LimitInv

\* The route's limit holds, of every run of admissions of a key, for every rate,
\* burst and number of handlers that race for the bucket map (allow).
THEOREM RateIsKept == LimitSpec => []WithinRate
<1>1. LimitInv => WithinRate
  BY DEF LimitInv, Within, WithinRate, Cost, Gain
<1> QED
  BY <1>1, LimitInvariant, PTL

\* A refused client that waits as it was told is not refused again, unless
\* another request of its key was admitted (RateLimit, allow).
THEOREM RetryAfterIsEnough == LimitSpec => PromiseKept
<1>1. LimitInv /\ [LimitNext]_limitVars =>
        [\A h \in Handlers : Refuse(h) /\ promise[key[h]] # Never => now[h] < promise[key[h]]]_limitVars
  BY RefuseKeeps
<1> QED
  BY <1>1, LimitInvariant, PTL DEF LimitSpec, PromiseKept
==============================================================================
