--------------------------- MODULE LinkGuiProofs ---------------------------
(* The frame loop never has two calls of LinkRuntime at work at once, no    *)
(* path through them loses a host, and a closed window leaves nothing       *)
(* behind.                                                                  *)
EXTENDS LinkGui, TLAPS

(* One call in flight at a time; the stop() of the shutdown begins when all *)
(* others have ended.                                                       *)
OneAtATime ==
  /\ \A j, k \in {"scan", "start", "stop"} : InFlight(j) /\ InFlight(k) => j = k
  /\ InFlight("exit") => /\ gui \in {"stopping", "gone"}
                         /\ \A k \in {"scan", "start", "stop"} : ~Executing(k)
  /\ gui = "gone" => task["exit"].pc = "ready"
  /\ task["stop"].after = "ready" /\ task["exit"].after = "ready"

(* Once a frame has begun, the settings name registered hosts only.         *)
RoutesKnown ==
  gui \in {"act", "request"} =>
    defaultHost \in Hosts /\ \A c \in DOMAIN route : route[c] \in Hosts

(* What is serving is what the runtime knows of, but for the hosts of the   *)
(* call at work: the ones it has started and not published, and the ones it *)
(* has taken out and not stopped.                                           *)
Freshly == {"fresh", "configure", "discover", "connect", "launch"}
NotStopping == \A k \in {"start", "stop", "exit"} : task[k].pc # "hosts"
HostsKnown ==
  /\ targets = ControllersOf(hosts)
  /\ state \in {"Stopped", "Failed"} => hosts = {}
  /\ task["start"].pc \in Freshly \/ task["scan"].pc \in {"configure", "discover"} => hosts = {}
  /\ task["start"].pc = "launch" => live = task["start"].made
  /\ \A k \in {"start", "stop", "exit"} : task[k].pc = "hosts" => hosts = {} /\ live = task[k].made
  /\ task["start"].pc # "launch" /\ NotStopping => live = hosts

(* The shutdown joins the monitor before it takes the hosts.                *)
Leaving ==
  /\ task["exit"].pc \in {"take", "hosts", "done", "ready"} => monitor = "none"
  /\ task["exit"].pc \in {"hosts", "done", "ready"} => hosts = {}

LinkInv == TypeOK /\ OneAtATime /\ RoutesKnown /\ HostsKnown /\ Leaving
-----------------------------------------------------------------------------
(* Where the calls are *)

TaskRec == [pc : Positions, after : {"ready", "begin"}, want : SUBSET Links,
            made : SUBSET Links, options : OptionSets \cup {"none"}]

(* A step of call k, which leaves the others alone.                         *)
Moves(k) ==
  /\ k \in Calls /\ Executing(k) /\ ~terminated
  /\ task' \in [Calls -> TaskRec] /\ task'[k].pc # "off"
  /\ \A j \in Calls : j # k => task'[j] = task[j]
  /\ k # "start" => task'[k].after = task[k].after

LEMMA GotoMoves ==
  ASSUME TypeOK, NEW k \in Calls, NEW from \in Positions \ {"off", "ready"},
         NEW to \in Positions \ {"off"}, Goto(k, from, to)
  PROVE  /\ Moves(k) /\ task[k].pc = from /\ task'[k].pc = to
         /\ task'[k].made = task[k].made /\ task'[k].want = task[k].want
         /\ task'[k].options = task[k].options /\ task'[k].after = task[k].after
<1>1. task \in [Calls -> TaskRec]
  BY DEF TypeOK, TaskRec
<1>2. task' = [task EXCEPT ![k].pc = to] /\ task[k].pc = from /\ ~terminated
  BY DEF Goto, At
<1>3. task[k] \in TaskRec
  BY <1>1
<1>4. [task[k] EXCEPT !.pc = to] \in TaskRec
  BY <1>3 DEF TaskRec
<1>5. task'[k] = [task[k] EXCEPT !.pc = to] /\ \A j \in Calls : j # k => task'[j] = task[j]
  BY <1>1, <1>2
<1>6. task' \in [Calls -> TaskRec]
  BY <1>1, <1>2, <1>4
<1>7. /\ task'[k].pc = to /\ task'[k].made = task[k].made /\ task'[k].want = task[k].want
      /\ task'[k].options = task[k].options /\ task'[k].after = task[k].after
  BY <1>3, <1>5 DEF TaskRec
<1> QED
  BY <1>2, <1>5, <1>6, <1>7 DEF Moves, Executing

LEMMA RecordMoves ==
  ASSUME TypeOK, NEW k \in Calls, NEW from \in Positions \ {"off", "ready"}, At(k, from),
         NEW r \in TaskRec, r.pc # "off", k # "start" => r.after = task[k].after,
         task' = [task EXCEPT ![k] = r]
  PROVE  Moves(k) /\ task[k].pc = from /\ task'[k] = r
<1>1. task \in [Calls -> TaskRec]
  BY DEF TypeOK, TaskRec
<1> QED
  BY <1>1 DEF Moves, At, Executing

(* The types of the runtime's own variables.                                *)
RuntimeTyped ==
  /\ state \in States /\ stopRequested \in BOOLEAN /\ monitor \in {"none", "run", "exited"}
  /\ hosts \subseteq Links /\ live \subseteq Links
  /\ targets \subseteq Controllers
  /\ cache \subseteq Controllers /\ discovered \subseteq Controllers /\ hasResults \in BOOLEAN
  /\ systemOptions \in OptionSets \cup {"none"} /\ activeOptions \in OptionSets \cup {"none"}
  /\ terminated \in BOOLEAN

GuiTyped ==
  /\ gui \in {"poll", "act", "request", "closeState", "waiting", "stopping", "gone"}
  /\ shown \in [state : States, discovered : SUBSET Controllers, targets : SUBSET Controllers]
  /\ pending \in BOOLEAN /\ rescan \in BOOLEAN
  /\ enabled \subseteq Controllers /\ defaultHost \in Hosts \cup {UnknownHost}
  /\ DOMAIN route \subseteq Controllers /\ \A c \in DOMAIN route : route[c] \in Hosts \cup {UnknownHost}
  /\ options \in OptionSets /\ actions \in 0..MaxUserActions

LEMMA TypeParts == TypeOK <=> RuntimeTyped /\ GuiTyped /\ task \in [Calls -> TaskRec]
BY DEF TypeOK, RuntimeTyped, GuiTyped, TaskRec

LEMMA TypePartsNext == (RuntimeTyped /\ GuiTyped /\ task \in [Calls -> TaskRec])' => TypeOK'
BY DEF TypeOK, RuntimeTyped, GuiTyped, TaskRec

(* When one call is at work no other is.                                    *)
LEMMA OnlyOne ==
  ASSUME OneAtATime, NEW k \in Calls, Executing(k)
  PROVE  \A j \in Calls : j # k => ~Executing(j)
BY DEF OneAtATime, Executing, InFlight, Calls

(* A step of a call keeps the others from beginning.                        *)
LEMMA MovesExclusive ==
  ASSUME OneAtATime, NEW k \in Calls, Moves(k), UNCHANGED gui
  PROVE  OneAtATime'
<1>1. /\ \A j \in Calls : j # k => task'[j] = task[j]
      /\ task[k].pc \notin {"off", "ready"} /\ task'[k].pc # "off"
      /\ k # "start" => task'[k].after = task[k].after
  BY DEF Moves, Executing
<1>2. CASE k = "exit"
  BY <1>1, <1>2 DEF OneAtATime, Executing, InFlight, Calls
<1>3. CASE k # "exit"
  <2>1. task'["exit"] = task["exit"] /\ task["exit"].pc = "off"
    BY <1>1, <1>3 DEF OneAtATime, Executing, InFlight, Calls
  <2>2. \A j \in {"scan", "start", "stop"} : task'[j].pc # "off" => task[j].pc # "off"
    BY <1>1, <1>3 DEF Calls
  <2>3. task'["stop"].after = "ready"
    BY <1>1 DEF OneAtATime, Calls
  <2> QED
    BY <2>1, <2>2, <2>3 DEF OneAtATime, Executing, InFlight
<1> QED
  BY <1>2, <1>3

LEMMA ScanStep ==
  ASSUME LinkInv, Scan
  PROVE  Moves("scan") /\ RuntimeTyped' /\ HostsKnown' /\ Leaving'
<1> USE DEF linkVars, discoveryVars
<1>1. "scan" \in Calls /\ {"begin", "configure", "discover"} \subseteq Positions \ {"off", "ready"}
      /\ "ready" \in Positions \ {"off"}
  BY DEF Calls, Positions
<1>2. TypeOK /\ RuntimeTyped /\ OneAtATime /\ HostsKnown /\ Leaving /\ UNCHANGED <<hosts, targets, live, monitor>>
  BY TypeParts DEF LinkInv, Scan, ScanBegin, ScanConfigure, ScanFinish
<1>3. Moves("scan")
  BY <1>1, <1>2, GotoMoves DEF Scan, ScanBegin, ScanConfigure, ScanFinish
<1>4. \A j \in {"start", "stop", "exit"} : task'[j] = task[j] /\ task[j].pc \in {"off", "ready"}
  BY <1>2, <1>3, OnlyOne DEF Moves, Executing, Calls
<1>5. live = hosts
  BY <1>2, <1>4 DEF HostsKnown, NotStopping
<1>6. RuntimeTyped'
  <2>1. CASE ScanBegin
    BY <1>2, <2>1 DEF RuntimeTyped, ScanBegin, States
  <2>2. CASE ScanConfigure
    <3>1. task["scan"].options \in OptionSets \cup {"none"}
      BY <1>1, TypeParts, <1>2 DEF TaskRec
    <3> QED
      BY <1>2, <2>2, <3>1 DEF RuntimeTyped, ScanConfigure
  <2>3. CASE ScanFinish
    <3>1. \A found \in DiscoveryResults : found \subseteq Controllers
      BY RuntimeAssumption
    <3> QED
      BY <1>2, <2>3, <3>1 DEF RuntimeTyped, ScanFinish, States
  <2> QED
    BY <2>1, <2>2, <2>3 DEF Scan
<1>7. Leaving'
  BY <1>2, <1>4 DEF Leaving
<1>8. HostsKnown'
  <2>1. hosts = {} \/ (state' = state /\ task'["scan"].pc = "ready")
    <3>1. CASE ScanBegin
      <4>1. CASE state \in Busy \cup {"Running"}
        BY <1>1, <1>2, <3>1, <4>1, GotoMoves DEF ScanBegin
      <4>2. CASE state \notin Busy \cup {"Running"}
        BY <1>2, <4>2 DEF RuntimeTyped, States, Busy, HostsKnown
      <4> QED
        BY <4>1, <4>2
    <3>2. CASE ScanConfigure \/ ScanFinish
      BY <1>2, <3>2 DEF ScanConfigure, ScanFinish, Goto, At, HostsKnown
    <3> QED
      BY <3>1, <3>2 DEF Scan
  <2> QED
    BY <1>2, <1>4, <1>5, <2>1 DEF HostsKnown, NotStopping, Freshly
<1> QED
  BY <1>3, <1>6, <1>7, <1>8

(* The steps of stop(), also inside a start() whose options changed.        *)
LEMMA StopStep ==
  ASSUME LinkInv, NEW k \in {"start", "stop", "exit"}, Stop(k)
  PROVE  Moves(k) /\ RuntimeTyped' /\ HostsKnown' /\ Leaving'
<1> USE DEF linkVars, discoveryVars
<1>1. /\ k \in Calls
      /\ {"flag", "state", "join", "take", "hosts", "done"} \subseteq Positions \ {"off", "ready"}
      /\ {"done", "ready", "begin"} \subseteq Positions \ {"off"}
  BY DEF Calls, Positions
<1>2. TypeOK /\ RuntimeTyped /\ OneAtATime /\ HostsKnown /\ Leaving
  BY TypeParts DEF LinkInv
<1>3. task \in [Calls -> TaskRec] /\ task[k] \in TaskRec
  BY <1>1, <1>2, TypeParts
<1>4. task[k].after \in {"ready", "begin"} /\ (k # "start" => task[k].after = "ready")
  BY <1>2, <1>3 DEF TaskRec, OneAtATime
<1>5. ASSUME Executing(k), Moves(k)
      PROVE  \A j \in Calls : j # k => task'[j] = task[j] /\ task[j].pc \in {"off", "ready"}
  BY <1>1, <1>2, <1>5, OnlyOne DEF Moves, Executing
<1>6. CASE StopFlag(k) \/ StopState(k) \/ StopJoin(k)
  <2>1. /\ Moves(k) /\ task[k].pc \in {"flag", "state", "join"} /\ task'[k].pc \in {"state", "join", "take"}
        /\ UNCHANGED <<hosts, targets, live>> /\ (state' = state \/ state' = "StopRequested")
    BY <1>1, <1>2, <1>6, GotoMoves DEF StopFlag, StopState, StopJoin, RequestStopState
  <2>2. \A j \in Calls : j # k => task'[j] = task[j] /\ task[j].pc \in {"off", "ready"}
    BY <1>5, <2>1 DEF Executing
  <2>3. RuntimeTyped'
    BY <1>2, <1>6 DEF RuntimeTyped, StopFlag, StopState, StopJoin, RequestStopState, States
  <2>4. live = hosts /\ HostsKnown'
    BY <1>2, <2>1, <2>2 DEF HostsKnown, NotStopping, Freshly, Calls
  <2>5. Leaving'
    <3>1. CASE k # "exit"
      <4>1. task'["exit"] = task["exit"] /\ task["exit"].pc = "off"
        BY <1>2, <2>1, <2>2, <3>1 DEF OneAtATime, InFlight, Executing, Calls
      <4> QED
        BY <4>1 DEF Leaving
    <3>2. CASE k = "exit"
      BY <1>6, <2>1, <3>2, <1>1, <1>2, GotoMoves DEF StopFlag, StopState, StopJoin, Leaving
    <3> QED
      BY <3>1, <3>2
  <2> QED
    BY <2>1, <2>3, <2>4, <2>5
<1>7. CASE StopTake(k)
  <2> DEFINE r == [task[k] EXCEPT !.pc = "hosts", !.made = hosts]
  <2>1. r \in TaskRec /\ r.pc = "hosts" /\ r.made = hosts /\ r.after = task[k].after
    BY <1>1, <1>2, <1>3 DEF TaskRec, RuntimeTyped
  <2>2. task' = [task EXCEPT ![k] = r] /\ At(k, "take")
    BY <1>3, <1>7 DEF StopTake
  <2> HIDE DEF r
  <2>3. Moves(k) /\ task[k].pc = "take" /\ task'[k].pc = "hosts" /\ task'[k].made = hosts
    BY <1>1, <1>2, <2>1, <2>2, RecordMoves
  <2>4. \A j \in Calls : j # k => task'[j] = task[j] /\ task[j].pc \in {"off", "ready"}
    BY <1>5, <2>3 DEF Executing
  <2>5. /\ hosts' = {} /\ targets' = {} /\ state' = "Stopped"
        /\ UNCHANGED <<stopRequested, monitor, live, discoveryVars, activeOptions, terminated>>
    BY <1>7 DEF StopTake
  <2>6. RuntimeTyped'
    BY <1>2, <2>5 DEF RuntimeTyped, States
  <2>7. live = hosts
    BY <1>2, <2>3, <2>4 DEF HostsKnown, NotStopping, Calls
  <2>8. HostsKnown'
    BY <2>3, <2>4, <2>5, <2>7 DEF HostsKnown, NotStopping, Freshly, Calls, ControllersOf
  <2>9. Leaving'
    BY <1>2, <2>3, <2>4, <2>5 DEF Leaving, Calls
  <2> QED
    BY <2>3, <2>6, <2>8, <2>9
<1>8. CASE StopHosts(k) \/ StopDone(k)
  <2>1. /\ Moves(k) /\ task[k].pc \in {"hosts", "done"} /\ task'[k].pc \in {"done", "ready", "begin"}
        /\ k # "start" => task'[k].pc # "begin"
        /\ UNCHANGED <<hosts, targets, state, monitor>>
        /\ \/ task[k].pc = "hosts" /\ live' = live \ task[k].made
           \/ task[k].pc = "done" /\ live' = live
    <3>1. CASE StopHosts(k)
      <4>1. /\ Goto(k, "hosts", "done") /\ live' = live \ task[k].made
            /\ UNCHANGED <<hosts, targets, state, monitor>>
        BY <3>1 DEF StopHosts
      <4>2. Moves(k) /\ task[k].pc = "hosts" /\ task'[k].pc = "done"
        BY <1>1, <1>2, <4>1, GotoMoves
      <4> QED
        BY <4>1, <4>2
    <3>2. CASE StopDone(k)
      <4>1. Goto(k, "done", task[k].after) /\ UNCHANGED <<hosts, targets, live, state, monitor>>
        BY <3>2 DEF StopDone
      <4>2. CASE task[k].after = "ready"
        BY <1>1, <1>2, <4>1, <4>2, GotoMoves
      <4>3. CASE task[k].after = "begin"
        BY <1>1, <1>2, <1>4, <4>1, <4>3, GotoMoves
      <4> QED
        BY <1>4, <4>2, <4>3
    <3> QED
      BY <1>8, <3>1, <3>2
  <2>2. \A j \in Calls : j # k => task'[j] = task[j] /\ task[j].pc \in {"off", "ready"}
    BY <1>5, <2>1 DEF Executing
  <2>3. RuntimeTyped'
    BY <1>2, <1>8 DEF RuntimeTyped, StopHosts, StopDone
  <2>4. live' = hosts
    <3>1. CASE task[k].pc = "hosts"
      BY <1>2, <2>1, <3>1 DEF HostsKnown
    <3>2. CASE task[k].pc = "done"
      BY <1>2, <2>1, <2>2, <3>2 DEF HostsKnown, NotStopping, Calls
    <3> QED
      BY <2>1, <3>1, <3>2
  <2>5. HostsKnown'
    BY <1>2, <2>1, <2>2, <2>4 DEF HostsKnown, NotStopping, Freshly, Calls
  <2>6. Leaving'
    BY <1>2, <2>1, <2>2 DEF Leaving, Calls
  <2> QED
    BY <2>1, <2>3, <2>5, <2>6
<1> QED
  BY <1>6, <1>7, <1>8 DEF Stop

(* A step of start() leaves the shutdown alone: it has not begun.           *)
LEMMA StartAlone ==
  ASSUME LinkInv, Moves("start")
  PROVE  /\ \A j \in {"scan", "stop", "exit"} : task'[j] = task[j] /\ task[j].pc \in {"off", "ready"}
         /\ task["exit"].pc = "off" /\ Leaving'
<1>1. \A j \in Calls : j # "start" => task'[j] = task[j] /\ task[j].pc \in {"off", "ready"}
  BY OnlyOne DEF LinkInv, Moves, Executing
<1>2. task["exit"].pc = "off"
  BY DEF LinkInv, OneAtATime, Moves, Executing, InFlight
<1> QED
  BY <1>1, <1>2 DEF Leaving, Calls

(* start() up to the connections.                                           *)
LEMMA StartPrepares ==
  ASSUME LinkInv, StartBegin \/ StartFresh \/ StartConfigure \/ StartDiscover
  PROVE  Moves("start") /\ RuntimeTyped' /\ HostsKnown' /\ Leaving'
<1> USE DEF linkVars, discoveryVars
<1>1. /\ "start" \in Calls
      /\ {"begin", "fresh", "configure", "discover"} \subseteq Positions \ {"off", "ready"}
      /\ {"ready", "update", "fresh", "configure", "discover", "connect"} \subseteq Positions \ {"off"}
  BY DEF Calls, Positions
<1>2. TypeOK /\ RuntimeTyped /\ OneAtATime /\ HostsKnown /\ Leaving
      /\ UNCHANGED <<hosts, targets, live, monitor, terminated>>
  BY TypeParts DEF LinkInv, StartBegin, StartFresh, StartConfigure, StartDiscover
<1>3. /\ Moves("start") /\ task["start"].pc \notin {"launch", "hosts"}
      /\ task'["start"].pc \notin {"launch", "hosts"}
      /\ hosts = {} \/ (state' = state /\ task'["start"].pc \in {"update", "ready"})
  <2>1. CASE StartBegin /\ state = "Running"
    BY <1>1, <1>2, <2>1, GotoMoves DEF StartBegin
  <2>2. CASE StartBegin /\ state \in Busy
    <3>1. Goto("start", "begin", "ready") /\ state' = state
      BY <2>2 DEF StartBegin, Busy
    <3> QED
      BY <1>1, <1>2, <3>1, GotoMoves
  <2>3. CASE StartBegin /\ state \notin Busy \cup {"Running"}
    <3>1. Goto("start", "begin", "fresh")
      BY <2>3 DEF StartBegin
    <3>2. hosts = {}
      BY <1>2, <2>3 DEF RuntimeTyped, States, Busy, HostsKnown
    <3> QED
      BY <1>1, <1>2, <3>1, <3>2, GotoMoves
  <2>4. CASE StartFresh
    <3>1. Goto("start", "fresh", "configure")
      BY <2>4 DEF StartFresh
    <3> QED
      BY <1>1, <1>2, <3>1, GotoMoves DEF HostsKnown, Freshly
  <2>5. CASE StartConfigure
    <3>1. Goto("start", "configure", "discover") \/ Goto("start", "configure", "connect")
      BY <2>5 DEF StartConfigure
    <3> QED
      BY <1>1, <1>2, <3>1, GotoMoves DEF HostsKnown, Freshly
  <2>6. CASE StartDiscover
    <3>1. Goto("start", "discover", "ready") \/ Goto("start", "discover", "connect")
      BY <2>6 DEF StartDiscover
    <3> QED
      BY <1>1, <1>2, <3>1, GotoMoves DEF HostsKnown, Freshly
  <2> QED
    BY <2>1, <2>2, <2>3, <2>4, <2>5, <2>6
<1>4. \A j \in {"scan", "stop", "exit"} : task'[j] = task[j] /\ task[j].pc \in {"off", "ready"}
  BY <1>3, StartAlone
<1>5. HostsKnown'
  <2>1. live = hosts
    BY <1>2, <1>3, <1>4 DEF HostsKnown, NotStopping
  <2> QED
    BY <1>2, <1>3, <1>4, <2>1 DEF HostsKnown, NotStopping, Freshly
<1>6. RuntimeTyped'
  <2>1. task["start"].options \in OptionSets \cup {"none"}
    BY <1>1, <1>2, TypeParts DEF TaskRec
  <2>2. CASE StartBegin
    BY <1>2, <2>2 DEF RuntimeTyped, StartBegin, States
  <2>3. CASE StartFresh
    BY <1>2, <2>3 DEF RuntimeTyped, StartFresh
  <2>4. CASE StartConfigure
    BY <1>2, <2>1, <2>4 DEF RuntimeTyped, StartConfigure, States
  <2>5. CASE StartDiscover
    <3>1. \A found \in DiscoveryResults : found \subseteq Controllers
      BY RuntimeAssumption
    <3> QED
      BY <1>2, <2>5, <3>1 DEF RuntimeTyped, StartDiscover, States
  <2> QED
    BY <2>2, <2>3, <2>4, <2>5
<1> QED
  BY <1>3, <1>5, <1>6, StartAlone

(* The connections and the hosts of a fresh start().                        *)
LEMMA StartLaunches ==
  ASSUME LinkInv, StartConnect \/ (\E h \in Hosts : StartHost(h)) \/ StartPublish \/ StartMonitor
  PROVE  Moves("start") /\ RuntimeTyped' /\ HostsKnown' /\ Leaving'
<1> USE DEF linkVars, discoveryVars
<1>1. /\ "start" \in Calls
      /\ {"connect", "launch", "monitor"} \subseteq Positions \ {"off", "ready"}
      /\ {"ready", "launch", "monitor"} \subseteq Positions \ {"off"}
  BY DEF Calls, Positions
<1>2. TypeOK /\ RuntimeTyped /\ OneAtATime /\ HostsKnown /\ Leaving
  BY TypeParts DEF LinkInv
<1>3. task \in [Calls -> TaskRec] /\ task["start"] \in TaskRec
  BY <1>1, <1>2, TypeParts
<1>4. task["start"].want \subseteq Links /\ task["start"].made \subseteq Links
      /\ task["start"].options \in OptionSets \cup {"none"}
  BY <1>3 DEF TaskRec
<1>5. ASSUME Moves("start")
      PROVE  \A j \in {"scan", "stop", "exit"} : task'[j] = task[j] /\ task[j].pc \in {"off", "ready"}
  BY <1>5, StartAlone
<1>6. CASE StartConnect
  <2>1. UNCHANGED <<stopRequested, monitor, linkVars, discoveryVars, activeOptions, terminated>>
    BY <1>6 DEF StartConnect
  <2>2. PICK links \in Connected(task["start"].want, cache) :
          LET unknown == UnknownHost \in HostsOf(links)
          IN /\ At("start", "connect")
             /\ IF stopRequested \/ links = {} \/ unknown
                  THEN /\ Goto("start", "connect", "ready")
                       /\ state' = IF stopRequested THEN "Stopped" ELSE "Failed"
                  ELSE /\ task' = [task EXCEPT !["start"].pc = "launch",
                                               !["start"].want = links, !["start"].made = {}]
                       /\ UNCHANGED state
    BY <1>6 DEF StartConnect
  <2>3. links \subseteq Links
    BY <1>4, <2>2 DEF Connected
  <2> DEFINE r == [task["start"] EXCEPT !.pc = "launch", !.want = links, !.made = {}]
  <2>4. r \in TaskRec /\ r.pc = "launch" /\ r.made = {}
    BY <1>1, <1>3, <2>3 DEF TaskRec
  <2>5. CASE Goto("start", "connect", "ready") /\ state' \in {"Stopped", "Failed"}
    <3>1. Moves("start") /\ task["start"].pc = "connect" /\ task'["start"].pc = "ready"
      BY <1>1, <1>2, <2>5, GotoMoves
    <3>2. \A j \in {"scan", "stop", "exit"} : task'[j] = task[j] /\ task[j].pc \in {"off", "ready"}
      BY <1>5, <3>1
    <3>3. hosts = {} /\ live = {}
      BY <1>2, <3>1, <3>2 DEF HostsKnown, Freshly, NotStopping
    <3>4. HostsKnown'
      BY <1>2, <2>1, <3>1, <3>2, <3>3 DEF HostsKnown, Freshly, NotStopping
    <3>5. RuntimeTyped'
      BY <1>2, <2>1, <2>5 DEF RuntimeTyped, States
    <3> QED
      BY <3>1, <3>4, <3>5, StartAlone
  <2>6. CASE task' = [task EXCEPT !["start"] = r] /\ UNCHANGED state
    <3> HIDE DEF r
    <3>1. Moves("start") /\ task["start"].pc = "connect" /\ task'["start"] = r
      BY <1>1, <1>2, <2>2, <2>4, <2>6, RecordMoves
    <3>2. \A j \in {"scan", "stop", "exit"} : task'[j] = task[j] /\ task[j].pc \in {"off", "ready"}
      BY <1>5, <3>1
    <3>3. hosts = {} /\ live = {}
      BY <1>2, <3>1, <3>2 DEF HostsKnown, Freshly, NotStopping
    <3>4. HostsKnown'
      BY <1>2, <2>1, <2>4, <2>6, <3>1, <3>2, <3>3 DEF HostsKnown, Freshly, NotStopping
    <3>5. RuntimeTyped'
      BY <1>2, <2>1, <2>6 DEF RuntimeTyped
    <3> QED
      BY <3>1, <3>4, <3>5, StartAlone
  <2> QED
    BY <1>3, <2>2, <2>5, <2>6
<1>7. CASE \E h \in Hosts : StartHost(h)
  <2> DEFINE t == task["start"]
  <2>1. PICK h \in Hosts : StartHost(h)
    BY <1>7
  <2> DEFINE new == LinksOf(t.want, h)
             r == [t EXCEPT !.made = t.made \cup new]
  <2>2. /\ At("start", "launch")
        /\ \/ /\ live' = hosts /\ state' \in {"Failed", "Stopped"} /\ Goto("start", "launch", "ready")
           \/ /\ live' = live \cup new /\ UNCHANGED state /\ task' = [task EXCEPT !["start"] = r]
        /\ UNCHANGED <<stopRequested, monitor, hosts, targets, discoveryVars, activeOptions, terminated>>
    BY <1>3, <2>1 DEF StartHost
  <2>3. t.pc = "launch" /\ hosts = {} /\ live = t.made
    BY <1>2, <2>2 DEF At, HostsKnown, Freshly
  <2>4. new \subseteq Links
    BY <1>4 DEF LinksOf
  <2>5. r \in TaskRec /\ r.pc = "launch" /\ r.made = t.made \cup new
    BY <1>3, <1>4, <2>3, <2>4 DEF TaskRec
  <2> HIDE DEF new, r, t
  <2>6. CASE live' = hosts /\ state' \in {"Failed", "Stopped"} /\ Goto("start", "launch", "ready")
    <3>1. Moves("start") /\ task'["start"].pc = "ready"
      BY <1>1, <1>2, <2>6, GotoMoves
    <3>2. HostsKnown'
      BY <1>2, <1>5, <2>2, <2>3, <2>6, <3>1 DEF HostsKnown, Freshly, NotStopping
    <3>3. RuntimeTyped'
      BY <1>2, <2>2, <2>6 DEF RuntimeTyped, States
    <3> QED
      BY <3>1, <3>2, <3>3, StartAlone
  <2>7. CASE live' = live \cup new /\ UNCHANGED state /\ task' = [task EXCEPT !["start"] = r]
    <3>1. Moves("start") /\ task'["start"] = r
      BY <1>1, <1>2, <2>2, <2>5, <2>7, RecordMoves
    <3>2. HostsKnown'
      BY <1>2, <1>5, <2>2, <2>3, <2>5, <2>7, <3>1 DEF HostsKnown, Freshly, NotStopping
    <3>3. RuntimeTyped'
      BY <1>2, <2>2, <2>4, <2>7 DEF RuntimeTyped
    <3> QED
      BY <3>1, <3>2, <3>3, StartAlone
  <2> QED
    BY <2>2, <2>6, <2>7
<1>8. CASE StartPublish
  <2> DEFINE t == task["start"]
  <2>1. /\ Goto("start", "launch", "monitor") /\ live' = t.made /\ hosts' = t.made
        /\ targets' = ControllersOf(t.made) /\ activeOptions' = t.options /\ state' = "Running"
        /\ UNCHANGED <<stopRequested, monitor, discoveryVars, terminated>>
    BY <1>8 DEF StartPublish
  <2>2. Moves("start") /\ task'["start"].pc = "monitor"
    BY <1>1, <1>2, <2>1, GotoMoves
  <2>3. HostsKnown'
    BY <1>2, <1>5, <2>1, <2>2 DEF HostsKnown, Freshly, NotStopping, ControllersOf
  <2>4. targets' \subseteq Controllers
    BY <1>4, <2>1 DEF ControllersOf, Links
  <2>5. RuntimeTyped'
    BY <1>2, <1>4, <2>1, <2>4 DEF RuntimeTyped, States
  <2> QED
    BY <2>2, <2>3, <2>5, StartAlone
<1>9. CASE StartMonitor
  <2>1. /\ Goto("start", "monitor", "ready")
        /\ UNCHANGED <<state, stopRequested, linkVars, discoveryVars, activeOptions>>
    BY <1>9 DEF StartMonitor
  <2>2. Moves("start") /\ task["start"].pc = "monitor" /\ task'["start"].pc = "ready"
    BY <1>1, <1>2, <2>1, GotoMoves
  <2>3. HostsKnown'
    BY <1>2, <1>5, <2>1, <2>2 DEF HostsKnown, Freshly, NotStopping
  <2>4. RuntimeTyped'
    BY <1>2, <1>9 DEF RuntimeTyped, StartMonitor
  <2> QED
    BY <2>2, <2>3, <2>4, StartAlone
<1> QED
  BY <1>6, <1>7, <1>8, <1>9

(* start() as an update of a running link.                                  *)
LEMMA StartUpdates ==
  ASSUME LinkInv, UpdateOptions \/ UpdateConnect \/ UpdateApply \/ UpdateFails
  PROVE  Moves("start") /\ RuntimeTyped' /\ HostsKnown' /\ Leaving'
<1> USE DEF linkVars, discoveryVars
<1>1. /\ "start" \in Calls
      /\ {"update", "reconnect", "apply"} \subseteq Positions \ {"off", "ready"}
      /\ {"ready", "reconnect", "apply", "flag"} \subseteq Positions \ {"off"}
  BY DEF Calls, Positions
<1>2. TypeOK /\ RuntimeTyped /\ OneAtATime /\ HostsKnown /\ Leaving
  BY TypeParts DEF LinkInv
<1>3. task \in [Calls -> TaskRec] /\ task["start"] \in TaskRec
  BY <1>1, <1>2, TypeParts
<1>4. task["start"].want \subseteq Links /\ task["start"].options \in OptionSets \cup {"none"}
  BY <1>3 DEF TaskRec
<1>5. ASSUME Moves("start")
      PROVE  \A j \in {"scan", "stop", "exit"} : task'[j] = task[j] /\ task[j].pc \in {"off", "ready"}
  BY <1>5, StartAlone
(* The steps that only decide what comes next.                              *)
<1>6. ASSUME NEW from \in {"update", "reconnect"}, At("start", from),
             NEW r \in TaskRec, r.pc \in {"reconnect", "flag", "apply"},
             task' = [task EXCEPT !["start"] = r],
             UNCHANGED <<state, stopRequested, monitor, linkVars, discoveryVars, activeOptions, terminated>>
      PROVE  Moves("start") /\ RuntimeTyped' /\ HostsKnown' /\ Leaving'
  <2>1. Moves("start") /\ task["start"].pc = from /\ task'["start"] = r
    BY <1>1, <1>2, <1>6, RecordMoves
  <2>2. HostsKnown'
    BY <1>2, <1>5, <1>6, <2>1 DEF HostsKnown, Freshly, NotStopping
  <2>3. RuntimeTyped'
    BY <1>2, <1>6 DEF RuntimeTyped
  <2> QED
    BY <2>1, <2>2, <2>3, StartAlone
<1>7. CASE UpdateOptions
  <2> DEFINE a == [task["start"] EXCEPT !.pc = "reconnect"]
             b == [task["start"] EXCEPT !.pc = "flag", !.after = "begin"]
  <2>1. a \in TaskRec /\ a.pc = "reconnect" /\ b \in TaskRec /\ b.pc = "flag"
    BY <1>1, <1>3 DEF TaskRec
  <2>2. /\ At("start", "update")
        /\ task' = [task EXCEPT !["start"] = a] \/ task' = [task EXCEPT !["start"] = b]
        /\ UNCHANGED <<state, stopRequested, monitor, linkVars, discoveryVars, activeOptions, terminated>>
    BY <1>3, <1>7 DEF UpdateOptions
  <2> HIDE DEF a, b
  <2>3. CASE task' = [task EXCEPT !["start"] = a]
    BY <1>6, <2>1, <2>2, <2>3
  <2>4. CASE task' = [task EXCEPT !["start"] = b]
    BY <1>6, <2>1, <2>2, <2>4
  <2> QED
    BY <2>2, <2>3, <2>4
<1>8. CASE UpdateConnect
  <2> DEFINE kept == {l \in task["start"].want : l[2] \in targets}
  <2>1. PICK new \in Connected(task["start"].want \ kept, cache) :
          IF UnknownHost \in HostsOf(kept \cup new)
            THEN state' = "Failed" /\ Goto("start", "reconnect", "ready")
          ELSE IF kept \cup new = {}
            THEN /\ task' = [task EXCEPT !["start"].pc = "flag", !["start"].after = "ready"]
                 /\ UNCHANGED state
          ELSE /\ task' = [task EXCEPT !["start"].pc = "apply", !["start"].want = kept \cup new]
               /\ UNCHANGED state
    BY <1>8 DEF UpdateConnect
  <2>2. /\ At("start", "reconnect")
        /\ UNCHANGED <<stopRequested, monitor, linkVars, discoveryVars, activeOptions, terminated>>
    BY <1>8 DEF UpdateConnect
  <2>3. kept \cup new \subseteq Links
    <3>1. new \subseteq task["start"].want
      BY <2>1 DEF Connected
    <3> QED
      BY <1>4, <3>1
  <2> HIDE DEF kept
  <2>4. UnknownHost \notin HostsOf(kept \cup new)
    BY <2>3, RuntimeAssumption DEF HostsOf, Links
  <2> DEFINE a == [task["start"] EXCEPT !.pc = "flag", !.after = "ready"]
             b == [task["start"] EXCEPT !.pc = "apply", !.want = kept \cup new]
  <2>5. a \in TaskRec /\ a.pc = "flag" /\ b \in TaskRec /\ b.pc = "apply"
    BY <1>1, <1>3, <2>3 DEF TaskRec
  <2>6. /\ task' = [task EXCEPT !["start"] = a] \/ task' = [task EXCEPT !["start"] = b]
        /\ UNCHANGED state
    BY <1>3, <2>1, <2>4
  <2> HIDE DEF a, b
  <2>7. CASE task' = [task EXCEPT !["start"] = a]
    BY <1>6, <2>2, <2>5, <2>6, <2>7
  <2>8. CASE task' = [task EXCEPT !["start"] = b]
    BY <1>6, <2>2, <2>5, <2>6, <2>8
  <2> QED
    BY <2>6, <2>7, <2>8
<1>9. CASE UpdateApply \/ UpdateFails
  <2>1. PICK links \in SUBSET Links :
          /\ Goto("start", "apply", "ready")
          /\ live' = links /\ hosts' = links /\ targets' = ControllersOf(links)
          /\ state' = "Running" \/ (state' = "Failed" /\ links = {})
          /\ activeOptions' \in {activeOptions, task["start"].options}
          /\ UNCHANGED <<stopRequested, monitor, discoveryVars, terminated>>
    <3>1. ControllersOf({}) = {}
      BY DEF ControllersOf
    <3>2. CASE UpdateApply
      BY <1>4, <3>2 DEF UpdateApply
    <3>3. CASE UpdateFails
      BY <3>1, <3>3 DEF UpdateFails
    <3> QED
      BY <1>9, <3>2, <3>3
  <2>2. Moves("start") /\ task["start"].pc = "apply" /\ task'["start"].pc = "ready"
    BY <1>1, <1>2, <2>1, GotoMoves
  <2>3. HostsKnown'
    BY <1>2, <1>5, <2>1, <2>2 DEF HostsKnown, Freshly, NotStopping, ControllersOf
  <2>4. ControllersOf(links) \subseteq Controllers
    BY DEF ControllersOf, Links
  <2>5. RuntimeTyped'
    BY <1>2, <1>4, <2>1, <2>4 DEF RuntimeTyped, States
  <2> QED
    BY <2>2, <2>3, <2>5, StartAlone
<1> QED
  BY <1>7, <1>8, <1>9
-----------------------------------------------------------------------------
(* The steps of the runtime and of the frame loop *)

LEMMA RuntimeKeeps == ASSUME LinkInv, RuntimeStep PROVE LinkInv'
<1>1. UNCHANGED guiVars
  BY DEF RuntimeStep
<1>2. GuiTyped' /\ RoutesKnown'
  BY <1>1, TypeParts DEF LinkInv, GuiTyped, RoutesKnown, guiVars
<1>3. CASE \E k \in Calls : Moves(k) /\ RuntimeTyped' /\ HostsKnown' /\ Leaving'
  <2>1. PICK k \in Calls : Moves(k) /\ RuntimeTyped' /\ HostsKnown' /\ Leaving'
    BY <1>3
  <2>2. OneAtATime'
    BY <1>1, <2>1, MovesExclusive DEF LinkInv, guiVars
  <2>3. task' \in [Calls -> TaskRec]
    BY <2>1 DEF Moves
  <2>4. TypeOK'
    BY <1>2, <2>1, <2>3, TypePartsNext
  <2> QED
    BY <1>2, <2>1, <2>2, <2>4 DEF LinkInv
<1>4. CASE MonitorExit
  <2> USE <1>4 DEF MonitorExit, linkVars, discoveryVars
  <2>1. RuntimeTyped' /\ task' \in [Calls -> TaskRec]
    BY TypeParts DEF LinkInv, RuntimeTyped
  <2>2. TypeOK'
    BY <1>2, <2>1, TypePartsNext
  <2>3. OneAtATime' /\ HostsKnown'
    BY <1>1 DEF guiVars, LinkInv, OneAtATime, HostsKnown, NotStopping, InFlight, Executing
  <2>4. Leaving'
    BY DEF LinkInv, Leaving
  <2> QED
    BY <1>2, <2>2, <2>3, <2>4 DEF LinkInv
<1> QED
  BY <1>3, <1>4, ScanStep, StartPrepares, StartLaunches, StartUpdates, StopStep
     DEF RuntimeStep, CallStep, Start, Calls

(* What a call holds when it is launched.                                   *)
LEMMA NewTask ==
  ASSUME NEW want \in SUBSET Links, NEW o \in OptionSets \cup {"none"}
  PROVE  /\ [Idle EXCEPT !.pc = "begin", !.want = want, !.options = o] \in TaskRec
         /\ [Idle EXCEPT !.pc = "begin", !.want = want, !.options = o].pc = "begin"
         /\ [Idle EXCEPT !.pc = "begin", !.want = want, !.options = o].after = "ready"
         /\ [Idle EXCEPT !.pc = "begin", !.options = o] \in TaskRec
         /\ [Idle EXCEPT !.pc = "begin", !.options = o].pc = "begin"
         /\ [Idle EXCEPT !.pc = "begin", !.options = o].after = "ready"
         /\ [Idle EXCEPT !.pc = "flag"] \in TaskRec
         /\ [Idle EXCEPT !.pc = "flag"].pc = "flag"
         /\ [Idle EXCEPT !.pc = "flag"].after = "ready"
BY DEF Idle, TaskRec, Positions

LEMMA IdleTyped == Idle \in TaskRec /\ Idle.pc = "off" /\ Idle.after = "ready"
BY DEF Idle, TaskRec, Positions

LEMMA PollKeeps == ASSUME LinkInv, Poll PROVE LinkInv'
<1> USE DEF linkVars, discoveryVars
<1>1. /\ RuntimeTyped /\ GuiTyped /\ task \in [Calls -> TaskRec] /\ gui = "poll" /\ gui' = "act"
      /\ OneAtATime /\ HostsKnown /\ Leaving
  BY TypeParts DEF LinkInv, Poll, Frame
<1>2. UNCHANGED <<state, stopRequested, monitor, linkVars, discoveryVars, activeOptions, terminated, options, actions>>
  BY DEF Poll
<1>3. task' = [k \in Calls |-> IF task[k].pc = "ready" THEN Idle ELSE task[k]]
  BY DEF Poll, Collect
<1>4. task' \in [Calls -> TaskRec]
  BY <1>1, <1>3, IdleTyped
<1>5. \A k \in Calls : task'[k] = task[k] \/ (task[k].pc = "ready" /\ task'[k] = Idle)
  BY <1>3
<1>6. RuntimeTyped'
  BY <1>1, <1>2 DEF RuntimeTyped
<1>7. GuiTyped' /\ RoutesKnown'
  <2>1. /\ defaultHost' \in Hosts /\ \A c \in DOMAIN route' : route'[c] \in Hosts
        /\ DOMAIN route' \subseteq Controllers /\ enabled' \subseteq Controllers
    BY <1>1, GuiAssumption DEF Poll, Prune, GuiTyped
  <2>2. shown' \in [state : States, discovered : SUBSET Controllers, targets : SUBSET Controllers]
    BY <1>1 DEF Poll, Collect, RuntimeTyped
  <2>3. pending' \in BOOLEAN /\ rescan' \in BOOLEAN
    BY DEF Poll, Collect
  <2> QED
    BY <1>1, <1>2, <2>1, <2>2, <2>3 DEF GuiTyped, RoutesKnown
<1>8. OneAtATime'
  BY <1>1, <1>5, IdleTyped DEF OneAtATime, InFlight, Executing, Calls
<1>9. HostsKnown' /\ Leaving'
  BY <1>1, <1>2, <1>5, IdleTyped DEF HostsKnown, Leaving, NotStopping, Freshly, Calls
<1> QED
  BY <1>4, <1>6, <1>7, <1>8, <1>9, TypePartsNext DEF LinkInv

(* A step of the frame loop that leaves the calls and the runtime's hosts   *)
(* as they are.                                                             *)
LEMMA LoopKeeps ==
  ASSUME LinkInv, UNCHANGED <<task, hosts, targets, live, monitor>>,
         state' = state \/ state' = "StopRequested",
         gui' = "gone" => task["exit"].pc = "ready",
         InFlight("exit") => gui' \in {"stopping", "gone"}
  PROVE  OneAtATime' /\ HostsKnown' /\ Leaving'
<1>1. OneAtATime'
  BY DEF LinkInv, OneAtATime, InFlight, Executing
<1>2. HostsKnown' /\ Leaving'
  BY DEF LinkInv, HostsKnown, Leaving, NotStopping, Freshly
<1> QED
  BY <1>1, <1>2

(* A step that launches call k when no call is in flight.                   *)
LEMMA LaunchKeeps ==
  ASSUME LinkInv, NEW k \in {"scan", "start", "stop"}, NothingInFlight, gui' \in {"poll", "act"},
         gui \in {"poll", "act"},
         NEW r \in TaskRec, r.pc \in {"begin", "flag"}, r.after = "ready", task' = [task EXCEPT ![k] = r],
         UNCHANGED <<state, hosts, targets, live, monitor>>
  PROVE  OneAtATime' /\ HostsKnown' /\ Leaving' /\ task' \in [Calls -> TaskRec]
<1>1. task \in [Calls -> TaskRec]
  BY TypeParts DEF LinkInv
<1>2. k \in Calls /\ task'[k] = r /\ \A j \in Calls : j # k => task'[j] = task[j]
  BY <1>1 DEF Calls
<1>3. \A j \in {"scan", "start", "stop"} : task[j].pc = "off"
  BY DEF NothingInFlight, InFlight
<1>4. task["exit"].pc = "off"
  BY DEF LinkInv, OneAtATime, InFlight
<1>5. OneAtATime'
  BY <1>2, <1>3, <1>4 DEF LinkInv, OneAtATime, InFlight, Executing, Calls
<1>6. HostsKnown' /\ Leaving'
  BY <1>2, <1>3, <1>4 DEF LinkInv, HostsKnown, Leaving, NotStopping, Freshly, Calls
<1> QED
  BY <1>1, <1>5, <1>6

LEMMA SyncKeeps ==
  ASSUME LinkInv, UserActs, RequestSync
  PROVE  /\ OneAtATime' /\ HostsKnown' /\ Leaving' /\ RuntimeTyped' /\ task' \in [Calls -> TaskRec]
         /\ pending' \in BOOLEAN /\ gui = "act" /\ gui' \in {"act", "request"}
<1> USE DEF linkVars, discoveryVars
<1>1. RuntimeTyped /\ task \in [Calls -> TaskRec] /\ gui = "act" /\ ~InFlight("exit")
  BY TypeParts DEF LinkInv, OneAtATime, UserActs, Frame
<1>2. /\ UNCHANGED <<task, hosts, targets, live, monitor, state, terminated, discoveryVars, activeOptions>>
      /\ stopRequested' \in BOOLEAN /\ pending' \in BOOLEAN /\ gui' \in {"act", "request"}
  BY <1>1 DEF RequestSync, RuntimeTyped
<1>3. RuntimeTyped'
  BY <1>1, <1>2 DEF RuntimeTyped
<1>4. OneAtATime' /\ HostsKnown' /\ Leaving'
  BY <1>1, <1>2, LoopKeeps
<1> QED
  BY <1>1, <1>2, <1>3, <1>4

LEMMA UserKeeps == ASSUME LinkInv, UserAction PROVE LinkInv'
<1> USE DEF linkVars, discoveryVars
<1>1. /\ RuntimeTyped /\ GuiTyped /\ task \in [Calls -> TaskRec] /\ gui = "act" /\ ~InFlight("exit")
      /\ RoutesKnown /\ actions \in 0..MaxUserActions /\ actions' \in 0..MaxUserActions
  <2>1. UserActs
    BY DEF UserAction, TogglePower, ChangeRoute, ChangeDefault, StartOrStopAll, RescanClicked, ChangeSettings
  <2>2. RuntimeTyped /\ GuiTyped /\ task \in [Calls -> TaskRec] /\ gui = "act" /\ RoutesKnown
    BY <2>1, TypeParts DEF LinkInv, UserActs, Frame
  <2>3. ~InFlight("exit")
    BY <2>2 DEF LinkInv, OneAtATime
  <2>4. actions \in 0..MaxUserActions /\ actions > 0 /\ actions' = actions - 1 /\ MaxUserActions \in Nat
    BY <2>1, <2>2, GuiAssumption DEF UserActs, GuiTyped
  <2>5. actions' \in 0..MaxUserActions
    BY <2>4
  <2> QED
    BY <2>2, <2>3, <2>4, <2>5
<1>2. ASSUME NEW c \in Controllers, TogglePower(c) PROVE LinkInv'
  <2>1. /\ OneAtATime' /\ HostsKnown' /\ Leaving' /\ RuntimeTyped' /\ task' \in [Calls -> TaskRec]
        /\ pending' \in BOOLEAN /\ gui' \in {"act", "request"}
    BY <1>2, SyncKeeps DEF TogglePower
  <2>2. enabled' \subseteq Controllers /\ UNCHANGED <<shown, rescan, route, defaultHost, options>>
    BY <1>1, <1>2 DEF TogglePower, GuiTyped
  <2>3. GuiTyped' /\ RoutesKnown'
    BY <1>1, <2>1, <2>2 DEF GuiTyped, RoutesKnown
  <2> QED
    BY <2>1, <2>3, TypePartsNext DEF LinkInv
<1>3. ASSUME NEW c \in Controllers, NEW h \in Hosts, ChangeRoute(c, h) PROVE LinkInv'
  <2>1. /\ OneAtATime' /\ HostsKnown' /\ Leaving' /\ RuntimeTyped' /\ task' \in [Calls -> TaskRec]
        /\ pending' \in BOOLEAN /\ gui' \in {"act", "request"}
    BY <1>3, SyncKeeps DEF ChangeRoute
  <2>2. UNCHANGED <<shown, rescan, enabled, defaultHost, options>>
    BY <1>3 DEF ChangeRoute
  <2>3. DOMAIN route' \subseteq Controllers /\ \A d \in DOMAIN route' : route'[d] \in Hosts
    BY <1>1, <1>3 DEF ChangeRoute, GuiTyped, RoutesKnown
  <2>4. GuiTyped' /\ RoutesKnown'
    BY <1>1, <2>1, <2>2, <2>3 DEF GuiTyped, RoutesKnown
  <2> QED
    BY <2>1, <2>4, TypePartsNext DEF LinkInv
<1>4. ASSUME (\E h \in Hosts : ChangeDefault(h)) \/ StartOrStopAll PROVE LinkInv'
  <2>1. /\ UNCHANGED <<runtimeVars, gui, shown, rescan, route, options>>
        /\ pending' = TRUE /\ defaultHost' \in Hosts \cup {defaultHost} /\ enabled' \subseteq Controllers
    BY <1>1, <1>4 DEF ChangeDefault, StartOrStopAll, GuiTyped
  <2>2. RuntimeTyped' /\ task' \in [Calls -> TaskRec]
    BY <1>1, <2>1 DEF RuntimeTyped, runtimeVars
  <2>3. GuiTyped' /\ RoutesKnown'
    BY <1>1, <2>1 DEF GuiTyped, RoutesKnown
  <2>4. OneAtATime' /\ HostsKnown' /\ Leaving'
    BY <1>1, <2>1, LoopKeeps DEF runtimeVars
  <2> QED
    BY <2>2, <2>3, <2>4, TypePartsNext DEF LinkInv
<1>5. ASSUME RescanClicked PROVE LinkInv'
  <2>1. /\ NothingInFlight /\ gui' = gui
        /\ UNCHANGED <<state, stopRequested, monitor, linkVars, discovered, hasResults, systemOptions,
                       activeOptions, terminated, shown, enabled, route, defaultHost, options>>
        /\ rescan' \in BOOLEAN /\ pending' \in BOOLEAN /\ cache' \subseteq Controllers
        /\ \/ UNCHANGED task
           \/ task' = [task EXCEPT !["scan"] = [Idle EXCEPT !.pc = "begin", !.want = {}, !.options = options]]
    BY <1>1, <1>5 DEF RescanClicked, GuiTyped, RuntimeTyped, Launched
  <2>2. GuiTyped' /\ RoutesKnown'
    BY <1>1, <2>1 DEF GuiTyped, RoutesKnown
  <2>3. RuntimeTyped'
    BY <1>1, <2>1 DEF RuntimeTyped
  <2>4. OneAtATime' /\ HostsKnown' /\ Leaving' /\ task' \in [Calls -> TaskRec]
    <3>1. CASE UNCHANGED task
      BY <1>1, <2>1, <3>1, LoopKeeps
    <3> DEFINE r == [Idle EXCEPT !.pc = "begin", !.want = {}, !.options = options]
    <3>2. CASE task' = [task EXCEPT !["scan"] = r]
      <4>1. r \in TaskRec /\ r.pc = "begin" /\ r.after = "ready"
        <5>1. options \in OptionSets \cup {"none"} /\ {} \in SUBSET Links
          BY <1>1 DEF GuiTyped
        <5> QED
          BY <5>1, NewTask
      <4> HIDE DEF r
      <4> QED
        BY <1>1, <2>1, <3>2, <4>1, LaunchKeeps
    <3> QED
      BY <2>1, <3>1, <3>2
  <2> QED
    BY <2>2, <2>3, <2>4, TypePartsNext DEF LinkInv
<1>6. ASSUME NEW o \in OptionSets, ChangeSettings(o) PROVE LinkInv'
  <2>1. /\ UNCHANGED <<state, monitor, linkVars, discoveryVars, activeOptions, terminated,
                       shown, enabled, route, defaultHost>>
        /\ options' = o /\ pending' \in BOOLEAN /\ rescan' \in BOOLEAN /\ stopRequested' \in BOOLEAN
        /\ gui' \in {"act", "request"}
        /\ \/ UNCHANGED task
           \/ /\ NothingInFlight /\ gui' = gui
              /\ task' = [task EXCEPT !["scan"] = [Idle EXCEPT !.pc = "begin", !.options = o]]
    <3>1. pending' \in BOOLEAN /\ rescan' \in BOOLEAN
      <4>1. (pending' = TRUE \/ pending' = FALSE) /\ (rescan' = rescan \/ rescan' = LinkRunning)
        BY <1>6 DEF ChangeSettings
      <4>2. rescan \in BOOLEAN /\ LinkRunning \in BOOLEAN
        BY <1>1 DEF GuiTyped, LinkRunning
      <4> QED
        BY <4>1, <4>2
    <3>2. stopRequested' \in BOOLEAN /\ gui' \in {"act", "request"}
      BY <1>1, <1>6 DEF ChangeSettings, RuntimeTyped
    <3>3. \/ UNCHANGED task
          \/ /\ NothingInFlight /\ gui' = gui
             /\ task' = [task EXCEPT !["scan"] = [Idle EXCEPT !.pc = "begin", !.options = o]]
      BY <1>6 DEF ChangeSettings
    <3> QED
      BY <1>6, <3>1, <3>2, <3>3 DEF ChangeSettings
  <2>2. GuiTyped' /\ RoutesKnown'
    BY <1>1, <2>1 DEF GuiTyped, RoutesKnown
  <2>3. RuntimeTyped'
    BY <1>1, <2>1 DEF RuntimeTyped
  <2>4. OneAtATime' /\ HostsKnown' /\ Leaving' /\ task' \in [Calls -> TaskRec]
    <3>1. CASE UNCHANGED task
      BY <1>1, <2>1, <3>1, LoopKeeps
    <3> DEFINE r == [Idle EXCEPT !.pc = "begin", !.options = o]
    <3>2. CASE NothingInFlight /\ gui' = gui /\ task' = [task EXCEPT !["scan"] = r]
      <4>1. r \in TaskRec /\ r.pc = "begin" /\ r.after = "ready"
        BY NewTask
      <4> HIDE DEF r
      <4> QED
        BY <1>1, <2>1, <3>2, <4>1, LaunchKeeps
    <3> QED
      BY <2>1, <3>1, <3>2
  <2> QED
    BY <2>2, <2>3, <2>4, TypePartsNext DEF LinkInv
<1> QED
  BY <1>2, <1>3, <1>4, <1>5, <1>6 DEF UserAction

LEMMA RequestKeeps == ASSUME LinkInv, RequestState \/ Close \/ CloseDone PROVE LinkInv'
<1> USE DEF linkVars, discoveryVars, runtimeVars
<1>1. RuntimeTyped /\ GuiTyped /\ task \in [Calls -> TaskRec] /\ RoutesKnown /\ OneAtATime
  BY TypeParts DEF LinkInv
<1>2. /\ UNCHANGED <<monitor, hosts, targets, live, discoveryVars, activeOptions, task, terminated,
                     shown, pending, rescan, enabled, route, defaultHost, options, actions>>
      /\ state' = state \/ state' = "StopRequested"
      /\ stopRequested' \in BOOLEAN
      /\ \/ gui = "request" /\ gui' = "act"
         \/ gui = "closeState" /\ gui' = "waiting"
         \/ gui = "poll" /\ gui' = "closeState"
         \/ gui = "stopping" /\ gui' = "gone" /\ task["exit"].pc = "ready"
  BY <1>1 DEF RequestState, Close, CloseDone, RequestStopState, Frame, RuntimeTyped
<1>3. RuntimeTyped'
  BY <1>1, <1>2 DEF RuntimeTyped, States
<1>4. GuiTyped' /\ RoutesKnown'
  BY <1>1, <1>2 DEF GuiTyped, RoutesKnown
<1>5. OneAtATime' /\ HostsKnown' /\ Leaving'
  <2>1. InFlight("exit") => gui' \in {"stopping", "gone"}
    BY <1>1, <1>2 DEF OneAtATime
  <2> QED
    BY <1>2, <2>1, LoopKeeps
<1> QED
  BY <1>1, <1>2, <1>3, <1>4, <1>5, TypePartsNext DEF LinkInv

LEMMA DispatchKeeps == ASSUME LinkInv, Dispatch PROVE LinkInv'
<1> USE DEF linkVars, discoveryVars
<1>1. /\ RuntimeTyped /\ GuiTyped /\ task \in [Calls -> TaskRec] /\ gui = "act" /\ gui' = "poll"
      /\ RoutesKnown
  BY TypeParts DEF LinkInv, Dispatch, Frame
<1>2. ~InFlight("exit")
  BY <1>1 DEF LinkInv, OneAtATime
<1>3. UNCHANGED <<state, stopRequested, monitor, linkVars, discoveryVars, activeOptions,
                  terminated, shown, enabled, route, defaultHost, options, actions>>
  BY DEF Dispatch
<1> DEFINE want == {<<HostFor(c), c>> : c \in SelectedLinkableIds(enabled)}
           s == [Idle EXCEPT !.pc = "flag"]
           b == [Idle EXCEPT !.pc = "begin", !.want = want, !.options = options]
<1>4. want \in SUBSET Links
  <2>1. \A c \in SelectedLinkableIds(enabled) : c \in Controllers
    BY <1>1 DEF SelectedLinkableIds, GuiTyped
  <2>2. \A c \in Controllers : HostFor(c) \in Hosts
    BY <1>1 DEF HostFor, RoutesKnown
  <2> QED
    BY <2>1, <2>2 DEF Links
<1>5. /\ pending' \in BOOLEAN /\ rescan' \in BOOLEAN
      /\ \/ UNCHANGED task
         \/ NothingInFlight /\ task' = [task EXCEPT !["stop"] = s]
         \/ NothingInFlight /\ task' = [task EXCEPT !["start"] = b]
  BY <1>1 DEF Dispatch, DispatchReady, Launched, LaunchedStop, GuiTyped
<1>6. b \in TaskRec /\ b.pc = "begin" /\ b.after = "ready" /\ s \in TaskRec /\ s.pc = "flag" /\ s.after = "ready"
  <2> HIDE DEF want
  <2> QED
    BY <1>1, <1>4, NewTask, ZenonT(40) DEF GuiTyped
<1> HIDE DEF want, b, s
<1>7. OneAtATime' /\ HostsKnown' /\ Leaving' /\ task' \in [Calls -> TaskRec]
  <2>1. CASE UNCHANGED task
    BY <1>1, <1>2, <1>3, <2>1, LoopKeeps
  <2>2. CASE NothingInFlight /\ task' = [task EXCEPT !["stop"] = s]
    BY <1>1, <1>3, <1>6, <2>2, LaunchKeeps
  <2>3. CASE NothingInFlight /\ task' = [task EXCEPT !["start"] = b]
    BY <1>1, <1>3, <1>6, <2>3, LaunchKeeps
  <2> QED
    BY <1>5, <2>1, <2>2, <2>3
<1>8. RuntimeTyped'
  BY <1>1, <1>3 DEF RuntimeTyped
<1>9. GuiTyped' /\ RoutesKnown'
  BY <1>1, <1>3, <1>5 DEF GuiTyped, RoutesKnown
<1> QED
  BY <1>7, <1>8, <1>9, TypePartsNext DEF LinkInv

(* The shutdown's stop() begins when every future has been waited for.      *)
LEMMA CloseWaitKeeps == ASSUME LinkInv, CloseWait PROVE LinkInv'
<1> USE DEF linkVars, discoveryVars
<1>1. /\ RuntimeTyped /\ GuiTyped /\ task \in [Calls -> TaskRec] /\ gui = "waiting" /\ gui' = "stopping"
      /\ OneAtATime /\ HostsKnown
      /\ \A k \in {"scan", "start", "stop"} : task[k].pc \in {"off", "ready"}
  BY TypeParts DEF LinkInv, CloseWait, Frame
<1>2. UNCHANGED <<state, stopRequested, monitor, linkVars, discoveryVars, activeOptions, terminated,
                  shown, pending, rescan, enabled, route, defaultHost, options, actions>>
  BY DEF CloseWait
<1> DEFINE s == [Idle EXCEPT !.pc = "flag"]
<1>3. task' = [task EXCEPT !["exit"] = s] /\ s \in TaskRec /\ s.pc = "flag" /\ s.after = "ready"
  BY NewTask DEF CloseWait, LaunchedStop, Idle, TaskRec, Positions
<1> HIDE DEF s
<1>4. /\ task' \in [Calls -> TaskRec] /\ task'["exit"] = s
      /\ \A j \in {"scan", "start", "stop"} : task'[j] = task[j]
  BY <1>1, <1>3 DEF Calls
<1>5. task["exit"].pc = "off"
  BY <1>1 DEF OneAtATime, InFlight
<1>6. OneAtATime'
  BY <1>1, <1>3, <1>4 DEF OneAtATime, InFlight, Executing
<1>7. HostsKnown' /\ Leaving'
  BY <1>1, <1>2, <1>3, <1>4, <1>5 DEF HostsKnown, Leaving, NotStopping, Freshly
<1>8. RuntimeTyped'
  BY <1>1, <1>2 DEF RuntimeTyped
<1>9. GuiTyped' /\ RoutesKnown'
  BY <1>1, <1>2 DEF GuiTyped, RoutesKnown
<1> QED
  BY <1>4, <1>6, <1>7, <1>8, <1>9, TypePartsNext DEF LinkInv

LEMMA LinkInit == Init => LinkInv
<1> SUFFICES ASSUME Init PROVE LinkInv
  OBVIOUS
<1>1. options \in OptionSets
  BY DEF Init
<1> DEFINE b == [Idle EXCEPT !.pc = "begin", !.options = options]
<1>2. b \in TaskRec /\ b.pc = "begin" /\ b.after = "ready"
  BY <1>1, NewTask
<1>3. task = [k \in Calls |-> IF k = "scan" THEN b ELSE Idle]
  BY DEF Init
<1> HIDE DEF b
<1>4. /\ task \in [Calls -> TaskRec] /\ task["scan"].pc = "begin" /\ task["scan"].after = "ready"
      /\ \A k \in {"start", "stop", "exit"} : task[k].pc = "off" /\ task[k].after = "ready"
  BY <1>2, <1>3, IdleTyped DEF Calls
<1>5. RuntimeTyped
  BY DEF Init, RuntimeInit, RuntimeTyped, States
<1>6. GuiTyped
  <2>1. PICK D \in SUBSET Controllers : route \in [D -> Hosts \cup {UnknownHost}]
    BY GuiAssumption DEF Init
  <2>2. DOMAIN route \subseteq Controllers /\ \A c \in DOMAIN route : route[c] \in Hosts \cup {UnknownHost}
    BY <2>1
  <2>3. shown \in [state : States, discovered : SUBSET Controllers, targets : SUBSET Controllers]
    BY DEF Init, States
  <2>4. actions \in 0..MaxUserActions
    BY GuiAssumption DEF Init
  <2> QED
    BY <2>2, <2>3, <2>4, GuiAssumption DEF Init, GuiTyped
<1>7. OneAtATime /\ RoutesKnown
  BY <1>4 DEF Init, OneAtATime, RoutesKnown, InFlight, Executing
<1>8. HostsKnown /\ Leaving
  BY <1>4 DEF Init, RuntimeInit, HostsKnown, Leaving, NotStopping, Freshly, ControllersOf
<1> QED
  BY <1>4, <1>5, <1>6, <1>7, <1>8, TypeParts DEF LinkInv

LEMMA LinkStep == LinkInv /\ [Next]_vars => LinkInv'
<1> SUFFICES ASSUME LinkInv, [Next]_vars PROVE LinkInv'
  OBVIOUS
<1>1. CASE UNCHANGED vars
  <2> USE <1>1 DEF vars, guiVars, runtimeVars, linkVars, discoveryVars
  <2>1. RuntimeTyped /\ GuiTyped /\ task \in [Calls -> TaskRec] /\ RoutesKnown /\ OneAtATime
    BY TypeParts DEF LinkInv
  <2>2. RuntimeTyped' /\ GuiTyped' /\ task' \in [Calls -> TaskRec] /\ RoutesKnown'
    BY <2>1 DEF RuntimeTyped, GuiTyped, RoutesKnown
  <2>3. OneAtATime' /\ HostsKnown' /\ Leaving'
    BY <2>1, LoopKeeps DEF OneAtATime
  <2> QED
    BY <2>2, <2>3, TypePartsNext DEF LinkInv
<1> QED
  BY <1>1, RuntimeKeeps, PollKeeps, UserKeeps, RequestKeeps, DispatchKeeps, CloseWaitKeeps
     DEF Next, GuiStep

LEMMA LinkInvariant == Spec => []LinkInv
BY LinkInit, LinkStep, PTL DEF Spec
-----------------------------------------------------------------------------
(* Two calls of the runtime never execute at the same time, however the     *)
(* clicks, the polls of the futures and the closing of the window           *)
(* interleave.                                                              *)
THEOREM CallsAreExclusive == Spec => []CallsExclusive
<1>1. LinkInv => CallsExclusive
  BY OnlyOne DEF LinkInv, CallsExclusive
<1> QED
  BY <1>1, LinkInvariant, PTL

(* In any order of clicks, scans, starts, updates, failures and stops no    *)
(* host is started that the settings may not name, at rest the runtime      *)
(* knows of every host that serves, and a closed window leaves neither a    *)
(* host nor the monitor thread.                                             *)
THEOREM LinkIsConsistent == Spec => []LinkConsistent
<1>1. ASSUME LinkInv PROVE LinkConsistent
  <2>1. TypeOK /\ OneAtATime /\ HostsKnown /\ Leaving
    BY <1>1 DEF LinkInv
  <2>2. HostsAccountedFor
    <3> SUFFICES ASSUME AtRest
                 PROVE  live = hosts /\ targets = ControllersOf(hosts) /\ (state = "Stopped" => live = {})
      BY DEF HostsAccountedFor
    <3>1. \A k \in Calls : task[k].pc \in {"off", "ready"}
      BY DEF AtRest, Executing
    <3>2. live = hosts
      BY <2>1, <3>1 DEF HostsKnown, NotStopping, Calls
    <3> QED
      BY <2>1, <3>2 DEF HostsKnown
  <2>3. ShutdownReleasesAll
    <3> SUFFICES ASSUME gui = "gone" PROVE live = {} /\ targets = {} /\ monitor = "none"
      BY DEF ShutdownReleasesAll
    <3>1. task["exit"].pc = "ready" /\ \A k \in {"scan", "start", "stop"} : ~Executing(k)
      BY <2>1 DEF OneAtATime, InFlight
    <3>2. hosts = {} /\ monitor = "none"
      BY <2>1, <3>1 DEF Leaving
    <3>3. live = hosts /\ targets = ControllersOf(hosts)
      BY <2>1, <3>1 DEF HostsKnown, NotStopping, Executing
    <3> QED
      BY <3>2, <3>3 DEF ControllersOf
  <2> QED
    BY <2>1, <2>2, <2>3 DEF LinkConsistent
<1> QED
  BY <1>1, LinkInvariant, PTL
=============================================================================
