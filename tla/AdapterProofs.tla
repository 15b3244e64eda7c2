---------------------------- MODULE AdapterProofs ----------------------------
(***************************************************************************)
(* Theorems about Adapter, for any buses, ports, numbers of threads,       *)
(* failures, starts and moves, and whether or not building a model throws. *)
(* Once it has thrown, only the types are claimed: until then the threads, *)
(* the locks and the ports are under control, and as long as no bus has    *)
(* been moved, buses are assigned to the ports where they are.             *)
(*                                                                         *)
(* The last part proves that the adapter uses its ports and its buses as   *)
(* PortSearch and BusConnection allow, and counts on no more than these,   *)
(* which Port and Bus are proved to implement.                             *)
(***************************************************************************)
EXTENDS Adapter, PortFinderPlanProofs

\* Buses are plugged into ports which they list: others are never looked for there,
\* and what is found instead of them may be a mistake.
PluggedWhereListed ==
  \A p \in Ports : Plugged[p] # NoBus => p \in possible_serial_ports[Plugged[p]]

-----------------------------------------------------------------------------
(* The invariant                                                           *)

MainLabels == {"idle", "add buses", "started", "stopping", "stop buses",
               "clear ports", "new plan", "reset"}
WorkerLabels == {"idle", "confirm", "confirmed", "add bus", "build model",
                 "cancel", "unassign", "reset port", "unassigned"}
StopLabels == {"stopping", "stop buses", "clear ports", "new plan", "reset"}

\* From its confirmation until it is unassigned, who is about a bus in these places
\* is about the one which is assigned to the port
AssignedLabels == {"confirmed", "add bus", "cancel", "unassign", "reset port"}
CallbackLabels == {"confirm", "confirmed", "add bus", "build model"}
AddingLabels == {"add bus", "build model"}

Live == Workers \ outdated

\* What the variables of the threads and of the adapter are
Shapes ==
  /\ pc \in [Threads -> Labels]
  /\ pc[main] \in MainLabels
  /\ \A t \in Workers : pc[t] \in WorkerLabels
  /\ job \in [Threads -> Candidates \cup {NoBus}]
  /\ \A t \in Workers : pc[t] # "idle" => job[t] \in Candidates
  /\ todo \in [Threads -> SUBSET Candidates]
  /\ callbacks \subseteq Workers /\ outdated \subseteq Workers
  /\ ports \subseteq Ports
  /\ search_thread \in [Ports -> {"ended", "runs", "empty", "leaves", "joined"}]
  /\ searching \in [Ports -> Seq(Buses)]
  /\ \A p \in Ports : searching[p] # <<>> => search_thread[p] \in {"runs", "empty"}
  /\ missed \in [Ports -> SUBSET Buses]
  /\ found \in [Ports -> BOOLEAN]
  /\ trying \in [Ports -> Buses \cup {NoBus}]
  /\ buses \in [Ports -> Buses \cup {NoBus}]
  /\ buses_copy \subseteq Candidates /\ up \subseteq Candidates
  /\ ports_locked \in BOOLEAN /\ stopping \in BOOLEAN /\ stopping_locked \in BOOLEAN
  /\ throwing \subseteq Workers /\ thrown \in BOOLEAN
  /\ plugged \in [Ports -> Buses \cup {NoBus}]
  /\ \A p \in Ports : trying[p] # NoBus => searching[p] # <<>> /\ search_thread[p] = "runs"
  /\ derailed \in {"no", "end()", "outdated"}

\* What has happened so far
History ==
  /\ failures \in 0 .. MaxFailures /\ starts \in 0 .. MaxStarts
  /\ moves \in 0 .. MaxMoves /\ (moves = 0 => plugged = Plugged)
  /\ ~ thrown => throwing = {}
  /\ thrown => ThrowsLate

Types == PlanTypeOK /\ Shapes /\ History

\* Where callbacks, and threads that have survived a stop, may be
ThreadInv ==
  /\ \A t \in Workers : pc[t] = "idle" => t \notin callbacks /\ t \notin outdated
  /\ \A t \in Workers : pc[t] \in CallbackLabels => t \in callbacks
  /\ \A t \in outdated :
       \/ pc[t] \in {"unassign", "reset port", "unassigned"}
       \/ PlanReset /\ pc[t] \in {"confirm", "confirmed"}
  /\ \A t \in Threads :
       pc[t] \notin {"add buses", "confirmed", "unassigned"} => todo[t] = {}

\* The locks, and what a stop has achieved by and by
StopInv ==
  /\ stopping <=> pc[main] \in StopLabels
  /\ pc[main] = "clear ports" => ports_locked
  /\ \A t \in Workers : pc[t] \in AddingLabels => stopping_locked /\ ~ stopping
  /\ \A t, u \in Workers :
       pc[t] \in AddingLabels /\ pc[u] \in AddingLabels => t = u
  /\ pc[main] \in {"clear ports", "new plan", "reset", "idle"} =>
       up = {} /\ buses_copy = {} /\ \A t \in Workers : pc[t] # "cancel"
  /\ pc[main] \in {"stop buses", "clear ports", "new plan", "reset", "idle"} =>
       \A p \in Ports : buses[p] = NoBus
  /\ PlanReset =>
       known = {} /\ \A t \in Workers : pc[t] # "idle" => t \in outdated

\* buses_, or the copy of it, contains the buses that are running or about to be
\* cancelled
BusesInv ==
  /\ \A t \in Workers : pc[t] = "add bus" => buses[job[t][2]] = job[t][1]
  /\ pc[main] = "stop buses" =>
       /\ up \subseteq buses_copy
       /\ \A t \in Workers : pc[t] = "cancel" => job[t] \in buses_copy
  /\ pc[main] # "stop buses" =>
       /\ \A c \in up : buses[c[2]] = c[1]
       /\ \A t \in Workers : pc[t] = "cancel" => buses[job[t][2]] = job[t][1]

\* A port searches if it has not found anything.
TurnsInv ==
  \A p \in Ports :
    /\ p \notin ports =>
         /\ search_thread[p] = "ended" /\ searching[p] = <<>>
         /\ trying[p] = NoBus /\ ~ found[p]
    /\ found[p] => search_thread[p] = "ended" /\ searching[p] = <<>>
    /\ trying[p] # NoBus =>
         /\ search_thread[p] = "runs"
         /\ searching[p] # <<>> /\ searching[p][1] = trying[p]
         /\ ~ PlanReset => assigned[p] = NoBus /\ trying[p] \in On(known, p)

\* Between finding a bus and confirming it
ConfirmingInv ==
  /\ \A t \in Live : pc[t] = "confirm" =>
       /\ job[t][1] \in On(known, job[t][2])
       /\ assigned[job[t][2]] = NoBus /\ found[job[t][2]]
  /\ \A t, u \in Live :
       pc[t] = "confirm" /\ pc[u] = "confirm" /\ job[t][2] = job[u][2] => t = u
  /\ \A p \in Ports : ~ PlanReset /\ found[p] /\ assigned[p] = NoBus =>
       \E t \in Live : pc[t] = "confirm" /\ job[t][2] = p

\* Whoever is about an assigned bus is the only one
AssignedInv ==
  /\ \A t \in Live : pc[t] \in AssignedLabels => assigned[job[t][2]] = job[t][1]
  /\ \A t, u \in Live :
       pc[t] \in AssignedLabels /\ pc[u] \in AssignedLabels
       /\ job[t][2] = job[u][2] => t = u
  /\ \A c \in up : assigned[c[2]] = c[1]
  /\ \A c \in up, t \in Live : pc[t] \in AssignedLabels => job[t][2] # c[2]
  /\ \A t \in Live : pc[t] = "reset port" => ~ found[job[t][2]]

PortsInv ==
  /\ \A t \in callbacks : job[t][2] \in ports
  /\ pc[main] \notin {"clear ports", "new plan"} =>
       /\ \A t \in Live : pc[t] \in AssignedLabels => job[t][2] \in ports
       /\ \A c \in up : c[2] \in ports

\* What the plan offers for a port, or has assigned to it, lists the port
OffersInv ==
  /\ known \in {{}, Buses}
  /\ \A p \in Ports : available[p] \subseteq On(known, p)
  /\ \A p \in Ports : assigned[p] # NoBus => assigned[p] \in On(known, p)

\* The threads, the locks, the buses and the ports
Control ==
  /\ ThreadInv /\ StopInv /\ BusesInv /\ TurnsInv /\ ConfirmingInv /\ AssignedInv
  /\ PortsInv /\ OffersInv

\* What is looked for on a port is found only if it is plugged in there.
FoundWherePlugged ==
  /\ \A p \in Ports :
       trying[p] # NoBus /\ plugged[p] # NoBus
       /\ BusLeq(devices[trying[p]], devices[plugged[p]]) => trying[p] = plugged[p]
  /\ \A t \in Workers : pc[t] = "confirm" => job[t][1] = plugged[job[t][2]]

\* Buses are assigned to the ports where they are.
WherePlugged ==
  moves = 0 => \A p \in Ports : assigned[p] # NoBus => assigned[p] = plugged[p]

\* The plan, and what it makes of the buses, while these remain where they are
Settled ==
  /\ PlanInv /\ FoundWherePlugged /\ WherePlugged
  /\ ~ stopping => FeasibleSearched

\* No bus has been moved.
Calm == moves = 0 /\ PluggedWhereListed

Good == Control /\ (Calm => Settled)

AdapterInv ==
  /\ Types
  /\ ~ thrown =>
       /\ derailed = "no" => Good
       /\ derailed = "end()" => stopping \/ outdated # {}
       /\ Calm => WherePlugged

-----------------------------------------------------------------------------
(* What steps leave alone                                                  *)

\* The threads of the adapter
LEMMA ThreadFacts ==
  /\ main \in Threads /\ main \notin Workers /\ Workers \subseteq Threads
  /\ \A t \in Threads : t # main => t \in Workers
  /\ Live \subseteq Workers
BY MainType DEF Workers, Live

\* While a thread has not survived a stop, the plan is the one of the ports.
LEMMA LiveFacts ==
  ASSUME Types, ThreadInv, StopInv, NEW t \in Workers, t \notin outdated, pc[t] # "idle"
  PROVE  ~ PlanReset /\ pc[main] \notin {"reset", "idle"}
BY DEF StopInv, PlanReset

\* A step that does not touch the plan
LEMMA PlanFrame ==
  ASSUME UNCHANGED planVars
  PROVE  /\ PlanInv => PlanInv'
         /\ FeasibleCandidates' = FeasibleCandidates
BY DEF planVars, PlanInv, PlanTypeOK, AssignedOnce, AvailableIsUnassigned,
       CountsAmbiguators, FeasibleCandidates, Feasible

\* Whatever is feasible remains searched for while the searches, what is to be added
\* to them, and the confirmations continue.
LEMMA SearchedFrame ==
  ASSUME UNCHANGED <<planVars, searching, missed>>, FeasibleSearched,
         \A t \in Threads : todo[t] \subseteq todo'[t],
         \A t \in Threads : pc[t] = "confirm" => pc'[t] = "confirm" /\ job'[t] = job[t]
  PROVE  FeasibleSearched'
<1>1. FeasibleCandidates' = FeasibleCandidates
  BY PlanFrame
<1>2. \A c \in FeasibleCandidates : SearchedFor(c[1], c[2]) => SearchedFor(c[1], c[2])'
  BY DEF SearchedFor
<1> QED
  BY <1>1, <1>2 DEF FeasibleSearched

\* The plan and what it makes of the buses remain settled by a step that leaves the
\* plan, the searches and the confirmations alone.
LEMMA SettledFrame ==
  ASSUME Calm => Settled,
         UNCHANGED <<planVars, searching, trying, missed, plugged, moves>>,
         \A t \in Threads : todo[t] \subseteq todo'[t],
         \A t \in Threads : pc'[t] = "confirm" <=> pc[t] = "confirm",
         \A t \in Threads : pc[t] = "confirm" => job'[t] = job[t],
         ~ stopping' => ~ stopping \/ FeasibleCandidates = {}
  PROVE  (Calm => Settled)'
<1> SUFFICES ASSUME Calm' PROVE Settled'
  OBVIOUS
<1>1. Settled
  BY DEF Calm, PluggedWhereListed
<1>2. PlanInv'
  BY <1>1, PlanFrame DEF Settled
<1>3. FoundWherePlugged'
  BY <1>1, ThreadFacts DEF Settled, FoundWherePlugged
<1>4. WherePlugged'
  BY <1>1 DEF Settled, WherePlugged, planVars
<1>5. ~ stopping' => FeasibleSearched'
  <2>1. FeasibleCandidates = {} => FeasibleSearched
    BY DEF FeasibleSearched
  <2> QED
    BY <1>1, <2>1, SearchedFrame DEF Settled
<1> QED
  BY <1>2, <1>3, <1>4, <1>5 DEF Settled

\* ... and by a step that leaves the plan alone and continues the searches.
LEMMA SearchesFrame ==
  ASSUME Calm => Settled, UNCHANGED <<planVars, plugged, moves, stopping>>,
         FeasibleSearched => FeasibleSearched',
         Calm /\ Settled => FoundWherePlugged'
  PROVE  (Calm => Settled)'
<1> SUFFICES ASSUME Calm' PROVE Settled'
  OBVIOUS
<1>1. Calm /\ Settled
  BY DEF Calm, PluggedWhereListed
<1>2. PlanInv'
  BY <1>1, PlanFrame DEF Settled
<1>3. WherePlugged'
  BY <1>1 DEF Settled, WherePlugged, planVars
<1> QED
  BY <1>1, <1>2, <1>3 DEF Settled

\* A step of thread t
LEMMA GotoFacts ==
  ASSUME Shapes, NEW t \in Threads, NEW label, Goto(t, label)
  PROVE  \A u \in Threads : pc'[u] = IF u = t THEN label ELSE pc[u]
BY DEF Goto, Shapes

\* A step of the adapter that neither changes the plan or the ports nor begins or
\* ends a confirmation
LEMMA ConfirmingFrame ==
  ASSUME ConfirmingInv, UNCHANGED <<planVars, found>>, PlanReset => PlanReset',
         \A u \in Live' :
           pc'[u] = "confirm" => u \in Live /\ pc[u] = "confirm" /\ job'[u] = job[u],
         \A u \in Live :
           pc[u] = "confirm" => u \in Live' /\ pc'[u] = "confirm" /\ job'[u] = job[u]
  PROVE  ConfirmingInv'
<1>1. known' = known /\ assigned' = assigned
  BY DEF planVars
<1>2. \A p \in Ports :
        (\E t \in Live : pc[t] = "confirm" /\ job[t][2] = p)
          => \E t \in Live' : pc'[t] = "confirm" /\ job'[t][2] = p
  OBVIOUS
<1>3. \A t, u \in Live' :
        pc'[t] = "confirm" /\ pc'[u] = "confirm" /\ job'[t][2] = job'[u][2] => t = u
  BY DEF ConfirmingInv
<1> QED
  BY <1>1, <1>2, <1>3 DEF ConfirmingInv

\* A step that leaves the ports alone
LEMMA TurnsFrame ==
  ASSUME TurnsInv, PlanReset => PlanReset',
         UNCHANGED <<planVars, ports, search_thread, searching, found, trying>>
  PROVE  TurnsInv'
BY DEF TurnsInv, planVars

\* A step that makes nothing of an assigned bus but what it was, or less
LEMMA AssignedFrame ==
  ASSUME AssignedInv, UNCHANGED <<planVars, found>>, up' \subseteq up,
         \A u \in Live' : pc'[u] \in AssignedLabels =>
           /\ u \in Live /\ pc[u] \in AssignedLabels /\ job'[u] = job[u]
           /\ pc'[u] = "reset port" => pc[u] = "reset port"
  PROVE  AssignedInv'
<1>1. assigned' = assigned
  BY DEF planVars
<1> USE DEF AssignedInv
<1>2. \A t \in Live' :
        pc'[t] \in AssignedLabels => assigned'[job'[t][2]] = job'[t][1]
  BY <1>1
<1>3. \A t, u \in Live' :
        pc'[t] \in AssignedLabels /\ pc'[u] \in AssignedLabels
        /\ job'[t][2] = job'[u][2] => t = u
  OBVIOUS
<1>4. \A c \in up' : assigned'[c[2]] = c[1]
  BY <1>1
<1>5. \A c \in up', t \in Live' : pc'[t] \in AssignedLabels => job'[t][2] # c[2]
  <2> SUFFICES ASSUME NEW c \in up', NEW t \in Live', pc'[t] \in AssignedLabels
               PROVE  job'[t][2] # c[2]
    OBVIOUS
  <2>1. c \in up /\ t \in Live /\ pc[t] \in AssignedLabels /\ job'[t] = job[t]
    OBVIOUS
  <2> QED
    BY <2>1
<1>6. \A t \in Live' : pc'[t] = "reset port" => ~ found'[job'[t][2]]
  BY DEF AssignedLabels
<1> QED
  BY <1>2, <1>3, <1>4, <1>5, <1>6

\* Who is about an assigned bus has its port to itself.
LEMMA OnlyHere ==
  ASSUME Shapes, ThreadInv, AssignedInv, NEW t \in Workers,
         t \notin outdated, pc[t] \in AssignedLabels
  PROVE  /\ job[t] \in Candidates /\ job[t][1] \in Buses /\ job[t][2] \in Ports
         /\ assigned[job[t][2]] = job[t][1]
         /\ \A c \in up : c[2] \in Ports /\ c[2] # job[t][2]
         /\ \A u \in Workers : pc[u] = "cancel" =>
              job[u][2] \in Ports /\ (u # t => job[u][2] # job[t][2])
<1>1. t \in Live /\ job[t] \in Candidates
  BY DEF Live, Shapes, AssignedLabels
<1>2. \A c \in up : c[2] \in Ports /\ c[2] # job[t][2]
  BY <1>1 DEF AssignedInv, Shapes, Candidates
<1>3. ASSUME NEW u \in Workers, pc[u] = "cancel"
      PROVE  job[u][2] \in Ports /\ (u # t => job[u][2] # job[t][2])
  <2>1. u \in Live /\ pc[u] \in AssignedLabels /\ job[u] \in Candidates
    BY <1>3 DEF Live, ThreadInv, AssignedLabels, Shapes
  <2> QED
    BY <1>1, <2>1 DEF AssignedInv, Candidates
<1> QED
  BY <1>1, <1>2, <1>3 DEF AssignedInv, Candidates

-----------------------------------------------------------------------------
(* Buses are added, fail, and are cancelled                                *)

\* addBus
LEMMA AddBusStep ==
  ASSUME Types, Good, NEW t \in Workers, t \notin outdated, AddBus(t)
  PROVE  Good'
<1> USE ThreadFacts
<1>1. /\ pc[t] = "confirmed" /\ t \notin outdated /\ todo[t] = {}
      /\ ~ stopping_locked /\ ~ stopping
      /\ pc' = [pc EXCEPT ![t] = "add bus"]
      /\ stopping_locked' = TRUE
      /\ job[t] \in Candidates
      /\ buses' = [buses EXCEPT ![job[t][2]] = job[t][1]]
  BY DEF AddBus, Added, Goto, Good, Control, ThreadInv, Types, Shapes
<1>2. /\ UNCHANGED <<planVars, ports, ports_locked, search_thread, searching, found,
                     trying, missed>>
      /\ UNCHANGED <<job, todo, callbacks, stopping, buses_copy, up, throwing,
                     outdated, thrown, plugged, moves>>
  BY DEF AddBus, portVars, searchVars, worldVars
<1>a. \A u \in Threads : pc'[u] = IF u = t THEN "add bus" ELSE pc[u]
  BY <1>1 DEF Types, Shapes
<1>b. Live' = Live
  BY <1>2 DEF Live
<1>p. PlanReset' = PlanReset
  BY <1>a DEF PlanReset
<1> USE DEF Good, Control, Types, Shapes
<1>3. ThreadInv'
  BY <1>p, <1>1, <1>2 DEF ThreadInv, CallbackLabels
<1>4. StopInv'
  <2>1. pc[main] \notin {"stop buses", "clear ports", "new plan", "reset", "idle"}
    BY <1>1, LiveFacts DEF StopInv, StopLabels
  <2>2. pc'[main] = pc[main] /\ \A u \in Workers : pc[u] \notin AddingLabels
    BY <1>1, <1>a DEF StopInv
  <2>3. \A u \in Workers : pc'[u] # "idle" => pc[u] # "idle"
    BY <1>1, <1>a
  <2> QED
    BY <1>p, <1>1, <1>2, <1>a, <2>1, <2>2, <2>3 DEF StopInv, AddingLabels, StopLabels, planVars
<1>5. BusesInv'
  <2>1. job[t][2] \in Ports /\ pc[main] \notin StopLabels /\ pc'[main] = pc[main]
    BY <1>1, <1>a DEF Candidates, StopInv
  <2>2. \A c \in up : c[2] \in Ports /\ c[2] # job[t][2]
    BY <1>1 DEF AssignedInv, Live, AssignedLabels, Candidates
  <2>3. \A u \in Workers : pc[u] = "cancel" =>
          u # t /\ job[u][2] \in Ports /\ job[u][2] # job[t][2]
    BY <1>1 DEF AssignedInv, ThreadInv, Live, AssignedLabels, Candidates
  <2>4. \A u \in Workers : pc[u] # "add bus"
    BY <1>1 DEF StopInv, AddingLabels
  <2> QED
    BY <1>1, <1>2, <1>a, <2>1, <2>2, <2>3, <2>4 DEF BusesInv, StopLabels
<1>6. TurnsInv'
  BY <1>p, <1>2, TurnsFrame
<1>7. ConfirmingInv'
  BY <1>p, <1>b, <1>1, <1>2, <1>a, ConfirmingFrame
<1>8. AssignedInv'
  BY <1>1, <1>2, <1>a, <1>b, AssignedFrame DEF AssignedLabels
<1>9. PortsInv'
  BY <1>1, <1>2 DEF PortsInv, AssignedLabels, Live
<1>10. OffersInv'
  BY <1>2 DEF OffersInv, planVars
<1>11. (Calm => Settled)'
  BY <1>1, <1>2, SettledFrame
<1> QED
  BY <1>3, <1>4, <1>5, <1>6, <1>7, <1>8, <1>9, <1>10, <1>11

\* addBus while the adapter is being stopped
LEMMA AddNothingStep ==
  ASSUME Types, Good, NEW t \in Workers, AddNothing(t)
  PROVE  Good'
<1> USE ThreadFacts
<1>1. /\ pc[t] = "confirmed" /\ todo[t] = {} /\ stopping
      /\ callbacks' = callbacks \ {t}
      /\ outdated' = outdated \ {t}
      /\ job' = [job EXCEPT ![t] = NoBus]
      /\ \A u \in Threads : pc'[u] = IF u = t THEN "idle" ELSE pc[u]
  BY DEF AddNothing, Added, End, Goto, Types, Shapes
<1>2. /\ UNCHANGED <<planVars, ports, ports_locked, search_thread, searching, found,
                     trying, missed>>
      /\ UNCHANGED <<todo, stopping, stopping_locked, buses, buses_copy, up, throwing,
                     thrown, plugged, moves>>
  BY DEF AddNothing, End, portVars, searchVars, worldVars
<1>3. \A u \in Threads : u # t => job'[u] = job[u]
  BY <1>1 DEF Types, Shapes
<1>4. pc'[main] = pc[main] /\ Live' = Live \cup {t}
  BY <1>1, <1>2 DEF Live
<1>p. PlanReset' = PlanReset
  BY <1>4 DEF PlanReset
<1> USE DEF Good, Control, Types, Shapes
<1>5. ThreadInv'
  BY <1>p, <1>1, <1>2 DEF ThreadInv, CallbackLabels
<1>6. StopInv'
  BY <1>p, <1>1, <1>2, <1>4 DEF StopInv, AddingLabels, planVars
<1>7. BusesInv'
  <2>1. \A u \in Workers : pc'[u] \in {"add bus", "cancel"} =>
          pc[u] = pc'[u] /\ job'[u] = job[u]
    BY <1>1, <1>3
  <2> QED
    BY <1>2, <1>4, <2>1 DEF BusesInv
<1>8. TurnsInv'
  BY <1>p, <1>2, TurnsFrame
<1>9. ConfirmingInv'
  BY <1>p, <1>4, <1>1, <1>2, <1>3, ConfirmingFrame
<1>10. AssignedInv'
  BY <1>1, <1>2, <1>3, <1>4, AssignedFrame DEF AssignedLabels
<1>11. PortsInv'
  BY <1>1, <1>2, <1>3, <1>4 DEF PortsInv, AssignedLabels
<1>12. OffersInv'
  BY <1>2 DEF OffersInv, planVars
<1>13. (Calm => Settled)'
  BY <1>1, <1>2, <1>3, SettledFrame
<1> QED
  BY <1>5, <1>6, <1>7, <1>8, <1>9, <1>10, <1>11, <1>12, <1>13

\* Bus::start has connected
LEMMA ConnectStep ==
  ASSUME Types, Good, NEW t \in Workers, Connect(t)
  PROVE  Good'
<1> USE ThreadFacts
<1>1. /\ pc[t] = "add bus" /\ t \notin outdated
      /\ up' = up \cup {job[t]}
      /\ \A u \in Threads : pc'[u] = IF u = t THEN "build model" ELSE pc[u]
  BY DEF Connect, Goto, Good, Control, ThreadInv, Types, Shapes
<1>2. /\ UNCHANGED <<planVars, ports, ports_locked, search_thread, searching, found,
                     trying, missed>>
      /\ UNCHANGED <<job, todo, callbacks, stopping, stopping_locked, buses,
                     buses_copy, throwing, outdated, thrown, plugged, moves>>
  BY DEF Connect, portVars, searchVars, worldVars
<1>3. pc'[main] = pc[main] /\ Live' = Live /\ t \in Live
  BY <1>1, <1>2 DEF Live
<1>p. PlanReset' = PlanReset
  BY <1>3 DEF PlanReset
<1> USE DEF Good, Control, Types, Shapes
<1>4. /\ assigned[job[t][2]] = job[t][1]
      /\ job[t][2] \in ports
      /\ buses[job[t][2]] = job[t][1]
      /\ pc[main] \notin {"stop buses", "clear ports", "new plan", "reset", "idle"}
      /\ \A u \in Live : u # t /\ pc[u] \in AssignedLabels => job[u][2] # job[t][2]
      /\ \A c \in up : c[2] # job[t][2]
  <2>1. pc[main] \notin {"stop buses", "clear ports", "new plan", "reset", "idle"}
    BY <1>1, LiveFacts DEF StopInv, AddingLabels, StopLabels
  <2> QED
    BY <1>1, <1>3, <2>1 DEF AssignedInv, PortsInv, AssignedLabels, BusesInv
<1>5. ThreadInv'
  BY <1>p, <1>1, <1>2 DEF ThreadInv, CallbackLabels
<1>6. StopInv'
  BY <1>p, <1>1, <1>2, <1>3, <1>4 DEF StopInv, AddingLabels, planVars
<1>7. BusesInv'
  BY <1>1, <1>2, <1>3, <1>4 DEF BusesInv
<1>8. TurnsInv'
  BY <1>p, <1>2, TurnsFrame
<1>9. ConfirmingInv'
  BY <1>p, <1>3, <1>1, <1>2, ConfirmingFrame
<1>10. AssignedInv'
  <2>1. assigned' = assigned /\ found' = found
    BY <1>2 DEF planVars
  <2>2. \A u \in Live' : pc'[u] \in AssignedLabels =>
          u \in Live /\ u # t /\ pc'[u] = pc[u] /\ job'[u] = job[u]
    BY <1>1, <1>2, <1>3 DEF AssignedLabels
  <2>3. \A u \in Live' : pc'[u] \in AssignedLabels =>
          assigned'[job'[u][2]] = job'[u][1] /\ job'[u][2] # job[t][2]
    BY <1>4, <2>1, <2>2 DEF AssignedInv
  <2>4. \A u, v \in Live' :
          pc'[u] \in AssignedLabels /\ pc'[v] \in AssignedLabels
          /\ job'[u][2] = job'[v][2] => u = v
    BY <2>2 DEF AssignedInv
  <2>5. \A c \in up' : assigned'[c[2]] = c[1]
    BY <1>1, <1>4, <2>1 DEF AssignedInv
  <2>6. ASSUME NEW c \in up', NEW u \in Live', pc'[u] \in AssignedLabels
        PROVE  job'[u][2] # c[2]
    <3>1. CASE c \in up
      BY <2>2, <2>6, <3>1 DEF AssignedInv
    <3>2. CASE c = job[t]
      BY <2>3, <2>6, <3>2
    <3> QED
      BY <1>1, <2>6, <3>1, <3>2
  <2>7. \A u \in Live' : pc'[u] = "reset port" => ~ found'[job'[u][2]]
    BY <2>1, <2>2 DEF AssignedInv, AssignedLabels
  <2> QED
    BY <2>3, <2>4, <2>5, <2>6, <2>7 DEF AssignedInv
<1>11. PortsInv'
  BY <1>1, <1>2, <1>3, <1>4 DEF PortsInv, AssignedLabels
<1>12. OffersInv'
  BY <1>2 DEF OffersInv, planVars
<1>13. (Calm => Settled)'
  BY <1>1, <1>2, SettledFrame
<1> QED
  BY <1>5, <1>6, <1>7, <1>8, <1>9, <1>10, <1>11, <1>12, <1>13

\* Bus::start has built the model
LEMMA BusAddedStep ==
  ASSUME Types, Good, NEW t \in Workers, BusAdded(t)
  PROVE  Good'
<1> USE ThreadFacts
<1>1. /\ pc[t] = "build model"
      /\ stopping_locked' = FALSE
      /\ callbacks' = callbacks \ {t}
      /\ job' = [job EXCEPT ![t] = NoBus]
      /\ \A u \in Threads : pc'[u] = IF u = t THEN "idle" ELSE pc[u]
  BY DEF BusAdded, End, Goto, Types, Shapes
<1>2. /\ UNCHANGED <<planVars, ports, ports_locked, search_thread, searching, found,
                     trying, missed>>
      /\ UNCHANGED <<todo, stopping, buses, buses_copy, up, throwing, outdated,
                     thrown, plugged, moves>>
  BY DEF BusAdded, End, portVars, searchVars, worldVars
<1>3. \A u \in Threads : u # t => job'[u] = job[u]
  BY <1>1 DEF Types, Shapes
<1>4. pc'[main] = pc[main] /\ Live' = Live
  BY <1>1, <1>2 DEF Live
<1>p. PlanReset' = PlanReset
  BY <1>4 DEF PlanReset
<1> USE DEF Good, Control, Types, Shapes
<1>5. ThreadInv'
  BY <1>p, <1>1, <1>2 DEF ThreadInv, CallbackLabels
<1>6. StopInv'
  <2>1. \A u \in Workers : pc'[u] \notin AddingLabels
    BY <1>1 DEF StopInv, AddingLabels
  <2> QED
    BY <1>p, <1>1, <1>2, <1>4, <2>1 DEF StopInv, planVars
<1>7. BusesInv'
  <2>1. \A u \in Workers : pc'[u] \in {"add bus", "cancel"} =>
          pc[u] = pc'[u] /\ job'[u] = job[u]
    BY <1>1, <1>3
  <2> QED
    BY <1>2, <1>4, <2>1 DEF BusesInv
<1>8. TurnsInv'
  BY <1>p, <1>2, TurnsFrame
<1>9. ConfirmingInv'
  BY <1>p, <1>4, <1>1, <1>2, <1>3, ConfirmingFrame
<1>10. AssignedInv'
  BY <1>1, <1>2, <1>3, <1>4, AssignedFrame DEF AssignedLabels
<1>11. PortsInv'
  BY <1>1, <1>2, <1>3, <1>4 DEF PortsInv, AssignedLabels
<1>12. OffersInv'
  BY <1>2 DEF OffersInv, planVars
<1>13. (Calm => Settled)'
  BY <1>1, <1>2, <1>3, SettledFrame
<1> QED
  BY <1>5, <1>6, <1>7, <1>8, <1>9, <1>10, <1>11, <1>12, <1>13

\* Bus::start cannot connect, and addBus throws
LEMMA ConnectFailsStep ==
  ASSUME Types, Good, ~ thrown, NEW t \in Workers, ConnectFails(t)
  PROVE  Good'
<1> USE ThreadFacts
<1>1. /\ pc[t] = "add bus" /\ t \notin outdated
      /\ buses' = [buses EXCEPT ![job[t][2]] = NoBus]
      /\ stopping_locked' = FALSE
      /\ throwing' = {}
      /\ \A u \in Threads : pc'[u] = IF u = t THEN "unassign" ELSE pc[u]
  BY DEF ConnectFails, AddBusThrows, Goto, Good, Control, ThreadInv, Types, Shapes, History
<1>2. /\ UNCHANGED <<planVars, ports, ports_locked, search_thread, searching, found,
                     trying, missed>>
      /\ UNCHANGED <<job, todo, callbacks, stopping, buses_copy, up, outdated,
                     thrown, plugged, moves>>
  BY DEF ConnectFails, AddBusThrows, portVars, searchVars
<1>3. pc'[main] = pc[main] /\ Live' = Live /\ t \in Live
  BY <1>1, <1>2 DEF Live
<1>p. PlanReset' = PlanReset
  BY <1>3 DEF PlanReset
<1> USE DEF Good, Control, Types, Shapes
<1>4. /\ pc[main] \notin {"stop buses", "clear ports", "new plan", "reset", "idle"}
      /\ \A u \in Workers : u # t => pc[u] \notin AddingLabels
  BY <1>1, LiveFacts DEF StopInv, AddingLabels, StopLabels
<1>5. ThreadInv'
  BY <1>p, <1>1, <1>2 DEF ThreadInv, CallbackLabels
<1>6. StopInv'
  BY <1>p, <1>1, <1>2, <1>3, <1>4 DEF StopInv, AddingLabels, planVars
<1>7. BusesInv'
  <2>1. /\ job[t][2] \in Ports
        /\ \A c \in up : c[2] \in Ports /\ c[2] # job[t][2]
        /\ \A u \in Workers : pc[u] = "cancel" =>
             job[u][2] \in Ports /\ job[u][2] # job[t][2]
    BY <1>1, OnlyHere DEF AssignedLabels
  <2>2. \A u \in Workers : pc'[u] # "add bus"
    BY <1>1, <1>4 DEF AddingLabels
  <2>3. \A c \in up : buses'[c[2]] = c[1]
    BY <1>1, <1>4, <2>1 DEF BusesInv
  <2>4. ASSUME NEW u \in Workers, pc'[u] = "cancel"
        PROVE  buses'[job'[u][2]] = job'[u][1]
    <3>1. pc[u] = "cancel" /\ job'[u] = job[u]
      BY <1>1, <1>2, <2>4
    <3>2. buses[job[u][2]] = job[u][1]
      BY <1>4, <3>1 DEF BusesInv
    <3>3. job[u][2] \in Ports /\ job[u][2] # job[t][2]
      BY <2>1, <3>1
    <3> QED
      BY <1>1, <3>1, <3>2, <3>3
  <2> QED
    BY <1>2, <1>3, <1>4, <2>2, <2>3, <2>4 DEF BusesInv
<1>8. TurnsInv'
  BY <1>p, <1>2, TurnsFrame
<1>9. ConfirmingInv'
  BY <1>p, <1>3, <1>1, <1>2, ConfirmingFrame
<1>10. AssignedInv'
  BY <1>1, <1>2, <1>3, AssignedFrame DEF AssignedLabels
<1>11. PortsInv'
  BY <1>1, <1>2, <1>3 DEF PortsInv, AssignedLabels
<1>12. OffersInv'
  BY <1>2 DEF OffersInv, planVars
<1>13. (Calm => Settled)'
  BY <1>1, <1>2, SettledFrame
<1> QED
  BY <1>5, <1>6, <1>7, <1>8, <1>9, <1>10, <1>11, <1>12, <1>13

\* A reader closes the connection and calls cancelBus
LEMMA ReadFailsStep ==
  ASSUME Types, Good, NEW t \in Workers, ReadFails(t)
  PROVE  Good'
<1> USE ThreadFacts
<1>1. PICK c \in up : up' = up \ {c} /\ Fork(t, "cancel", c[1], c[2])
  BY DEF ReadFails
<1>2. /\ pc[t] = "idle" /\ t \notin outdated /\ t \notin callbacks
      /\ job' = [job EXCEPT ![t] = c]
      /\ c \in Candidates
      /\ \A u \in Threads : pc'[u] = IF u = t THEN "cancel" ELSE pc[u]
  <2>1. pc[t] = "idle" /\ Goto(t, "cancel") /\ job' = [job EXCEPT ![t] = <<c[1], c[2]>>]
    BY <1>1 DEF Fork
  <2>2. c \in Candidates /\ c = <<c[1], c[2]>>
    BY DEF Types, Shapes, Candidates
  <2>3. t \notin outdated /\ t \notin callbacks
    BY <2>1 DEF Good, Control, ThreadInv
  <2> QED
    BY <2>1, <2>2, <2>3, GotoFacts DEF Types
<1>3. /\ UNCHANGED <<planVars, ports, ports_locked, search_thread, searching, found,
                     trying, missed>>
      /\ UNCHANGED <<todo, callbacks, stopping, stopping_locked, buses, buses_copy,
                     throwing, outdated, thrown, plugged, moves>>
  BY <1>1 DEF ReadFails, Fork, portVars, searchVars
<1>4. pc'[main] = pc[main] /\ Live' = Live /\ t \in Live
  BY <1>2, <1>3 DEF Live
<1>5. job'[t] = c /\ \A u \in Threads : u # t => job'[u] = job[u]
  BY <1>2 DEF Types, Shapes
<1>p. PlanReset' = PlanReset
  BY <1>4 DEF PlanReset
<1> USE DEF Good, Control, Types, Shapes
<1>6. /\ pc[main] \notin {"clear ports", "new plan", "reset", "idle"}
      /\ assigned[c[2]] = c[1] /\ c[2] \in ports
      /\ \A u \in Live : pc[u] \in AssignedLabels => job[u][2] # c[2]
      /\ \A d \in up' : d \in up /\ d[2] # c[2]
  <2>1. \A d \in up : d = <<d[1], d[2]>>
    BY DEF Candidates
  <2>a. \A d \in up : assigned[d[2]] = d[1]
    BY DEF AssignedInv
  <2>2. ASSUME NEW d \in up, d[2] = c[2] PROVE d = c
    <3>1. d[1] = c[1]
      BY <2>a, <2>2
    <3>2. d = <<d[1], d[2]>> /\ c = <<c[1], c[2]>>
      BY <2>1
    <3> QED
      BY <2>2, <3>1, <3>2
  <2>3. pc[main] \notin {"clear ports", "new plan", "reset", "idle"}
    BY DEF StopInv
  <2> QED
    BY <1>1, <2>2, <2>3 DEF AssignedInv, PortsInv
<1>7. ThreadInv'
  BY <1>p, <1>2, <1>3 DEF ThreadInv, CallbackLabels
<1>8. StopInv'
  BY <1>p, <1>2, <1>3, <1>4, <1>6 DEF StopInv, AddingLabels, PlanReset
<1>9. BusesInv'
  <2>1. \A u \in Workers : pc'[u] = "add bus" => buses'[job'[u][2]] = job'[u][1]
    BY <1>2, <1>3, <1>5 DEF BusesInv
  <2>2. CASE pc[main] = "stop buses"
    <3>1. /\ up \subseteq buses_copy /\ c \in buses_copy
          /\ \A u \in Workers : pc[u] = "cancel" => job[u] \in buses_copy
      BY <2>2 DEF BusesInv
    <3> QED
      BY <1>1, <1>2, <1>3, <1>4, <1>5, <2>1, <2>2, <3>1 DEF BusesInv
  <2>3. CASE pc[main] # "stop buses"
    <3>1. /\ \A d \in up : buses[d[2]] = d[1]
          /\ \A u \in Workers : pc[u] = "cancel" => buses[job[u][2]] = job[u][1]
      BY <2>3 DEF BusesInv
    <3>2. buses[c[2]] = c[1]
      BY <3>1
    <3> QED
      BY <1>1, <1>2, <1>3, <1>4, <1>5, <2>1, <2>3, <3>1, <3>2 DEF BusesInv
  <2> QED
    BY <2>2, <2>3
<1>10. TurnsInv'
  BY <1>p, <1>3, TurnsFrame
<1>11. ConfirmingInv'
  BY <1>p, <1>4, <1>2, <1>3, <1>5, ConfirmingFrame
<1>12. AssignedInv'
  <2>1. assigned' = assigned /\ found' = found
    BY <1>3 DEF planVars
  <2>2. \A u \in Live' : u # t /\ pc'[u] \in AssignedLabels =>
          u \in Live /\ pc'[u] = pc[u] /\ job'[u] = job[u]
    BY <1>2, <1>4, <1>5
  <2>3. ASSUME NEW u \in Live', pc'[u] \in AssignedLabels
        PROVE  assigned'[job'[u][2]] = job'[u][1] /\ (u # t => job'[u][2] # c[2])
    <3>1. CASE u = t
      BY <1>5, <1>6, <2>1, <3>1
    <3>2. CASE u # t
      BY <1>6, <2>1, <2>2, <2>3, <3>2 DEF AssignedInv
    <3> QED
      BY <3>1, <3>2
  <2>4. \A u, v \in Live' :
          pc'[u] \in AssignedLabels /\ pc'[v] \in AssignedLabels
          /\ job'[u][2] = job'[v][2] => u = v
    BY <1>5, <2>2, <2>3 DEF AssignedInv
  <2>5. \A d \in up' : assigned'[d[2]] = d[1]
    BY <1>6, <2>1 DEF AssignedInv
  <2>6. ASSUME NEW d \in up', NEW u \in Live', pc'[u] \in AssignedLabels
        PROVE  job'[u][2] # d[2]
    <3>1. d \in up /\ d[2] # c[2]
      BY <1>6
    <3>2. CASE u = t
      BY <1>5, <3>1, <3>2
    <3>3. CASE u # t
      <4>1. u \in Live /\ pc[u] \in AssignedLabels /\ job'[u] = job[u]
        BY <2>2, <2>6, <3>3
      <4>2. job[u][2] # d[2]
        BY <3>1, <4>1 DEF AssignedInv
      <4> QED
        BY <4>1, <4>2
    <3> QED
      BY <3>2, <3>3
  <2>7. \A u \in Live' : pc'[u] = "reset port" => ~ found'[job'[u][2]]
    BY <1>2, <2>1, <2>2 DEF AssignedInv, AssignedLabels
  <2> QED
    BY <2>3, <2>4, <2>5, <2>6, <2>7 DEF AssignedInv
<1>13. PortsInv'
  BY <1>2, <1>3, <1>4, <1>5, <1>6 DEF PortsInv, AssignedLabels
<1>14. OffersInv'
  BY <1>3 DEF OffersInv, planVars
<1>15. (Calm => Settled)'
  BY <1>2, <1>3, <1>5, SettledFrame
<1> QED
  BY <1>7, <1>8, <1>9, <1>10, <1>11, <1>12, <1>13, <1>14, <1>15

\* cancelBus up to its call of unassign
LEMMA CancelBusStep ==
  ASSUME Types, Good, NEW t \in Workers, CancelBus(t)
  PROVE  Good'
<1> USE ThreadFacts
<1>1. /\ pc[t] = "cancel" /\ t \notin outdated
      /\ buses[job[t][2]] # NoBus
      /\ buses' = [buses EXCEPT ![job[t][2]] = NoBus]
      /\ \A u \in Threads : pc'[u] = IF u = t THEN "unassign" ELSE pc[u]
  BY DEF CancelBus, Goto, Good, Control, ThreadInv, Types, Shapes
<1>2. /\ UNCHANGED <<planVars, ports, ports_locked, search_thread, searching, found,
                     trying, missed>>
      /\ UNCHANGED <<job, todo, callbacks, stopping, stopping_locked, buses_copy, up,
                     throwing, outdated, thrown, plugged, moves>>
  BY DEF CancelBus, portVars, searchVars, worldVars
<1>3. pc'[main] = pc[main] /\ Live' = Live /\ t \in Live
  BY <1>1, <1>2 DEF Live
<1>p. PlanReset' = PlanReset
  BY <1>3 DEF PlanReset
<1>q. Shapes /\ ThreadInv /\ AssignedInv
  BY DEF Good, Control, Types
<1> USE DEF Good, Control, Types, Shapes
<1>4. /\ job[t][2] \in Ports
      /\ \A c \in up : c[2] \in Ports /\ c[2] # job[t][2]
      /\ \A u \in Workers : pc[u] = "cancel" =>
           job[u][2] \in Ports /\ (u # t => job[u][2] # job[t][2])
  BY <1>1, OnlyHere DEF AssignedLabels
<1>5. ThreadInv'
  BY <1>p, <1>1, <1>2 DEF ThreadInv, CallbackLabels
<1>6. StopInv'
  BY <1>p, <1>1, <1>2, <1>3, <1>4 DEF StopInv, AddingLabels, planVars
<1>7. BusesInv'
  <2>1. ASSUME NEW u \in Workers, pc[u] = "add bus"
        PROVE  job[u][2] \in Ports /\ job[u][2] # job[t][2]
    <3> HIDE DEF Good, Control, Types, Shapes
    <3>1. u \notin outdated /\ u # t
      BY <1>1, <1>q, <2>1 DEF ThreadInv
    <3>2. /\ job[u][2] \in Ports
          /\ \A v \in Workers : pc[v] = "cancel" /\ v # u => job[v][2] # job[u][2]
      BY <1>q, <2>1, <3>1, OnlyHere DEF AssignedLabels
    <3> QED
      BY <1>1, <3>1, <3>2
  <2>2. ASSUME NEW u \in Workers, pc'[u] = "add bus"
        PROVE  buses'[job'[u][2]] = job'[u][1]
    <3>1. pc[u] = "add bus" /\ job'[u] = job[u]
      BY <1>1, <1>2, <2>2
    <3>2. buses[job[u][2]] = job[u][1]
      BY <3>1 DEF BusesInv
    <3> QED
      BY <1>1, <2>1, <3>1, <3>2
  <2>3. CASE pc[main] = "stop buses"
    BY <1>1, <1>2, <1>3, <2>2, <2>3 DEF BusesInv
  <2>4. CASE pc[main] # "stop buses"
    <3>1. \A c \in up : buses'[c[2]] = c[1]
      BY <1>1, <1>4, <2>4 DEF BusesInv
    <3>2. ASSUME NEW u \in Workers, pc'[u] = "cancel"
          PROVE  buses'[job'[u][2]] = job'[u][1]
      <4>1. pc[u] = "cancel" /\ u # t /\ job'[u] = job[u]
        BY <1>1, <1>2, <3>2
      <4>2. buses[job[u][2]] = job[u][1]
        BY <2>4, <4>1 DEF BusesInv
      <4>3. job[u][2] \in Ports /\ job[u][2] # job[t][2]
        BY <1>4, <4>1
      <4> QED
        BY <1>1, <4>1, <4>2, <4>3
    <3> QED
      BY <1>2, <1>3, <2>2, <2>4, <3>1, <3>2 DEF BusesInv
  <2> QED
    BY <2>3, <2>4
<1>8. TurnsInv'
  BY <1>p, <1>2, TurnsFrame
<1>9. ConfirmingInv'
  BY <1>p, <1>3, <1>1, <1>2, ConfirmingFrame
<1>10. AssignedInv'
  BY <1>1, <1>2, <1>3, AssignedFrame DEF AssignedLabels
<1>11. PortsInv'
  BY <1>1, <1>2, <1>3 DEF PortsInv, AssignedLabels
<1>12. OffersInv'
  BY <1>2 DEF OffersInv, planVars
<1>13. (Calm => Settled)'
  BY <1>1, <1>2, SettledFrame
<1> QED
  BY <1>5, <1>6, <1>7, <1>8, <1>9, <1>10, <1>11, <1>12, <1>13

\* The end of a thread that has unassigned its port
LEMMA UnassignedStep ==
  ASSUME Types, Good, ~ thrown, NEW t \in Workers, Unassigned(t)
  PROVE  Good'
<1> USE ThreadFacts
<1>1. /\ pc[t] = "unassigned" /\ todo[t] = {}
      /\ callbacks' = callbacks \ {t}
      /\ outdated' = outdated \ {t}
      /\ job' = [job EXCEPT ![t] = NoBus]
      /\ \A u \in Threads : pc'[u] = IF u = t THEN "idle" ELSE pc[u]
  BY DEF Unassigned, Added, End, Goto, Types, Shapes, History
<1>2. /\ UNCHANGED <<planVars, ports, ports_locked, search_thread, searching, found,
                     trying, missed>>
      /\ UNCHANGED <<todo, stopping, stopping_locked, buses, buses_copy, up, throwing,
                     thrown, plugged, moves>>
  BY DEF Unassigned, End, portVars, searchVars, worldVars, Types, Shapes, History
<1>3. \A u \in Threads : u # t => job'[u] = job[u]
  BY <1>1 DEF Types, Shapes
<1>4. pc'[main] = pc[main] /\ Live' = Live \cup {t}
  BY <1>1, <1>2 DEF Live
<1>p. PlanReset' = PlanReset
  BY <1>4 DEF PlanReset
<1> USE DEF Good, Control, Types, Shapes
<1>5. ThreadInv'
  BY <1>p, <1>1, <1>2 DEF ThreadInv, CallbackLabels
<1>6. StopInv'
  BY <1>p, <1>1, <1>2, <1>4 DEF StopInv, AddingLabels, planVars
<1>7. BusesInv'
  BY <1>1, <1>2, <1>3, <1>4 DEF BusesInv
<1>8. TurnsInv'
  BY <1>p, <1>2, TurnsFrame
<1>9. ConfirmingInv'
  BY <1>p, <1>4, <1>1, <1>2, <1>3, ConfirmingFrame
<1>10. AssignedInv'
  BY <1>1, <1>2, <1>3, <1>4, AssignedFrame DEF AssignedLabels
<1>11. PortsInv'
  BY <1>1, <1>2, <1>3, <1>4 DEF PortsInv, AssignedLabels
<1>12. OffersInv'
  BY <1>2 DEF OffersInv, planVars
<1>13. (Calm => Settled)'
  BY <1>1, <1>2, <1>3, SettledFrame
<1> QED
  BY <1>5, <1>6, <1>7, <1>8, <1>9, <1>10, <1>11, <1>12, <1>13

-----------------------------------------------------------------------------
(* The main thread starts and stops the adapter                            *)

\* Nothing is feasible in an empty plan.
LEMMA NothingFeasible ==
  ASSUME OffersInv, known = {}
  PROVE  FeasibleCandidates = {}
BY DEF OffersInv, On, FeasibleCandidates, Candidates, Feasible

\* A step of the main thread that leaves the plan and the ports alone
LEMMA MainFrame ==
  ASSUME Types, Good, todo[main] = {}, up' \subseteq up,
         UNCHANGED <<planVars, ports, search_thread, searching, found, trying,
                     missed>>,
         UNCHANGED <<job, todo, callbacks, outdated, plugged, moves>>,
         pc'[main] \in MainLabels, \A u \in Workers : pc'[u] = pc[u],
         PlanReset => PlanReset', ~ stopping' => ~ stopping \/ known = {}
  PROVE  /\ ThreadInv' /\ TurnsInv' /\ ConfirmingInv' /\ AssignedInv'
         /\ OffersInv' /\ (Calm => Settled)'
<1> USE ThreadFacts DEF Good, Control
<1>1. ThreadInv'
  <2>1. \A t \in Threads :
          pc'[t] \notin {"add buses", "confirmed", "unassigned"} => todo'[t] = {}
    BY DEF ThreadInv
  <2> QED
    BY <2>1 DEF ThreadInv, CallbackLabels, Types, Shapes
<1>2. TurnsInv'
  BY TurnsFrame
<1>3. ConfirmingInv'
  BY ConfirmingFrame DEF Live
<1>4. AssignedInv'
  BY AssignedFrame DEF Live
<1>5. OffersInv'
  BY DEF OffersInv, planVars
<1>6. (Calm => Settled)'
  <2>1. pc[main] # "confirm" /\ pc'[main] # "confirm"
    BY DEF Types, Shapes, MainLabels
  <2> QED
    BY <2>1, NothingFeasible, SettledFrame
<1> QED
  BY <1>1, <1>2, <1>3, <1>4, <1>5, <1>6

\* start, with all candidates of all buses to be added to the searches
LEMMA StartStep ==
  ASSUME Types, Good, Start
  PROVE  Good'
<1> USE ThreadFacts
<1>1. /\ pc[main] = "idle"
      /\ AddBuses(Buses)
      /\ \A u \in Threads : pc'[u] = IF u = main THEN "add buses" ELSE pc[u]
      /\ \A u \in Threads : todo'[u] = IF u = main THEN new_candidates' ELSE todo[u]
  BY DEF Start, AddAllBuses, Returned, Goto, Types, Shapes
<1>2. /\ UNCHANGED <<ports, ports_locked, search_thread, searching, found, trying,
                     missed, job, callbacks>>
      /\ UNCHANGED <<stopping, stopping_locked, buses, buses_copy, up, throwing,
                     outdated, thrown, plugged, moves>>
  BY DEF Start, AddAllBuses, portVars, searchVars, adapterVars
<1>3. /\ ports = {} /\ known = {} /\ callbacks = {} /\ up = {}
      /\ \A u \in Workers : pc[u] # "idle" => u \in outdated
      /\ \A u \in Workers : pc'[u] = pc[u]
  BY <1>1 DEF Start, PlanReset, Good, Control, StopInv, PortsInv
<1>4. \A u \in Live : pc[u] = "idle"
  BY <1>3 DEF Live
<1>5. \A u \in Workers : pc[u] \notin {"confirm", "add bus", "cancel"}
  BY <1>3 DEF Good, Control, ThreadInv, CallbackLabels
<1> USE DEF Good, Control, Types, Shapes
<1>6. ThreadInv'
  <2>1. \A u \in Workers : pc[u] \notin CallbackLabels
    BY <1>3 DEF ThreadInv
  <2> QED
    BY <1>1, <1>2, <1>3, <2>1 DEF ThreadInv, CallbackLabels
<1>7. StopInv'
  BY <1>1, <1>2, <1>3 DEF StopInv, AddingLabels, StopLabels, PlanReset
<1>8. BusesInv'
  BY <1>1, <1>2, <1>3, <1>5 DEF BusesInv
<1>9. TurnsInv'
  BY <1>2, <1>3 DEF TurnsInv
<1>10. ConfirmingInv'
  BY <1>2, <1>3, <1>5, <1>1 DEF ConfirmingInv, TurnsInv, Live, PlanReset
<1>11. AssignedInv'
  BY <1>2, <1>3, <1>4 DEF AssignedInv, Live, AssignedLabels
<1>12. PortsInv'
  BY <1>2, <1>3, <1>4 DEF PortsInv, Live, AssignedLabels
<1>13. OffersInv'
  <2>1. /\ known' = Buses /\ assigned' = assigned
        /\ \A p \in Ports : available'[p] = available[p] \cup On(Buses, p)
    BY <1>1, <1>3 DEF AddBuses
  <2> QED
    BY <1>3, <2>1 DEF OffersInv, On
<1>14. (Calm => Settled)'
  <2> SUFFICES ASSUME Calm' PROVE Settled'
    OBVIOUS
  <2>1. Settled
    BY <1>2 DEF Calm, PluggedWhereListed, Start
  <2>2. PlanInv'
    BY <1>1, <2>1, AddBusesTypes, AddBusesInv DEF Settled, PlanInv
  <2>3. FoundWherePlugged'
    BY <1>2, <1>3, <1>5 DEF FoundWherePlugged, TurnsInv
  <2>4. WherePlugged'
    BY <1>1, <1>2, <2>1 DEF Settled, WherePlugged, AddBuses
  <2>5. FeasibleSearched'
    BY <1>1, <1>3, <2>1, AddBusesReturns, NothingFeasible DEF Settled, FeasibleSearched
  <2> QED
    BY <2>2, <2>3, <2>4, <2>5 DEF Settled
<1> QED
  BY <1>6, <1>7, <1>8, <1>9, <1>10, <1>11, <1>12, <1>13, <1>14

\* start has added all candidates.
LEMMA StartedStep ==
  ASSUME Types, Good, Started
  PROVE  Good'
<1> USE ThreadFacts
<1>1. /\ pc[main] = "add buses" /\ todo[main] = {}
      /\ pc'[main] = "started" /\ \A u \in Workers : pc'[u] = pc[u]
  BY DEF Started, Added, Goto, Types, Shapes
<1>2. /\ UNCHANGED <<planVars, ports, ports_locked, search_thread, searching, found,
                     trying, missed>>
      /\ UNCHANGED <<job, todo, callbacks, stopping, stopping_locked, buses,
                     buses_copy, up, throwing, outdated, thrown, plugged, moves>>
  BY DEF Started, portVars, searchVars, adapterVars, worldVars
<1> USE DEF Good, Control
<1>3. /\ ThreadInv' /\ TurnsInv' /\ ConfirmingInv' /\ AssignedInv'
      /\ OffersInv' /\ (Calm => Settled)'
  BY <1>1, <1>2, MainFrame DEF MainLabels, PlanReset
<1>4. StopInv'
  BY <1>1, <1>2 DEF StopInv, StopLabels, PlanReset
<1>5. BusesInv'
  BY <1>1, <1>2 DEF BusesInv
<1>6. PortsInv'
  BY <1>1, <1>2 DEF PortsInv, Live
<1> QED
  BY <1>3, <1>4, <1>5, <1>6

\* stop sets stopping_ while nobody is in the main part of addBus.
LEMMA StopAddingStep ==
  ASSUME Types, Good, StopAdding
  PROVE  Good'
<1> USE ThreadFacts
<1>1. /\ pc[main] = "started" /\ ~ stopping_locked /\ stopping'
      /\ pc'[main] = "stopping" /\ \A u \in Workers : pc'[u] = pc[u]
  BY DEF StopAdding, Goto, Types, Shapes
<1>2. /\ UNCHANGED <<planVars, ports, ports_locked, search_thread, searching, found,
                     trying, missed>>
      /\ UNCHANGED <<job, todo, callbacks, stopping_locked, buses, buses_copy, up,
                     throwing, outdated, thrown, plugged, moves>>
  BY DEF StopAdding, portVars, searchVars, worldVars
<1> USE DEF Good, Control
<1>3. todo[main] = {}
  BY <1>1 DEF ThreadInv
<1>4. /\ ThreadInv' /\ TurnsInv' /\ ConfirmingInv' /\ AssignedInv'
      /\ OffersInv' /\ (Calm => Settled)'
  BY <1>1, <1>2, <1>3, MainFrame DEF MainLabels, PlanReset
<1>5. StopInv'
  BY <1>1, <1>2 DEF StopInv, StopLabels, PlanReset, Types, Shapes
<1>6. BusesInv'
  BY <1>1, <1>2 DEF BusesInv
<1>7. PortsInv'
  BY <1>1, <1>2 DEF PortsInv, Live
<1> QED
  BY <1>1, <1>4, <1>5, <1>6, <1>7

\* stop takes the buses out of buses_.
LEMMA TakeBusesStep ==
  ASSUME Types, Good, TakeBuses
  PROVE  Good'
<1> USE ThreadFacts
<1>1. /\ pc[main] = "stopping"
      /\ buses_copy' = {<<buses[p], p>> : p \in {q \in Ports : buses[q] # NoBus}}
      /\ \A p \in Ports : buses'[p] = NoBus
      /\ pc'[main] = "stop buses" /\ \A u \in Workers : pc'[u] = pc[u]
  BY DEF TakeBuses, Goto, Types, Shapes
<1>2. /\ UNCHANGED <<planVars, ports, ports_locked, search_thread, searching, found,
                     trying, missed>>
      /\ UNCHANGED <<job, todo, callbacks, stopping, stopping_locked, up, throwing,
                     outdated, thrown, plugged, moves>>
  BY DEF TakeBuses, portVars, searchVars, worldVars
<1> USE DEF Good, Control
<1>3. todo[main] = {} /\ stopping
  BY <1>1 DEF ThreadInv, StopInv, StopLabels
<1>4. /\ ThreadInv' /\ TurnsInv' /\ ConfirmingInv' /\ AssignedInv'
      /\ OffersInv' /\ (Calm => Settled)'
  BY <1>1, <1>2, <1>3, MainFrame DEF MainLabels, PlanReset
<1>5. StopInv'
  BY <1>1, <1>2 DEF StopInv, StopLabels, PlanReset
<1>6. BusesInv'
  <2>1. \A u \in Workers : pc[u] # "add bus"
    BY <1>3 DEF StopInv, AddingLabels
  <2>2. ASSUME NEW c \in Candidates, buses[c[2]] = c[1]
        PROVE  c \in buses_copy'
    <3>1. c = <<buses[c[2]], c[2]>> /\ c[2] \in Ports /\ buses[c[2]] # NoBus
      BY <2>2, NoBusIsNoBus DEF Candidates
    <3> QED
      BY <1>1, <3>1
  <2>3. \A u \in Workers : pc[u] = "cancel" => job[u] \in Candidates
    BY DEF Types, Shapes
  <2>4. up \subseteq Candidates
    BY DEF Types, Shapes
  <2> QED
    BY <1>1, <1>2, <2>1, <2>2, <2>3, <2>4 DEF BusesInv
<1>7. PortsInv'
  BY <1>1, <1>2 DEF PortsInv, Live
<1> QED
  BY <1>2, <1>3, <1>4, <1>5, <1>6, <1>7

\* stop stops a bus.
LEMMA StopBusStep ==
  ASSUME Types, Good, NEW c \in buses_copy, StopBus(c)
  PROVE  Good'
<1> USE ThreadFacts
<1>1. /\ pc[main] = "stop buses" /\ pc' = pc
      /\ \A u \in Workers : pc[u] = "cancel" => job[u] # c
      /\ up' = up \ {c} /\ buses_copy' = buses_copy \ {c}
  BY DEF StopBus, finderVars, threadVars
<1>2. /\ UNCHANGED <<planVars, ports, ports_locked, search_thread, searching, found,
                     trying, missed>>
      /\ UNCHANGED <<job, todo, callbacks, stopping, stopping_locked, buses, throwing,
                     outdated, thrown, plugged, moves>>
  BY DEF StopBus, finderVars, threadVars, portVars, searchVars, worldVars
<1> USE DEF Good, Control
<1>3. todo[main] = {} /\ stopping
  BY <1>1 DEF ThreadInv, StopInv, StopLabels
<1>4. /\ ThreadInv' /\ TurnsInv' /\ ConfirmingInv' /\ AssignedInv'
      /\ OffersInv' /\ (Calm => Settled)'
  BY <1>1, <1>2, <1>3, MainFrame DEF MainLabels, PlanReset
<1>5. StopInv'
  BY <1>1, <1>2 DEF StopInv, StopLabels, PlanReset
<1>6. BusesInv'
  BY <1>1, <1>2 DEF BusesInv
<1>7. PortsInv'
  BY <1>1, <1>2 DEF PortsInv, Live
<1> QED
  BY <1>2, <1>3, <1>4, <1>5, <1>6, <1>7

\* reset begins: no bus is left in stop's copy.
LEMMA LockPortsStep ==
  ASSUME Types, Good, UNCHANGED <<adapterVars, worldVars>>,
         pc[main] = "stop buses", buses_copy = {}, LockPorts(main)
  PROVE  Good'
<1> USE ThreadFacts
<1>1. ports_locked' /\ pc'[main] = "clear ports" /\ \A u \in Workers : pc'[u] = pc[u]
  BY DEF LockPorts, Goto, Types, Shapes
<1>2. /\ UNCHANGED <<planVars, ports, search_thread, searching, found, trying, missed,
                     job, todo, callbacks>>
      /\ UNCHANGED <<stopping, stopping_locked, buses, buses_copy, up, throwing,
                     outdated, thrown, plugged, moves>>
  BY DEF LockPorts, searchVars, adapterVars, worldVars
<1> USE DEF Good, Control
<1>3. todo[main] = {} /\ stopping
  BY DEF ThreadInv, StopInv, StopLabels
<1>4. /\ ThreadInv' /\ TurnsInv' /\ ConfirmingInv' /\ AssignedInv'
      /\ OffersInv' /\ (Calm => Settled)'
  BY <1>1, <1>2, <1>3, MainFrame DEF MainLabels, PlanReset
<1>5. up = {} /\ \A u \in Workers : pc[u] # "cancel"
  BY DEF BusesInv
<1>6. StopInv'
  BY <1>1, <1>2, <1>3, <1>5 DEF StopInv, StopLabels, PlanReset, Types, Shapes
<1>7. BusesInv'
  BY <1>1, <1>2, <1>5 DEF BusesInv
<1>8. PortsInv'
  BY <1>1, <1>2 DEF PortsInv, Live
<1> QED
  BY <1>2, <1>3, <1>4, <1>6, <1>7, <1>8

\* ~Port, for one of the ports
LEMMA ClearPortStep ==
  ASSUME Types, Good, UNCHANGED <<adapterVars, worldVars>>,
         NEW p \in Ports, ClearPort(main, p)
  PROVE  Good'
<1> USE ThreadFacts
<1>1. /\ pc[main] = "clear ports" /\ \A t \in callbacks : job[t][2] # p
      /\ ports' = ports \ {p}
      /\ \A q \in Ports : searching'[q] = IF q = p THEN <<>> ELSE searching[q]
      /\ \A q \in Ports : found'[q] = IF q = p THEN FALSE ELSE found[q]
      /\ \A q \in Ports : trying'[q] = IF q = p THEN NoBus ELSE trying[q]
      /\ \A q \in Ports : search_thread'[q] = IF q = p THEN "ended" ELSE search_thread[q]
  BY DEF ClearPort, StopThread, Types, Shapes
<1>2. /\ UNCHANGED <<planVars, ports_locked, pc, job, todo, callbacks>>
      /\ UNCHANGED <<stopping, stopping_locked, buses, buses_copy, up, throwing,
                     outdated, thrown, plugged, moves>>
  BY DEF ClearPort, StopThread, threadVars, adapterVars, worldVars
<1>p. PlanReset' = PlanReset /\ ~ PlanReset
  BY <1>1, <1>2 DEF PlanReset
<1>3. known' = known /\ assigned' = assigned
  BY <1>2 DEF planVars
<1> USE DEF Good, Control
<1>4. stopping /\ up = {} /\ \A u \in Workers : pc[u] = "confirm" => job[u][2] # p
  BY <1>1 DEF StopInv, StopLabels, ThreadInv, CallbackLabels
<1>5. ThreadInv'
  BY <1>p, <1>2 DEF ThreadInv
<1>6. StopInv'
  BY <1>p, <1>1, <1>2 DEF StopInv
<1>7. BusesInv'
  BY <1>2 DEF BusesInv
<1>8. TurnsInv'
  BY <1>p, <1>1, <1>2, <1>3 DEF TurnsInv
<1>9. ConfirmingInv'
  <2>1. \A u \in Workers : pc[u] = "confirm" => job[u][2] \in Ports
    BY DEF Types, Shapes, Candidates
  <2>2. \A u \in Workers : pc[u] = "confirm" => found'[job[u][2]] = found[job[u][2]]
    BY <1>1, <1>4, <2>1
  <2>3. \A q \in Ports : found'[q] => found[q]
    BY <1>1
  <2> QED
    BY <1>p, <1>2, <1>3, <2>2, <2>3 DEF ConfirmingInv, Live
<1>10. AssignedInv'
  <2>1. \A t \in Live : pc[t] = "reset port" => job[t][2] \in Ports
    BY DEF Types, Shapes, Candidates, Live
  <2> QED
    BY <1>1, <1>2, <1>3, <1>4, <2>1 DEF AssignedInv, Live
<1>11. PortsInv'
  BY <1>1, <1>2 DEF PortsInv
<1>12. OffersInv'
  BY <1>2, <1>3 DEF OffersInv, planVars
<1>13. (Calm => Settled)'
  <2> SUFFICES ASSUME Calm' PROVE Settled'
    OBVIOUS
  <2>1. Settled
    BY <1>2 DEF Calm, PluggedWhereListed
  <2>2. FoundWherePlugged'
    BY <1>1, <1>2, <2>1 DEF Settled, FoundWherePlugged
  <2>3. PlanInv' /\ WherePlugged'
    BY <1>2, <1>3, <2>1, PlanFrame DEF Settled, WherePlugged
  <2> QED
    BY <1>2, <1>4, <2>2, <2>3 DEF Settled
<1> QED
  BY <1>2, <1>5, <1>6, <1>7, <1>8, <1>9, <1>10, <1>11, <1>12, <1>13

\* The ports are destroyed.
LEMMA PortsClearedStep ==
  ASSUME Types, Good, UNCHANGED <<adapterVars, worldVars>>, PortsCleared(main)
  PROVE  Good'
<1> USE ThreadFacts
<1>1. /\ pc[main] = "clear ports" /\ ~ ports_locked'
      /\ pc'[main] = "new plan" /\ \A u \in Workers : pc'[u] = pc[u]
  BY DEF PortsCleared, Goto, Types, Shapes
<1>2. /\ UNCHANGED <<planVars, ports, search_thread, searching, found, trying, missed,
                     job, todo, callbacks>>
      /\ UNCHANGED <<stopping, stopping_locked, buses, buses_copy, up, throwing,
                     outdated, thrown, plugged, moves>>
  BY DEF PortsCleared, searchVars, adapterVars, worldVars
<1> USE DEF Good, Control
<1>3. todo[main] = {} /\ stopping
  BY <1>1 DEF ThreadInv, StopInv, StopLabels
<1>4. /\ ThreadInv' /\ TurnsInv' /\ ConfirmingInv' /\ AssignedInv'
      /\ OffersInv' /\ (Calm => Settled)'
  BY <1>1, <1>2, <1>3, MainFrame DEF MainLabels, PlanReset
<1>5. StopInv'
  BY <1>1, <1>2, <1>3 DEF StopInv, StopLabels, PlanReset, Types, Shapes
<1>6. BusesInv'
  BY <1>1, <1>2 DEF BusesInv
<1>7. PortsInv'
  BY <1>1, <1>2 DEF PortsInv, Live
<1> QED
  BY <1>2, <1>3, <1>4, <1>5, <1>6, <1>7

\* A new plan: whoever is still in cancelBus has survived the stop, and so have the
\* callbacks of the ports that this has led to.
LEMMA ResetPlanStep ==
  ASSUME Types, Good, ResetPlan
  PROVE  Good'
<1> USE ThreadFacts
<1>1. /\ pc[main] = "new plan" /\ pc'[main] = "reset"
      /\ \A u \in Workers : pc'[u] = pc[u]
      /\ PlanInit'
      /\ outdated' = {t \in Workers : pc[t] # "idle"}
  BY DEF ResetPlan, NewPlan, Goto, PlanInit, Types, Shapes
<1>2. /\ UNCHANGED <<ports, ports_locked, search_thread, searching, found, trying,
                     missed, job, todo>>
      /\ UNCHANGED <<callbacks, stopping, stopping_locked, buses, buses_copy, up,
                     throwing, thrown, plugged, moves>>
  BY DEF ResetPlan, NewPlan, portVars, searchVars, worldVars
<1> USE DEF Good, Control
<1>3. /\ stopping /\ up = {} /\ todo[main] = {} /\ PlanReset'
      /\ \A u \in Workers : pc[u] # "cancel" /\ pc[u] \notin AddingLabels
  BY <1>1 DEF StopInv, StopLabels, ThreadInv, PlanReset
<1>4. \A u \in Live' : pc'[u] = "idle"
  BY <1>1 DEF Live
<1>5. ThreadInv'
  <2>1. \A t \in Workers : pc'[t] = "idle" => t \notin callbacks' /\ t \notin outdated'
    BY <1>1, <1>2 DEF ThreadInv
  <2>2. \A t \in Workers : pc'[t] \in CallbackLabels => t \in callbacks'
    BY <1>1, <1>2 DEF ThreadInv
  <2>3. \A t \in outdated' :
          pc'[t] \in {"unassign", "reset port", "unassigned", "confirm", "confirmed"}
    BY <1>1, <1>3 DEF Types, Shapes, WorkerLabels, AddingLabels
  <2>4. \A t \in Threads :
          pc'[t] \notin {"add buses", "confirmed", "unassigned"} => todo'[t] = {}
    BY <1>1, <1>2, <1>3 DEF ThreadInv
  <2> QED
    BY <1>3, <2>1, <2>2, <2>3, <2>4 DEF ThreadInv
<1>6. StopInv'
  BY <1>1, <1>2, <1>3 DEF StopInv, StopLabels, PlanInit, PlanReset
<1>7. BusesInv'
  BY <1>1, <1>2, <1>3 DEF BusesInv, AddingLabels
<1>8. TurnsInv'
  BY <1>2, <1>3 DEF TurnsInv
<1>9. ConfirmingInv'
  BY <1>3, <1>4 DEF ConfirmingInv
<1>10. AssignedInv'
  BY <1>2, <1>3, <1>4 DEF AssignedInv, AssignedLabels
<1>11. PortsInv'
  BY <1>2, <1>3, <1>4 DEF PortsInv, AssignedLabels
<1>12. OffersInv'
  BY <1>1 DEF OffersInv, PlanInit
<1>13. (Calm => Settled)'
  <2> SUFFICES ASSUME Calm' PROVE Settled'
    OBVIOUS
  <2>4. Settled
    BY <1>2 DEF Calm, PluggedWhereListed
  <2>1. PlanInit' => PlanInv'
    BY InitInv, PTL
  <2>2. FoundWherePlugged'
    BY <1>1, <1>2, <2>4 DEF Settled, FoundWherePlugged
  <2>3. WherePlugged'
    BY <1>1 DEF WherePlugged, PlanInit
  <2> QED
    BY <1>1, <1>2, <1>3, <2>1, <2>2, <2>3 DEF Settled
<1> QED
  BY <1>2, <1>5, <1>6, <1>7, <1>8, <1>9, <1>10, <1>11, <1>12, <1>13

\* stop returns.
LEMMA StoppedStep ==
  ASSUME Types, Good, Stopped
  PROVE  Good'
<1> USE ThreadFacts
<1>1. /\ pc[main] = "reset" /\ ~ stopping_locked /\ ~ stopping'
      /\ pc'[main] = "idle" /\ \A u \in Workers : pc'[u] = pc[u]
  BY DEF Stopped, Goto, Types, Shapes
<1>2. /\ UNCHANGED <<planVars, ports, ports_locked, search_thread, searching, found,
                     trying, missed>>
      /\ UNCHANGED <<job, todo, callbacks, stopping_locked, buses, buses_copy, up,
                     throwing, outdated, thrown, plugged, moves>>
  BY DEF Stopped, portVars, searchVars, worldVars
<1> USE DEF Good, Control
<1>3. todo[main] = {} /\ known = {}
  BY <1>1 DEF ThreadInv, StopInv, PlanReset
<1>4. /\ ThreadInv' /\ TurnsInv' /\ ConfirmingInv' /\ AssignedInv'
      /\ OffersInv' /\ (Calm => Settled)'
  BY <1>1, <1>2, <1>3, MainFrame DEF MainLabels, PlanReset
<1>5. StopInv'
  BY <1>1, <1>2, <1>3 DEF StopInv, StopLabels, PlanReset, planVars
<1>6. BusesInv'
  BY <1>1, <1>2 DEF BusesInv
<1>7. PortsInv'
  BY <1>1, <1>2 DEF PortsInv, Live
<1> QED
  BY <1>4, <1>5, <1>6, <1>7

-----------------------------------------------------------------------------
(* Candidates are added, confirmed and unassigned                          *)

\* While a bus is looked for, what is plugged into the port could be there: no
\* other port has been assigned that bus.
LEMMA PluggedAvailable ==
  ASSUME Calm, Types, PlanInv, WherePlugged, known = Buses,
         NEW p \in Ports, plugged[p] # NoBus
  PROVE  plugged[p] \in Buses /\ plugged[p] \in available[p]
<1>1. plugged = Plugged /\ moves = 0
  BY DEF Calm, Types, History
<1>2. plugged[p] \in Buses
  BY <1>1, PluggedType
<1>3. plugged[p] \in On(known, p)
  BY <1>1, <1>2 DEF Calm, PluggedWhereListed, On
<1>4. ASSUME NEW q \in Ports \ {p} PROVE assigned[q] # plugged[p]
  <2>1. assigned[q] # NoBus => assigned[q] = plugged[q]
    BY <1>1 DEF WherePlugged
  <2>2. plugged[p] # plugged[q]
    BY <1>1, PluggedType
  <2> QED
    BY <2>1, <2>2
<1> QED
  BY <1>2, <1>3, <1>4 DEF PlanInv, AvailableIsUnassigned

\* addCandidates gives a candidate to its port.
LEMMA AddCandidateStep ==
  ASSUME Types, Good, UNCHANGED <<adapterVars, worldVars>>,
         NEW t \in Threads, t \notin outdated, AddCandidate(t)
  PROVE  Good'
<1> USE ThreadFacts
<1>1. PICK c \in todo[t] :
        /\ ~ ports_locked
        /\ ports' = ports \cup {c[2]}
        /\ searching' = [searching EXCEPT ![c[2]] =
             IF found[c[2]] \/ \E i \in DOMAIN @ : @[i] = c[1]
               THEN @ ELSE Append(@, c[1])]
        /\ search_thread[c[2]] \notin {"leaves", "joined"}
        /\ search_thread' = [search_thread EXCEPT ![c[2]] =
             IF @ = "ended" /\ ~ found[c[2]] THEN "runs" ELSE @]
        /\ missed' = [missed EXCEPT ![c[2]] = @ \ {c[1]}]
        /\ todo' = [todo EXCEPT ![t] = @ \ {c}]
        /\ UNCHANGED <<planVars, ports_locked, found, trying, pc, job, callbacks>>
  BY DEF AddCandidate
<1>2. UNCHANGED <<stopping, stopping_locked, buses, buses_copy, up, throwing,
                  outdated, thrown, plugged, moves>>
  BY DEF adapterVars, worldVars
<1>3. known' = known /\ assigned' = assigned
  BY <1>1 DEF planVars
<1> DEFINE b == c[1]  p == c[2]
<1>4. /\ b \in Buses /\ p \in Ports /\ c = <<b, p>>
      /\ \A q \in Ports : searching[q] \in Seq(Buses)
      /\ \A q \in Ports : q # p => searching'[q] = searching[q]
      /\ searching'[p] = IF found[p] \/ \E i \in DOMAIN searching[p] : searching[p][i] = b
                           THEN searching[p] ELSE Append(searching[p], b)
      /\ \A u \in Threads : todo'[u] = IF u = t THEN todo[u] \ {c} ELSE todo[u]
      /\ \A q \in Ports : missed'[q] = IF q = p THEN missed[q] \ {b} ELSE missed[q]
      /\ \A q \in Ports : search_thread'[q] =
           IF q = p /\ search_thread[q] = "ended" /\ ~ found[q]
             THEN "runs" ELSE search_thread[q]
  <2>1. c \in Candidates
    BY DEF Types, Shapes
  <2>2. b \in Buses /\ p \in Ports /\ c = <<b, p>>
    BY <2>1 DEF Candidates
  <2>3. \A u \in Threads : todo'[u] = IF u = t THEN todo[u] \ {c} ELSE todo[u]
    BY <1>1 DEF Types, Shapes
  <2>4. searching \in [Ports -> Seq(Buses)]
    BY DEF Types, Shapes
  <2>5. \A q \in Ports : q # p => searching'[q] = searching[q]
    BY <1>1, <2>2, <2>4
  <2>6. searching'[p] = IF found[p] \/ \E i \in DOMAIN searching[p] : searching[p][i] = b
                          THEN searching[p] ELSE Append(searching[p], b)
    BY <1>1, <2>2, <2>4
  <2>7. \A q \in Ports : missed'[q] = IF q = p THEN missed[q] \ {b} ELSE missed[q]
    BY <1>1, <2>2 DEF Types, Shapes
  <2>8. \A q \in Ports : search_thread'[q] =
          IF q = p /\ search_thread[q] = "ended" /\ ~ found[q]
            THEN "runs" ELSE search_thread[q]
    BY <1>1, <2>2 DEF Types, Shapes
  <2> QED
    BY <2>2, <2>3, <2>4, <2>5, <2>6, <2>7, <2>8
<1> HIDE DEF b, p
<1>5. pc[t] \in {"add buses", "confirmed", "unassigned"}
  BY DEF Good, Control, ThreadInv
<1> USE DEF Good, Control
<1>6. ~ PlanReset /\ PlanReset' = PlanReset
  BY <1>1, <1>5 DEF StopInv, PlanReset, Types, Shapes, MainLabels
<1>7. \A q \in Ports, x \in Buses : SearchedFor(x, q) => SearchedFor(x, q)'
  <2>1. ASSUME NEW s \in Seq(Buses)
        PROVE  \A i \in DOMAIN s : i \in DOMAIN Append(s, b) /\ Append(s, b)[i] = s[i]
    BY <1>4
  <2>2. ASSUME NEW q \in Ports, NEW i \in DOMAIN searching[q]
        PROVE  i \in DOMAIN searching'[q] /\ searching'[q][i] = searching[q][i]
    <3>1. CASE searching'[q] = searching[q]
      BY <3>1
    <3>2. CASE searching'[q] = Append(searching[q], b)
      BY <1>4, <2>1, <3>2
    <3> QED
      BY <1>4, <3>1, <3>2
  <2> QED
    BY <2>2 DEF SearchedFor
<1>8. found[p] \/ SearchedFor(b, p)'
  <2>1. CASE found[p]
    BY <2>1
  <2>2. CASE SearchedFor(b, p)
    BY <1>4, <1>7, <2>2
  <2>3. CASE ~ found[p] /\ ~ SearchedFor(b, p)
    <3>1. searching'[p] = Append(searching[p], b)
      BY <1>4, <2>3 DEF SearchedFor
    <3>2. /\ Len(searching[p]) + 1 \in DOMAIN searching'[p]
          /\ searching'[p][Len(searching[p]) + 1] = b
      BY <1>4, <3>1
    <3> QED
      BY <3>2 DEF SearchedFor
  <2> QED
    BY <2>1, <2>2, <2>3
<1>9. ThreadInv'
  <2>1. \A u \in Threads :
          pc'[u] \notin {"add buses", "confirmed", "unassigned"} => todo'[u] = {}
    BY <1>1, <1>4 DEF ThreadInv
  <2> QED
    BY <1>1, <1>2, <1>6, <2>1 DEF ThreadInv
<1>10. StopInv'
  BY <1>1, <1>2, <1>6 DEF StopInv
<1>11. BusesInv'
  BY <1>1, <1>2 DEF BusesInv
<1>12. TurnsInv'
  <2> SUFFICES ASSUME NEW q \in Ports
               PROVE  /\ q \notin ports' =>
                           /\ search_thread'[q] = "ended" /\ searching'[q] = <<>>
                           /\ trying'[q] = NoBus /\ ~ found'[q]
                      /\ found'[q] => search_thread'[q] = "ended" /\ searching'[q] = <<>>
                      /\ trying'[q] # NoBus =>
                           /\ search_thread'[q] = "runs"
                           /\ searching'[q] # <<>> /\ searching'[q][1] = trying'[q]
                           /\ assigned'[q] = NoBus /\ trying'[q] \in On(known', q)
    BY DEF TurnsInv
  <2>1. CASE q # p
    BY <1>1, <1>2, <1>3, <1>4, <1>6, <2>1 DEF TurnsInv
  <2>2. CASE q = p
    <3>1. p \in ports'
      BY <1>1 DEF p
    <3>2. found[p] => search_thread'[p] = "ended" /\ searching'[p] = <<>>
      BY <1>4 DEF TurnsInv
    <3>3. searching[p] # <<>> => searching'[p] # <<>> /\ searching'[p][1] = searching[p][1]
      BY <1>4
    <3>4. search_thread[p] = "runs" => search_thread'[p] = "runs"
      BY <1>4
    <3> QED
      BY <1>1, <1>2, <1>3, <1>4, <1>6, <2>2, <3>1, <3>2, <3>3, <3>4 DEF TurnsInv
  <2> QED
    BY <2>1, <2>2
<1>13. ConfirmingInv'
  BY <1>1, <1>2, <1>6, ConfirmingFrame DEF Live
<1>14. AssignedInv'
  BY <1>1, <1>2, AssignedFrame DEF Live
<1>15. PortsInv'
  BY <1>1, <1>2 DEF PortsInv, Live
<1>16. OffersInv'
  BY <1>1, <1>3 DEF OffersInv, planVars
<1>17. FeasibleSearched => FeasibleSearched'
  <2> SUFFICES ASSUME FeasibleSearched, NEW d \in FeasibleCandidates
               PROVE  \/ SearchedFor(d[1], d[2])'
                      \/ \E u \in Threads :
                           d \in todo'[u] \/ (pc'[u] = "confirm" /\ job'[u][2] = d[2])
                      \/ d[1] \in missed'[d[2]]
    BY <1>1, <1>2, PlanFrame DEF FeasibleSearched
  <2>1. /\ d[1] \in Buses /\ d[2] \in Ports /\ assigned[d[2]] = NoBus
        /\ d = <<d[1], d[2]>>
    BY DEF FeasibleCandidates, Candidates, Feasible
  <2>2. CASE d = c
    <3>1. found[p] => \E u \in Workers : pc[u] = "confirm" /\ job[u][2] = p
      BY <1>4, <1>6, <2>1, <2>2 DEF ConfirmingInv, p
    <3> QED
      BY <1>1, <1>8, <2>2, <3>1 DEF b, p
  <2>3. CASE d # c
    <3>1. d[1] \in missed[d[2]] => d[1] \in missed'[d[2]]
      BY <1>4, <2>1, <2>3
    <3> QED
      BY <1>1, <1>4, <1>7, <2>1, <2>3, <3>1 DEF FeasibleSearched
  <2> QED
    BY <2>2, <2>3
<1>18. (Calm => Settled)'
  <2>1. FoundWherePlugged => FoundWherePlugged'
    BY <1>1, <1>2 DEF FoundWherePlugged
  <2> QED
    BY <1>1, <1>2, <1>17, <2>1, SearchesFrame DEF Settled
<1> QED
  BY <1>9, <1>10, <1>11, <1>12, <1>13, <1>14, <1>15, <1>16, <1>18


\* addCandidate waits for a search thread that waits for addCandidate.
LEMMA JoinSearchStep ==
  ASSUME Types, Good, UNCHANGED <<adapterVars, worldVars>>,
         NEW t \in Threads, JoinSearch(t)
  PROVE  Good'
<1> USE ThreadFacts
<1>1. PICK c \in todo[t] :
        /\ search_thread[c[2]] = "leaves" /\ ports_locked'
        /\ search_thread' = [search_thread EXCEPT ![c[2]] = "joined"]
        /\ UNCHANGED <<planVars, ports, searching, found, trying, missed, threadVars>>
  BY DEF JoinSearch
<1>2. /\ UNCHANGED <<planVars, ports, searching, found, trying, missed>>
      /\ UNCHANGED <<pc, job, todo, callbacks, stopping, stopping_locked, buses,
                     buses_copy, up, throwing, outdated, thrown, plugged, moves>>
  BY <1>1 DEF threadVars, adapterVars, worldVars
<1>3. PlanReset' = PlanReset /\ Live' = Live
  BY <1>2 DEF PlanReset, Live
<1> USE DEF Good, Control
<1>4. TurnsInv'
  <2>1. \A q \in Ports : search_thread[q] \in {"ended", "runs"} =>
          search_thread'[q] = search_thread[q]
    BY <1>1 DEF Types, Shapes
  <2> QED
    BY <1>2, <1>3, <2>1 DEF TurnsInv, planVars
<1>5. /\ ThreadInv' /\ StopInv' /\ BusesInv' /\ PortsInv' /\ OffersInv'
  BY <1>1, <1>2, <1>3
  DEF ThreadInv, StopInv, BusesInv, PortsInv, OffersInv, planVars
<1>6. ConfirmingInv'
  BY <1>2, <1>3, ConfirmingFrame
<1>7. AssignedInv'
  BY <1>2, <1>3, AssignedFrame
<1>8. (Calm => Settled)'
  BY <1>2, SettledFrame
<1> QED
  BY <1>4, <1>5, <1>6, <1>7, <1>8

\* confirmCandidate up to addBus
LEMMA ConfirmCandidateStep ==
  ASSUME Types, Good, UNCHANGED <<adapterVars, worldVars>>,
         NEW t \in Threads, t \notin outdated, ConfirmCandidate(t)
  PROVE  Good'
<1> USE ThreadFacts
<1> DEFINE b == job[t][1]  p == job[t][2]
<1>1. /\ pc[t] = "confirm" /\ t \in Workers
      /\ job[t] \in Candidates /\ b \in Buses /\ p \in Ports
  BY DEF ConfirmCandidate, Types, Shapes, MainLabels, Candidates
<1>2. /\ Assign(b, p)
      /\ \A u \in Threads : pc'[u] = IF u = t THEN "confirmed" ELSE pc[u]
      /\ \A u \in Threads : todo'[u] = IF u = t THEN new_candidates' ELSE todo[u]
      /\ assigned' = [assigned EXCEPT ![p] = b] /\ known' = known
  BY DEF ConfirmCandidate, Returned, Goto, Types, Shapes, Assign
<1>3. /\ UNCHANGED <<ports, ports_locked, search_thread, searching, found, trying,
                     missed, job, callbacks>>
      /\ UNCHANGED <<stopping, stopping_locked, buses, buses_copy, up, throwing,
                     outdated, thrown, plugged, moves>>
  BY DEF ConfirmCandidate, portVars, searchVars, adapterVars, worldVars
<1>4. /\ b \in On(known, p) /\ assigned[p] = NoBus /\ found[p]
      /\ t \in callbacks /\ todo[t] = {} /\ b # NoBus
  BY <1>1, NoBusIsNoBus DEF Good, Control, ConfirmingInv, ThreadInv, CallbackLabels, Live
<1>5. \A q \in Ports : assigned'[q] = IF q = p THEN b ELSE assigned[q]
  BY <1>2 DEF Types, PlanTypeOK
<1>7. pc'[main] = pc[main] /\ Live' = Live /\ t \in Live
  BY <1>1, <1>2, <1>3, <1>4 DEF Live
<1>p. ~ PlanReset /\ ~ PlanReset' /\ pc[main] \notin {"reset", "idle"}
  BY <1>1, <1>7, LiveFacts DEF Good, Control, PlanReset
<1>8. ASSUME Calm
      PROVE  /\ Settled /\ b = plugged[p] /\ b \in available[p]
             /\ new_candidates' = FeasibleCandidates' \ FeasibleCandidates
             /\ PlanInv'
  <2>1. Settled
    BY <1>8 DEF Good
  <2>2. b = plugged[p]
    BY <1>1, <2>1 DEF Settled, FoundWherePlugged
  <2>3. known = Buses
    BY <1>4 DEF On, Good, Control, OffersInv
  <2>4. b \in available[p]
    BY <1>1, <1>4, <1>8, <2>1, <2>2, <2>3, PluggedAvailable DEF Settled
  <2>5. new_candidates' = FeasibleCandidates' \ FeasibleCandidates
    BY <1>1, <1>2, <1>4, <2>1, <2>4, AssignReturns DEF Settled
  <2>6. PlanInv'
    BY <1>1, <1>2, <1>4, <2>1, <2>4, AssignTypes, AssignInv DEF Settled, PlanInv
  <2> QED
    BY <2>1, <2>2, <2>4, <2>5, <2>6
<1>9. OffersInv'
  <2>1. \A q \in Ports : available'[q] \subseteq available[q]
    BY <1>2 DEF Assign
  <2> QED
    BY <1>2, <1>4, <1>5, <2>1 DEF Good, Control, OffersInv
<1> HIDE DEF b, p
<1> USE DEF Good, Control
<1>10. ThreadInv'
  <2>1. \A u \in Threads :
          pc'[u] \notin {"add buses", "confirmed", "unassigned"} => todo'[u] = {}
    BY <1>2 DEF ThreadInv
  <2> QED
    BY <1>1, <1>2, <1>3, <1>4, <1>p, <2>1 DEF ThreadInv, CallbackLabels, Types, Shapes
<1>11. StopInv'
  BY <1>1, <1>2, <1>3, <1>7, <1>p DEF StopInv, AddingLabels
<1>12. BusesInv'
  BY <1>1, <1>2, <1>3, <1>7 DEF BusesInv
<1>13. TurnsInv'
  BY <1>2, <1>3, <1>4, <1>5, <1>p DEF TurnsInv
<1>14. ConfirmingInv'
  <2>1. ASSUME NEW u \in Live', pc'[u] = "confirm"
        PROVE  /\ u \in Live /\ pc[u] = "confirm" /\ job'[u] = job[u]
               /\ job[u][2] \in Ports /\ job[u][2] # p
    BY <1>1, <1>2, <1>3, <1>7, <2>1 DEF ConfirmingInv, p, Types, Shapes, Candidates
  <2>2. \A u \in Live' : pc'[u] = "confirm" =>
          /\ job'[u][1] \in On(known', job'[u][2])
          /\ assigned'[job'[u][2]] = NoBus /\ found'[job'[u][2]]
    BY <1>2, <1>3, <1>5, <2>1 DEF ConfirmingInv
  <2>3. \A u, v \in Live' :
          pc'[u] = "confirm" /\ pc'[v] = "confirm" /\ job'[u][2] = job'[v][2] => u = v
    BY <2>1 DEF ConfirmingInv
  <2>4. ASSUME NEW q \in Ports, found'[q], assigned'[q] = NoBus
        PROVE  \E u \in Live' : pc'[u] = "confirm" /\ job'[u][2] = q
    <3>1. q # p /\ assigned[q] = NoBus /\ found[q]
      BY <1>3, <1>4, <1>5, <2>4
    <3>2. PICK u \in Live : pc[u] = "confirm" /\ job[u][2] = q
      BY <1>p, <3>1 DEF ConfirmingInv
    <3> QED
      BY <1>2, <1>3, <1>7, <3>1, <3>2 DEF p
  <2> QED
    BY <2>2, <2>3, <2>4 DEF ConfirmingInv
<1>15. AssignedInv'
  <2>1. ASSUME NEW u \in Live', pc'[u] \in AssignedLabels, u # t
        PROVE  /\ u \in Live /\ pc'[u] = pc[u] /\ job'[u] = job[u]
               /\ job[u][2] \in Ports /\ job[u][2] # p
               /\ assigned[job[u][2]] = job[u][1]
    <3>1. u \in Live /\ pc'[u] = pc[u] /\ job'[u] = job[u]
      BY <1>2, <1>3, <1>7, <2>1
    <3>a. u \in Workers /\ pc[u] # "idle"
      BY <2>1, <3>1 DEF AssignedLabels
    <3>b. job[u] \in Candidates
      BY <3>a DEF Types, Shapes
    <3>2. job[u][2] \in Ports /\ job[u][1] # NoBus
      BY <3>b, NoBusIsNoBus DEF Candidates
    <3>3. assigned[job[u][2]] = job[u][1]
      BY <2>1, <3>1 DEF AssignedInv
    <3> QED
      BY <1>4, <3>1, <3>2, <3>3
  <2>2. ASSUME NEW c \in up PROVE c[2] \in Ports /\ c[2] # p
    <3>1. c \in Candidates
      BY DEF Types, Shapes
    <3>2. c[2] \in Ports /\ c[1] # NoBus
      BY <3>1, NoBusIsNoBus DEF Candidates
    <3>3. assigned[c[2]] = c[1]
      BY DEF AssignedInv
    <3> QED
      BY <1>4, <3>2, <3>3
  <2>3. \A u \in Live' : pc'[u] \in AssignedLabels => assigned'[job'[u][2]] = job'[u][1]
    BY <1>1, <1>3, <1>5, <2>1 DEF b, p
  <2>4. \A u, v \in Live' :
          pc'[u] \in AssignedLabels /\ pc'[v] \in AssignedLabels
          /\ job'[u][2] = job'[v][2] => u = v
    BY <1>3, <2>1 DEF AssignedInv, p
  <2>5. \A c \in up' : assigned'[c[2]] = c[1]
    BY <1>3, <1>5, <2>2 DEF AssignedInv
  <2>6. \A c \in up', u \in Live' : pc'[u] \in AssignedLabels => job'[u][2] # c[2]
    BY <1>3, <2>1, <2>2 DEF AssignedInv, p
  <2>7. \A u \in Live' : pc'[u] = "reset port" => ~ found'[job'[u][2]]
    BY <1>2, <1>3, <2>1 DEF AssignedInv, AssignedLabels
  <2> QED
    BY <2>3, <2>4, <2>5, <2>6, <2>7 DEF AssignedInv
<1>16. PortsInv'
  <2>1. p \in ports
    BY <1>4 DEF PortsInv, p
  <2> QED
    BY <1>2, <1>3, <1>7, <2>1 DEF PortsInv, p
<1>17. Calm => (FeasibleSearched => FeasibleSearched')
  <2> SUFFICES ASSUME Calm, FeasibleSearched, NEW d \in FeasibleCandidates'
               PROVE  \/ SearchedFor(d[1], d[2])'
                      \/ \E u \in Threads :
                           d \in todo'[u] \/ (pc'[u] = "confirm" /\ job'[u][2] = d[2])
                      \/ d[1] \in missed'[d[2]]
    BY <1>3 DEF FeasibleSearched
  <2>1. d[2] \in Ports /\ assigned'[d[2]] = NoBus
    BY DEF FeasibleCandidates, Candidates, Feasible
  <2>2. d[2] # p
    BY <1>4, <1>5, <2>1
  <2>3. CASE d \in FeasibleCandidates
    <3>1. SearchedFor(d[1], d[2])' <=> SearchedFor(d[1], d[2])
      BY <1>3 DEF SearchedFor
    <3>2. CASE SearchedFor(d[1], d[2])
      BY <3>1, <3>2
    <3>3. CASE \E u \in Threads :
                 d \in todo[u] \/ (pc[u] = "confirm" /\ job[u][2] = d[2])
      <4>1. PICK u \in Threads :
              d \in todo[u] \/ (pc[u] = "confirm" /\ job[u][2] = d[2])
        BY <3>3
      <4>2. u # t
        BY <1>4, <2>2, <4>1 DEF p
      <4> QED
        BY <1>2, <1>3, <4>1, <4>2
    <3>4. CASE d[1] \in missed[d[2]]
      BY <1>3, <3>4
    <3> QED
      BY <2>3, <3>2, <3>3, <3>4 DEF FeasibleSearched
  <2>4. CASE d \notin FeasibleCandidates
    BY <1>2, <1>8, <2>4
  <2> QED
    BY <2>3, <2>4
<1>18. (Calm => Settled)'
  <2> SUFFICES ASSUME Calm' PROVE Settled'
    OBVIOUS
  <2>1. Calm
    BY <1>3 DEF Calm, PluggedWhereListed
  <2>2. FoundWherePlugged'
    BY <1>1, <1>2, <1>3, <1>8, <2>1 DEF Settled, FoundWherePlugged
  <2>3. WherePlugged'
    BY <1>3, <1>5, <1>8, <2>1 DEF Settled, WherePlugged
  <2> QED
    BY <1>3, <1>8, <1>17, <2>1, <2>2, <2>3 DEF Settled
<1> QED
  BY <1>9, <1>10, <1>11, <1>12, <1>13, <1>14, <1>15, <1>16, <1>18

\* unassign up to the end of Port::reset
LEMMA ResetPortStep ==
  ASSUME Types, Good, UNCHANGED <<adapterVars, worldVars>>,
         NEW t \in Threads, t \notin outdated, ResetPort(t)
  PROVE  Good'
<1> USE ThreadFacts
<1> DEFINE p == job[t][2]
<1>1. /\ pc[t] = "unassign" /\ t \in Workers /\ t \in Live
      /\ job[t] \in Candidates /\ p \in Ports
  BY DEF ResetPort, Types, Shapes, MainLabels, Candidates, Live
<1>2. /\ \A u \in Threads : pc'[u] = IF u = t THEN "reset port" ELSE pc[u]
      /\ \A q \in Ports : searching'[q] = IF q = p THEN <<>> ELSE searching[q]
      /\ \A q \in Ports : found'[q] = IF q = p THEN FALSE ELSE found[q]
      /\ \A q \in Ports : trying'[q] = IF q = p THEN NoBus ELSE trying[q]
      /\ \A q \in Ports : search_thread'[q] = IF q = p THEN "ended" ELSE search_thread[q]
  BY DEF ResetPort, StopThread, Goto, Types, Shapes
<1>3. /\ UNCHANGED <<planVars, ports, ports_locked, missed, job, todo, callbacks>>
      /\ UNCHANGED <<stopping, stopping_locked, buses, buses_copy, up, throwing,
                     outdated, thrown, plugged, moves>>
  BY DEF ResetPort, adapterVars, worldVars
<1>4. known' = known /\ assigned' = assigned /\ pc'[main] = pc[main] /\ Live' = Live
  BY <1>1, <1>2, <1>3 DEF planVars, Live
<1>p. ~ PlanReset /\ ~ PlanReset' /\ pc[main] \notin {"reset", "idle"}
  BY <1>1, <1>4, LiveFacts DEF Good, Control, PlanReset, Live
<1> HIDE DEF p
<1> USE DEF Good, Control
<1>5. assigned[p] # NoBus
  BY <1>1, NoBusIsNoBus DEF AssignedInv, AssignedLabels, Candidates, p
<1>6. ThreadInv'
  BY <1>1, <1>2, <1>3, <1>p DEF ThreadInv, CallbackLabels, Types, Shapes
<1>7. StopInv'
  BY <1>1, <1>2, <1>3, <1>4, <1>p DEF StopInv, AddingLabels
<1>8. BusesInv'
  BY <1>1, <1>2, <1>3, <1>4 DEF BusesInv
<1>9. TurnsInv'
  BY <1>2, <1>3, <1>4, <1>p DEF TurnsInv
<1>10. ConfirmingInv'
  <2>1. ASSUME NEW u \in Live', pc'[u] = "confirm"
        PROVE  /\ u \in Live /\ pc[u] = "confirm" /\ job'[u] = job[u]
               /\ job[u][2] \in Ports /\ job[u][2] # p
    <3>1. u \in Live /\ pc[u] = "confirm" /\ job'[u] = job[u]
      BY <1>1, <1>2, <1>3, <1>4, <2>1
    <3>2. job[u] \in Candidates /\ assigned[job[u][2]] = NoBus
      BY <3>1 DEF ConfirmingInv, Types, Shapes, Live
    <3> QED
      BY <1>5, <3>1, <3>2 DEF Candidates
  <2>2. \A u \in Live' : pc'[u] = "confirm" =>
          /\ job'[u][1] \in On(known', job'[u][2])
          /\ assigned'[job'[u][2]] = NoBus /\ found'[job'[u][2]]
    BY <1>2, <1>3, <1>4, <2>1 DEF ConfirmingInv
  <2>3. \A u, v \in Live' :
          pc'[u] = "confirm" /\ pc'[v] = "confirm" /\ job'[u][2] = job'[v][2] => u = v
    BY <2>1 DEF ConfirmingInv
  <2>4. ASSUME NEW q \in Ports, found'[q], assigned'[q] = NoBus
        PROVE  \E u \in Live' : pc'[u] = "confirm" /\ job'[u][2] = q
    <3>1. found[q] /\ assigned[q] = NoBus
      BY <1>2, <1>4, <2>4
    <3>2. PICK u \in Live : pc[u] = "confirm" /\ job[u][2] = q
      BY <1>p, <3>1 DEF ConfirmingInv
    <3> QED
      BY <1>1, <1>2, <1>3, <1>4, <3>2
  <2> QED
    BY <2>2, <2>3, <2>4 DEF ConfirmingInv
<1>11. AssignedInv'
  <2>1. \A u \in Live' : pc'[u] \in AssignedLabels =>
          /\ u \in Live /\ pc[u] \in AssignedLabels /\ job'[u] = job[u]
          /\ job[u][2] \in Ports
    BY <1>1, <1>2, <1>3, <1>4 DEF AssignedLabels, Types, Shapes, Candidates, Live
  <2>2. \A u \in Live' : pc'[u] \in AssignedLabels => assigned'[job'[u][2]] = job'[u][1]
    BY <1>4, <2>1 DEF AssignedInv
  <2>3. \A u, v \in Live' :
          pc'[u] \in AssignedLabels /\ pc'[v] \in AssignedLabels
          /\ job'[u][2] = job'[v][2] => u = v
    BY <2>1 DEF AssignedInv
  <2>4. \A c \in up' : assigned'[c[2]] = c[1]
    BY <1>3, <1>4 DEF AssignedInv
  <2>5. ASSUME NEW c \in up', NEW u \in Live', pc'[u] \in AssignedLabels
        PROVE  job'[u][2] # c[2]
    <3>1. c \in up /\ u \in Live /\ pc[u] \in AssignedLabels /\ job'[u] = job[u]
      BY <1>3, <2>1, <2>5
    <3> QED
      BY <3>1 DEF AssignedInv
  <2>6. ASSUME NEW u \in Live', pc'[u] = "reset port" PROVE ~ found'[job'[u][2]]
    <3>1. CASE u = t
      BY <1>1, <1>2, <1>3, <3>1 DEF p
    <3>2. CASE u # t
      <4>1. u \in Live /\ pc[u] = "reset port" /\ job'[u] = job[u]
        BY <1>2, <1>3, <1>4, <2>6, <3>2
      <4>2. ~ found[job[u][2]] /\ job[u][2] \in Ports
        BY <2>1, <2>6, <4>1 DEF AssignedInv, AssignedLabels
      <4> QED
        BY <1>2, <4>1, <4>2
    <3> QED
      BY <3>1, <3>2
  <2> QED
    BY <2>2, <2>3, <2>4, <2>5, <2>6 DEF AssignedInv
<1>12. PortsInv'
  BY <1>1, <1>2, <1>3, <1>4 DEF PortsInv, AssignedLabels
<1>13. OffersInv'
  BY <1>3, <1>4 DEF OffersInv, planVars
<1>14. FeasibleSearched => FeasibleSearched'
  <2> SUFFICES ASSUME FeasibleSearched, NEW d \in FeasibleCandidates
               PROVE  \/ SearchedFor(d[1], d[2])'
                      \/ \E u \in Threads :
                           d \in todo'[u] \/ (pc'[u] = "confirm" /\ job'[u][2] = d[2])
                      \/ d[1] \in missed'[d[2]]
    BY <1>3, PlanFrame DEF FeasibleSearched
  <2>1. d[2] \in Ports /\ d[2] # p
    BY <1>5 DEF FeasibleCandidates, Candidates, Feasible
  <2>2. SearchedFor(d[1], d[2])' <=> SearchedFor(d[1], d[2])
    BY <1>2, <2>1 DEF SearchedFor
  <2>3. \A u \in Threads : pc[u] = "confirm" => pc'[u] = "confirm" /\ job'[u] = job[u]
    BY <1>1, <1>2, <1>3
  <2> QED
    BY <1>3, <2>2, <2>3 DEF FeasibleSearched
<1>15. (Calm => Settled)'
  <2>1. FoundWherePlugged => FoundWherePlugged'
    BY <1>1, <1>2, <1>3 DEF FoundWherePlugged
  <2> QED
    BY <1>3, <1>14, <2>1, SearchesFrame DEF Settled
<1> QED
  BY <1>6, <1>7, <1>8, <1>9, <1>10, <1>11, <1>12, <1>13, <1>15

\* unassign up to addCandidates
LEMMA UnassignPortStep ==
  ASSUME Types, Good, UNCHANGED <<adapterVars, worldVars>>,
         NEW t \in Threads, t \notin outdated, UnassignPort(t)
  PROVE  Good'
<1> USE ThreadFacts
<1> DEFINE p == job[t][2]
<1>1. /\ pc[t] = "reset port" /\ t \in Workers /\ t \in Live
      /\ job[t] \in Candidates /\ p \in Ports
  BY DEF UnassignPort, Types, Shapes, MainLabels, Candidates, Live
<1>2. /\ Unassign(p)
      /\ \A u \in Threads : pc'[u] = IF u = t THEN "unassigned" ELSE pc[u]
      /\ \A u \in Threads : todo'[u] = IF u = t THEN new_candidates' ELSE todo[u]
      /\ assigned' = [assigned EXCEPT ![p] = NoBus] /\ known' = known
  BY DEF UnassignPort, Returned, Goto, Types, Shapes, Unassign
<1>3. /\ UNCHANGED <<ports, ports_locked, search_thread, searching, found, trying,
                     missed, job, callbacks>>
      /\ UNCHANGED <<stopping, stopping_locked, buses, buses_copy, up, throwing,
                     outdated, thrown, plugged, moves>>
  BY DEF UnassignPort, portVars, searchVars, adapterVars, worldVars
<1>4. \A q \in Ports : assigned'[q] = IF q = p THEN NoBus ELSE assigned[q]
  BY <1>2 DEF Types, PlanTypeOK
<1>5. pc'[main] = pc[main] /\ Live' = Live
  BY <1>1, <1>2, <1>3 DEF Live
<1>6. ASSUME PlanInv
      PROVE  new_candidates' = FeasibleCandidates' \ FeasibleCandidates /\ PlanInv'
  <2>1. PlanNext
    BY <1>1, <1>2 DEF PlanNext
  <2> QED
    BY <1>1, <1>2, <1>6, <2>1, UnassignReturns, InvStep
<1>7. OffersInv'
  <2>1. ASSUME NEW q \in Ports PROVE available'[q] \subseteq On(known, q)
    <3>1. available[q] \subseteq On(known, q)
      BY DEF Good, Control, OffersInv
    <3>2. assigned[p] # NoBus => assigned[p] \in known
      BY <1>1 DEF Good, Control, OffersInv, On
    <3> QED
      BY <1>1, <1>2, <3>1, <3>2 DEF Unassign, On, Types, PlanTypeOK
  <2> QED
    BY <1>2, <1>4, <2>1 DEF Good, Control, OffersInv
<1>p. ~ PlanReset /\ ~ PlanReset' /\ pc[main] \notin {"reset", "idle"}
  BY <1>1, <1>5, LiveFacts DEF Good, Control, PlanReset, Live
<1> HIDE DEF p
<1> USE DEF Good, Control
<1>8. todo[t] = {} /\ ~ found[p]
  BY <1>1 DEF ThreadInv, AssignedInv, p
<1>9. ThreadInv'
  <2>1. \A u \in Threads :
          pc'[u] \notin {"add buses", "confirmed", "unassigned"} => todo'[u] = {}
    BY <1>2 DEF ThreadInv
  <2> QED
    BY <1>1, <1>2, <1>3, <1>p, <2>1 DEF ThreadInv, CallbackLabels, Types, Shapes
<1>10. StopInv'
  BY <1>1, <1>2, <1>3, <1>5, <1>p DEF StopInv, AddingLabels
<1>11. BusesInv'
  BY <1>1, <1>2, <1>3, <1>5 DEF BusesInv
<1>12. TurnsInv'
  BY <1>2, <1>3, <1>4, <1>p DEF TurnsInv
<1>13. ConfirmingInv'
  <2>1. \A u \in Live' : pc'[u] = "confirm" =>
          u \in Live /\ pc[u] = "confirm" /\ job'[u] = job[u] /\ job[u][2] \in Ports
    BY <1>1, <1>2, <1>3, <1>5 DEF Types, Shapes, Candidates
  <2>2. \A u \in Live' : pc'[u] = "confirm" =>
          /\ job'[u][1] \in On(known', job'[u][2])
          /\ assigned'[job'[u][2]] = NoBus /\ found'[job'[u][2]]
    BY <1>2, <1>3, <1>4, <2>1 DEF ConfirmingInv
  <2>3. \A u, v \in Live' :
          pc'[u] = "confirm" /\ pc'[v] = "confirm" /\ job'[u][2] = job'[v][2] => u = v
    BY <2>1 DEF ConfirmingInv
  <2>4. ASSUME NEW q \in Ports, found'[q], assigned'[q] = NoBus
        PROVE  \E u \in Live' : pc'[u] = "confirm" /\ job'[u][2] = q
    <3>1. found[q] /\ assigned[q] = NoBus
      BY <1>3, <1>4, <1>8, <2>4
    <3>2. PICK u \in Live : pc[u] = "confirm" /\ job[u][2] = q
      BY <1>p, <3>1 DEF ConfirmingInv
    <3> QED
      BY <1>1, <1>2, <1>3, <1>5, <3>2
  <2> QED
    BY <2>2, <2>3, <2>4 DEF ConfirmingInv
<1>14. AssignedInv'
  <2>1. ASSUME NEW u \in Live', pc'[u] \in AssignedLabels
        PROVE  /\ u \in Live /\ pc'[u] = pc[u] /\ job'[u] = job[u]
               /\ job[u][2] \in Ports /\ job[u][2] # p
    <3>1. u # t /\ u \in Live /\ pc'[u] = pc[u] /\ job'[u] = job[u]
      BY <1>2, <1>3, <1>5, <2>1 DEF AssignedLabels
    <3>2. job[u][2] \in Ports
      BY <2>1, <3>1 DEF Types, Shapes, Candidates, AssignedLabels
    <3>3. job[u][2] # p
      BY <1>1, <2>1, <3>1 DEF AssignedInv, AssignedLabels, p
    <3> QED
      BY <3>1, <3>2, <3>3
  <2>2. \A c \in up : c[2] \in Ports /\ c[2] # p
    BY <1>1, OnlyHere DEF AssignedLabels, Types, Live, p
  <2>3. ASSUME NEW u \in Live', pc'[u] \in AssignedLabels
        PROVE  assigned'[job'[u][2]] = job'[u][1]
    <3>1. assigned[job[u][2]] = job[u][1]
      BY <2>1, <2>3 DEF AssignedInv
    <3> QED
      BY <1>4, <2>1, <2>3, <3>1
  <2>4. \A u, v \in Live' :
          pc'[u] \in AssignedLabels /\ pc'[v] \in AssignedLabels
          /\ job'[u][2] = job'[v][2] => u = v
    BY <2>1 DEF AssignedInv
  <2>5. \A c \in up' : assigned'[c[2]] = c[1]
    BY <1>3, <1>4, <2>2 DEF AssignedInv
  <2>6. \A c \in up', u \in Live' : pc'[u] \in AssignedLabels => job'[u][2] # c[2]
    BY <1>3, <2>1 DEF AssignedInv
  <2>7. \A u \in Live' : pc'[u] = "reset port" => ~ found'[job'[u][2]]
    BY <1>3, <2>1 DEF AssignedInv, AssignedLabels
  <2> QED
    BY <2>3, <2>4, <2>5, <2>6, <2>7 DEF AssignedInv
<1>15. PortsInv'
  BY <1>1, <1>2, <1>3, <1>5 DEF PortsInv, AssignedLabels
<1>16. PlanInv /\ FeasibleSearched => FeasibleSearched'
  <2> SUFFICES ASSUME PlanInv, FeasibleSearched, NEW d \in FeasibleCandidates'
               PROVE  \/ SearchedFor(d[1], d[2])'
                      \/ \E u \in Threads :
                           d \in todo'[u] \/ (pc'[u] = "confirm" /\ job'[u][2] = d[2])
                      \/ d[1] \in missed'[d[2]]
    BY <1>3 DEF FeasibleSearched
  <2>1. CASE d \in FeasibleCandidates
    <3>1. SearchedFor(d[1], d[2])' <=> SearchedFor(d[1], d[2])
      BY <1>3 DEF SearchedFor
    <3>2. \A u \in Threads : d \in todo[u] => d \in todo'[u]
      BY <1>2, <1>8
    <3>3. \A u \in Threads : pc[u] = "confirm" => pc'[u] = "confirm" /\ job'[u] = job[u]
      BY <1>1, <1>2, <1>3
    <3> QED
      BY <1>3, <2>1, <3>1, <3>2, <3>3 DEF FeasibleSearched
  <2>2. CASE d \notin FeasibleCandidates
    BY <1>2, <1>6, <2>2
  <2> QED
    BY <2>1, <2>2
<1>17. (Calm => Settled)'
  <2> SUFFICES ASSUME Calm' PROVE Settled'
    OBVIOUS
  <2>1. Settled
    BY <1>3 DEF Calm, PluggedWhereListed
  <2>2. FoundWherePlugged'
    BY <1>1, <1>2, <1>3, <2>1 DEF Settled, FoundWherePlugged
  <2>3. WherePlugged'
    BY <1>3, <1>4, <2>1 DEF Settled, WherePlugged
  <2> QED
    BY <1>3, <1>6, <1>16, <2>1, <2>2, <2>3 DEF Settled
<1> QED
  BY <1>7, <1>9, <1>10, <1>11, <1>12, <1>13, <1>14, <1>15, <1>17

-----------------------------------------------------------------------------
(* The searches                                                            *)

\* A candidate's turn
LEMMA CheckStep ==
  ASSUME Types, Good, UNCHANGED <<adapterVars, worldVars>>,
         NEW p \in Ports, ~ PlanReset, Check(p)
  PROVE  Good'
<1> USE ThreadFacts
<1> DEFINE b == Head(searching[p])
<1>1. /\ searching[p] # <<>> /\ trying[p] = NoBus /\ search_thread[p] = "runs"
      /\ searching[p] \in Seq(Buses) /\ b \in Buses /\ b = searching[p][1]
      /\ searching'[p] = IF Feasible(b, p) THEN searching[p] ELSE Tail(searching[p])
      /\ trying'[p] = IF Feasible(b, p) THEN b ELSE NoBus
      /\ \A q \in Ports : q # p => searching'[q] = searching[q] /\ trying'[q] = trying[q]
  <2>1. searching \in [Ports -> Seq(Buses)] /\ trying \in [Ports -> Buses \cup {NoBus}]
    BY DEF Types, Shapes
  <2>2. searching[p] # <<>> /\ trying[p] = NoBus /\ search_thread[p] = "runs"
    BY DEF Check
  <2>3. b \in Buses /\ b = searching[p][1]
    BY <2>1, <2>2
  <2>4. CASE Feasible(b, p)
    BY <2>1, <2>2, <2>3, <2>4 DEF Check
  <2>5. CASE ~ Feasible(b, p)
    BY <2>1, <2>2, <2>3, <2>5 DEF Check
  <2> QED
    BY <2>4, <2>5
<1>2. /\ UNCHANGED <<planVars, ports, ports_locked, search_thread, found, missed, pc,
                     job, todo, callbacks>>
      /\ UNCHANGED <<stopping, stopping_locked, buses, buses_copy, up, throwing,
                     outdated, thrown, plugged, moves>>
  BY DEF Check, threadVars, adapterVars, worldVars
<1>3. /\ known' = known /\ assigned' = assigned
      /\ PlanReset' = PlanReset /\ Live' = Live
  BY <1>2 DEF planVars, PlanReset, Live
<1> HIDE DEF b
<1> USE DEF Good, Control
<1>4. p \in ports /\ ~ found[p]
  BY <1>1 DEF TurnsInv
<1>5. Feasible(b, p) => assigned[p] = NoBus /\ b \in On(known, p)
  BY DEF Feasible, OffersInv
<1>a. ASSUME Calm, Feasible(b, p), plugged[p] # NoBus,
             BusLeq(devices[b], devices[plugged[p]])
      PROVE  b = plugged[p]
  <2>1. PlanInv /\ WherePlugged
    BY <1>a DEF Settled
  <2>2. known = Buses
    BY <1>5, <1>a DEF OffersInv, On
  <2>3. Ambiguators(available[p], b) = {}
    BY <1>1, <1>5, <1>a, <2>1, FeasibleIsUnambiguous
  <2>4. plugged[p] \in available[p] /\ plugged[p] \in Buses
    BY <1>a, <2>1, <2>2, PluggedAvailable
  <2> QED
    BY <1>a, <2>3, <2>4 DEF Ambiguators, Ambiguates
<1>6. ThreadInv'
  BY <1>2, <1>3 DEF ThreadInv
<1>7. StopInv'
  BY <1>2, <1>3 DEF StopInv
<1>8. BusesInv'
  BY <1>2 DEF BusesInv
<1>9. TurnsInv'
  <2> SUFFICES ASSUME NEW q \in Ports
               PROVE  /\ q \notin ports' =>
                           /\ search_thread'[q] = "ended" /\ searching'[q] = <<>>
                           /\ trying'[q] = NoBus /\ ~ found'[q]
                      /\ found'[q] => search_thread'[q] = "ended" /\ searching'[q] = <<>>
                      /\ trying'[q] # NoBus =>
                           /\ search_thread'[q] = "runs"
                           /\ searching'[q] # <<>> /\ searching'[q][1] = trying'[q]
                           /\ assigned'[q] = NoBus /\ trying'[q] \in On(known', q)
    BY DEF TurnsInv
  <2>1. CASE q # p
    BY <1>1, <1>2, <1>3, <2>1 DEF TurnsInv
  <2>2. CASE q = p
    BY <1>1, <1>2, <1>3, <1>4, <1>5, <2>2
  <2> QED
    BY <2>1, <2>2
<1>10. ConfirmingInv'
  BY <1>2, <1>3, ConfirmingFrame
<1>11. AssignedInv'
  BY <1>2, AssignedFrame DEF Live
<1>12. PortsInv'
  BY <1>2 DEF PortsInv, Live
<1>13. OffersInv'
  BY <1>2, <1>3 DEF OffersInv, planVars
<1>14. FeasibleSearched => FeasibleSearched'
  <2> SUFFICES ASSUME FeasibleSearched, NEW d \in FeasibleCandidates
               PROVE  \/ SearchedFor(d[1], d[2])'
                      \/ \E u \in Threads :
                           d \in todo'[u] \/ (pc'[u] = "confirm" /\ job'[u][2] = d[2])
                      \/ d[1] \in missed'[d[2]]
    BY <1>2, PlanFrame DEF FeasibleSearched
  <2>1. d[2] \in Ports /\ Feasible(d[1], d[2])
    BY DEF FeasibleCandidates, Candidates
  <2>2. SearchedFor(d[1], d[2]) => SearchedFor(d[1], d[2])'
    <3>1. CASE d[2] # p \/ Feasible(b, p)
      <4>1. searching'[d[2]] = searching[d[2]]
        BY <1>1, <2>1, <3>1
      <4> QED
        BY <4>1 DEF SearchedFor
    <3>2. CASE d[2] = p /\ ~ Feasible(b, p)
      <4> SUFFICES ASSUME NEW i \in DOMAIN searching[p], searching[p][i] = d[1]
                   PROVE  SearchedFor(d[1], d[2])'
        BY <3>2 DEF SearchedFor
      <4>1. d[1] # b
        BY <2>1, <3>2
      <4>2. i \in 1 .. Len(searching[p]) /\ i # 1
        BY <1>1, <4>1
      <4>3. /\ i - 1 \in DOMAIN Tail(searching[p])
            /\ Tail(searching[p])[i - 1] = searching[p][i]
        BY <1>1, <4>2
      <4> QED
        BY <1>1, <3>2, <4>3 DEF SearchedFor
    <3> QED
      BY <3>1, <3>2
  <2> QED
    BY <1>2, <2>2 DEF FeasibleSearched
<1>15. (Calm => Settled)'
  <2>1. Calm /\ FoundWherePlugged => FoundWherePlugged'
    BY <1>1, <1>2, <1>a DEF FoundWherePlugged
  <2> QED
    BY <1>2, <1>14, <2>1, SearchesFrame DEF Settled
<1> QED
  BY <1>6, <1>7, <1>8, <1>9, <1>10, <1>11, <1>12, <1>13, <1>15

\* A candidate is not found, and waits for its next turn.
LEMMA NotFoundStep ==
  ASSUME Types, Good, UNCHANGED <<adapterVars, worldVars>>, NEW p \in Ports,
         ~ PlanReset, NotFound(p)
  PROVE  Good'
<1> USE ThreadFacts
<1>1. /\ trying[p] # NoBus /\ searching[p] \in Seq(Buses)
      /\ searching'[p] = Append(Tail(searching[p]), Head(searching[p]))
      /\ trying'[p] = NoBus
      /\ \A q \in Ports : q # p => searching'[q] = searching[q] /\ trying'[q] = trying[q]
  BY DEF NotFound, Types, Shapes
<1>2. /\ UNCHANGED <<planVars, ports, ports_locked, search_thread, found, missed, pc,
                     job, todo, callbacks>>
      /\ UNCHANGED <<stopping, stopping_locked, buses, buses_copy, up, throwing,
                     outdated, thrown, plugged, moves>>
  BY DEF NotFound, threadVars, adapterVars, worldVars
<1>3. /\ known' = known /\ assigned' = assigned
      /\ PlanReset' = PlanReset /\ Live' = Live
  BY <1>2 DEF planVars, PlanReset, Live
<1> USE DEF Good, Control
<1>4. searching[p] # <<>> /\ p \in ports /\ ~ found[p]
  BY <1>1 DEF TurnsInv
<1>5. ThreadInv'
  BY <1>2, <1>3 DEF ThreadInv
<1>6. StopInv'
  BY <1>2, <1>3 DEF StopInv
<1>7. BusesInv'
  BY <1>2 DEF BusesInv
<1>8. TurnsInv'
  BY <1>1, <1>2, <1>3, <1>4 DEF TurnsInv
<1>9. ConfirmingInv'
  BY <1>2, <1>3, ConfirmingFrame
<1>10. AssignedInv'
  BY <1>2, AssignedFrame DEF Live
<1>11. PortsInv'
  BY <1>2 DEF PortsInv, Live
<1>12. OffersInv'
  BY <1>2, <1>3 DEF OffersInv, planVars
<1>13. FeasibleSearched => FeasibleSearched'
  <2>1. ASSUME NEW s \in Seq(Buses), s # <<>>, NEW i \in DOMAIN s
        PROVE  \E j \in DOMAIN Append(Tail(s), Head(s)) :
                 Append(Tail(s), Head(s))[j] = s[i]
    <3> DEFINE r == Append(Tail(s), Head(s))
    <3>1. /\ Tail(s) \in Seq(Buses) /\ Len(Tail(s)) = Len(s) - 1
          /\ Len(s) \in Nat /\ Head(s) = s[1] /\ Head(s) \in Buses
      BY <2>1
    <3>2. Len(r) = Len(s) /\ DOMAIN r = 1 .. Len(s) /\ DOMAIN s = 1 .. Len(s)
      BY <3>1
    <3>3. CASE i = 1
      <4>1. Len(s) \in DOMAIN r /\ r[Len(s)] = s[1]
        BY <2>1, <3>1, <3>2
      <4> QED
        BY <3>3, <4>1
    <3>4. CASE i # 1
      <4>1. i - 1 \in 1 .. Len(Tail(s)) /\ Tail(s)[i - 1] = s[i]
        BY <2>1, <3>1, <3>2, <3>4
      <4>2. i - 1 \in DOMAIN r /\ r[i - 1] = s[i]
        BY <3>1, <3>2, <4>1
      <4> QED
        BY <4>2
    <3> QED
      BY <3>3, <3>4
  <2>2. \A d \in FeasibleCandidates :
          SearchedFor(d[1], d[2]) => SearchedFor(d[1], d[2])'
    <3> SUFFICES ASSUME NEW d \in FeasibleCandidates, SearchedFor(d[1], d[2])
                 PROVE  SearchedFor(d[1], d[2])'
      OBVIOUS
    <3>1. d[2] \in Ports
      BY DEF FeasibleCandidates, Candidates
    <3>2. CASE d[2] # p
      BY <1>1, <3>1, <3>2 DEF SearchedFor
    <3>3. CASE d[2] = p
      <4>1. PICK i \in DOMAIN searching[p] : searching[p][i] = d[1]
        BY <3>3 DEF SearchedFor
      <4>2. PICK j \in DOMAIN searching'[p] : searching'[p][j] = searching[p][i]
        BY <1>1, <1>4, <2>1
      <4> QED
        BY <3>3, <4>1, <4>2 DEF SearchedFor
    <3> QED
      BY <3>2, <3>3
  <2> QED
    BY <1>2, <2>2, PlanFrame DEF FeasibleSearched
<1>14. (Calm => Settled)'
  <2>1. FoundWherePlugged => FoundWherePlugged'
    BY <1>1, <1>2 DEF FoundWherePlugged
  <2> QED
    BY <1>2, <1>13, <2>1, SearchesFrame DEF Settled
<1> QED
  BY <1>5, <1>6, <1>7, <1>8, <1>9, <1>10, <1>11, <1>12, <1>14

\* A bus is found: a thread is started to confirm it.
LEMMA FindStep ==
  ASSUME Types, Good, NEW p \in Ports, Find(p)
  PROVE  Good'
<1> USE ThreadFacts
<1>1. PICK t \in Workers : Found(p, t)
  BY DEF Find
<1>2. /\ UNCHANGED <<stopping, stopping_locked, buses, buses_copy, up, throwing,
                     outdated, thrown, plugged, moves>>
      /\ UNCHANGED <<planVars, ports, ports_locked, todo>>
  BY <1>1 DEF Find, Found, Fork, adapterVars, worldVars
<1>3. /\ pc[t] = "idle" /\ trying[p] # NoBus
      /\ \A u \in Threads : pc'[u] = IF u = t THEN "confirm" ELSE pc[u]
      /\ \A u \in Threads : job'[u] = IF u = t THEN <<trying[p], p>> ELSE job[u]
      /\ callbacks' = callbacks \cup {t}
  BY <1>1 DEF Found, Fork, Goto, Types, Shapes
<1>4. /\ \A q \in Ports : searching'[q] = IF q = p THEN <<>> ELSE searching[q]
      /\ \A q \in Ports : found'[q] = IF q = p THEN TRUE ELSE found[q]
      /\ \A q \in Ports : trying'[q] = IF q = p THEN NoBus ELSE trying[q]
      /\ \A q \in Ports : search_thread'[q] = IF q = p THEN "ended" ELSE search_thread[q]
      /\ \A q \in Ports : q # p => missed'[q] = missed[q]
  BY <1>1 DEF Found, Types, Shapes
<1>5. known' = known /\ assigned' = assigned /\ pc'[main] = pc[main] /\ Live' = Live
  BY <1>2, <1>3 DEF planVars, Live
<1> USE DEF Good, Control
<1>6. /\ assigned[p] = NoBus /\ trying[p] \in On(known, p) /\ p \in ports
      /\ ~ found[p] /\ t \notin outdated /\ todo[t] = {}
  BY <1>3 DEF TurnsInv, ThreadInv, Find
<1>7. ~ PlanReset /\ ~ PlanReset' /\ pc[main] \notin {"reset", "idle"}
  BY <1>5 DEF PlanReset, Find
<1>8. \A u \in Workers : pc[u] = "confirm" =>
        u # t /\ job'[u] = job[u] /\ job[u][2] \in Ports /\ job[u][2] # p
  <2> SUFFICES ASSUME NEW u \in Workers, pc[u] = "confirm"
               PROVE  u # t /\ job'[u] = job[u] /\ job[u][2] \in Ports /\ job[u][2] # p
    OBVIOUS
  <2>1. u \in Live /\ u # t /\ job[u] \in Candidates
    BY <1>3, <1>7 DEF ThreadInv, Live, Types, Shapes
  <2>2. found[job[u][2]] /\ job[u][2] \in Ports
    BY <2>1 DEF ConfirmingInv, Candidates
  <2> QED
    BY <1>3, <1>6, <2>1, <2>2
<1>9. ThreadInv'
  BY <1>2, <1>3, <1>6, <1>7 DEF ThreadInv, CallbackLabels, Types, Shapes
<1>10. StopInv'
  BY <1>2, <1>3, <1>5, <1>7 DEF StopInv, AddingLabels
<1>11. BusesInv'
  BY <1>2, <1>3, <1>5 DEF BusesInv
<1>12. TurnsInv'
  BY <1>2, <1>4, <1>5, <1>6, <1>7 DEF TurnsInv
<1>13. ConfirmingInv'
  <2>1. job'[t][1] = trying[p] /\ job'[t][2] = p
    BY <1>3
  <2>2. \A u \in Live' : pc'[u] = "confirm" =>
          /\ job'[u][1] \in On(known', job'[u][2])
          /\ assigned'[job'[u][2]] = NoBus /\ found'[job'[u][2]]
    <3> SUFFICES ASSUME NEW u \in Live', pc'[u] = "confirm"
                 PROVE  /\ job'[u][1] \in On(known', job'[u][2])
                        /\ assigned'[job'[u][2]] = NoBus /\ found'[job'[u][2]]
      OBVIOUS
    <3>1. CASE u = t
      BY <1>2, <1>4, <1>5, <1>6, <2>1, <3>1
    <3>2. CASE u # t
      <4>1. u \in Live /\ pc[u] = "confirm" /\ job'[u] = job[u] /\ job[u][2] \in Ports
        BY <1>3, <1>5, <1>8, <3>2
      <4>2. /\ job[u][1] \in On(known, job[u][2])
            /\ assigned[job[u][2]] = NoBus /\ found[job[u][2]]
        BY <4>1 DEF ConfirmingInv
      <4> QED
        BY <1>2, <1>4, <1>5, <4>1, <4>2
    <3> QED
      BY <3>1, <3>2
  <2>3. \A u, v \in Live' :
          pc'[u] = "confirm" /\ pc'[v] = "confirm" /\ job'[u][2] = job'[v][2] => u = v
    BY <1>3, <1>5, <1>8, <2>1 DEF ConfirmingInv
  <2>4. ASSUME NEW q \in Ports, found'[q], assigned'[q] = NoBus
        PROVE  \E u \in Live' : pc'[u] = "confirm" /\ job'[u][2] = q
    <3>1. CASE q = p
      BY <1>3, <1>5, <1>6, <2>1, <3>1 DEF Live
    <3>2. CASE q # p
      <4>1. PICK u \in Live : pc[u] = "confirm" /\ job[u][2] = q
        BY <1>4, <1>5, <1>7, <2>4, <3>2 DEF ConfirmingInv
      <4> QED
        BY <1>3, <1>5, <1>8, <4>1
    <3> QED
      BY <3>1, <3>2
  <2> QED
    BY <2>2, <2>3, <2>4 DEF ConfirmingInv
<1>14. AssignedInv'
  <2>1. ASSUME NEW u \in Live', pc'[u] \in AssignedLabels
        PROVE  /\ u \in Live /\ pc'[u] = pc[u] /\ job'[u] = job[u]
               /\ job[u][2] \in Ports /\ job[u][2] # p
    <3>1. u # t /\ u \in Live /\ pc'[u] = pc[u] /\ job'[u] = job[u]
      BY <1>3, <1>5, <2>1 DEF AssignedLabels
    <3>a. u \in Workers /\ pc[u] # "idle"
      BY <2>1, <3>1 DEF AssignedLabels
    <3>b. job[u] \in Candidates
      BY <3>a DEF Types, Shapes
    <3>2. job[u][2] \in Ports /\ job[u][1] # NoBus
      BY <3>b, NoBusIsNoBus DEF Candidates
    <3>3. assigned[job[u][2]] = job[u][1]
      BY <2>1, <3>1 DEF AssignedInv
    <3> QED
      BY <1>6, <3>1, <3>2, <3>3
  <2>2. \A u \in Live' : pc'[u] \in AssignedLabels => assigned'[job'[u][2]] = job'[u][1]
    BY <1>5, <2>1 DEF AssignedInv
  <2>3. \A u, v \in Live' :
          pc'[u] \in AssignedLabels /\ pc'[v] \in AssignedLabels
          /\ job'[u][2] = job'[v][2] => u = v
    BY <2>1 DEF AssignedInv
  <2>4. \A c \in up' : assigned'[c[2]] = c[1]
    BY <1>2, <1>5 DEF AssignedInv
  <2>5. ASSUME NEW c \in up', NEW u \in Live', pc'[u] \in AssignedLabels
        PROVE  job'[u][2] # c[2]
    <3>1. c \in up /\ u \in Live /\ pc[u] \in AssignedLabels /\ job'[u] = job[u]
      BY <1>2, <2>1, <2>5
    <3> QED
      BY <3>1 DEF AssignedInv
  <2>6. ASSUME NEW u \in Live', pc'[u] = "reset port" PROVE ~ found'[job'[u][2]]
    <3>1. u \in Live /\ pc[u] = "reset port" /\ job'[u] = job[u]
          /\ job[u][2] \in Ports /\ job[u][2] # p
      BY <2>1, <2>6 DEF AssignedLabels
    <3>2. ~ found[job[u][2]]
      BY <3>1 DEF AssignedInv
    <3> QED
      BY <1>4, <3>1, <3>2
  <2> QED
    BY <2>2, <2>3, <2>4, <2>5, <2>6 DEF AssignedInv
<1>15. PortsInv'
  <2>1. \A u \in callbacks' : job'[u][2] \in ports'
    <3> SUFFICES ASSUME NEW u \in callbacks' PROVE job'[u][2] \in ports'
      OBVIOUS
    <3>1. CASE u = t
      BY <1>2, <1>3, <1>6, <3>1
    <3>2. CASE u # t
      <4>1. u \in callbacks /\ u \in Threads
        BY <1>3, <3>2 DEF Types, Shapes
      <4> QED
        BY <1>2, <1>3, <3>2, <4>1 DEF PortsInv
    <3> QED
      BY <3>1, <3>2
  <2> QED
    BY <1>2, <1>3, <1>5, <2>1 DEF PortsInv, AssignedLabels
<1>16. OffersInv'
  BY <1>2, <1>5 DEF OffersInv, planVars
<1>17. FeasibleSearched => FeasibleSearched'
  <2> SUFFICES ASSUME FeasibleSearched, NEW d \in FeasibleCandidates
               PROVE  \/ SearchedFor(d[1], d[2])'
                      \/ \E u \in Threads :
                           d \in todo'[u] \/ (pc'[u] = "confirm" /\ job'[u][2] = d[2])
                      \/ d[1] \in missed'[d[2]]
    BY <1>2, PlanFrame DEF FeasibleSearched
  <2>1. d[2] \in Ports
    BY DEF FeasibleCandidates, Candidates
  <2>2. CASE d[2] = p
    BY <1>3, <2>2
  <2>3. CASE d[2] # p
    <3>1. SearchedFor(d[1], d[2])' <=> SearchedFor(d[1], d[2])
      BY <1>4, <2>1, <2>3 DEF SearchedFor
    <3>2. \A u \in Threads : pc[u] = "confirm" => pc'[u] = "confirm" /\ job'[u] = job[u]
      BY <1>3, <1>8
    <3> QED
      BY <1>2, <1>4, <2>1, <2>3, <3>1, <3>2 DEF FeasibleSearched
  <2> QED
    BY <2>2, <2>3
<1>18. (Calm => Settled)'
  <2>1. FoundWherePlugged => FoundWherePlugged'
    <3>1. plugged[p] # NoBus /\ BusLeq(devices[trying[p]], devices[plugged[p]])
      BY DEF Find
    <3>2. FoundWherePlugged => trying[p] = plugged[p]
      BY <1>3, <3>1 DEF FoundWherePlugged
    <3> QED
      BY <1>2, <1>3, <1>4, <1>8, <3>2 DEF FoundWherePlugged
  <2> QED
    BY <1>2, <1>17, <2>1, SearchesFrame DEF Settled
<1> QED
  BY <1>9, <1>10, <1>11, <1>12, <1>13, <1>14, <1>15, <1>16, <1>18

\* The search thread finds its list empty, or leaves its loop.
LEMMA ThreadStep ==
  ASSUME Types, Good, UNCHANGED <<adapterVars, worldVars>>, NEW p \in Ports,
         FindEmpty(p) \/ LeaveSearch(p)
  PROVE  Good'
<1> USE ThreadFacts
<1>1. /\ UNCHANGED <<planVars, ports, ports_locked, searching, found, trying, missed>>
      /\ UNCHANGED <<pc, job, todo, callbacks, stopping, stopping_locked, buses,
                     buses_copy, up, throwing, outdated, thrown, plugged, moves>>
  BY DEF FindEmpty, LeaveSearch, threadVars, adapterVars, worldVars
<1>2. PlanReset' = PlanReset /\ Live' = Live
  BY <1>1 DEF PlanReset, Live
<1> USE DEF Good, Control
<1>3. TurnsInv'
  <2>1. \A q \in Ports : q # p => search_thread'[q] = search_thread[q]
    BY DEF FindEmpty, LeaveSearch, Types, Shapes
  <2>2. trying[p] = NoBus /\ p \in ports /\ ~ found[p]
    BY DEF FindEmpty, LeaveSearch, TurnsInv
  <2> QED
    BY <1>1, <1>2, <2>1, <2>2 DEF TurnsInv, planVars
<1>4. ThreadInv' /\ StopInv' /\ BusesInv' /\ PortsInv' /\ OffersInv'
  BY <1>1, <1>2 DEF ThreadInv, StopInv, BusesInv, PortsInv, OffersInv, planVars
<1>5. ConfirmingInv'
  BY <1>1, <1>2, ConfirmingFrame
<1>6. AssignedInv'
  BY <1>1, <1>2, AssignedFrame
<1>7. (Calm => Settled)'
  BY <1>1, SettledFrame
<1> QED
  BY <1>3, <1>4, <1>5, <1>6, <1>7

\* Whatever has been added since the list was found empty is missed.
LEMMA SetOutOfCandidatesStep ==
  ASSUME Types, Good, UNCHANGED <<adapterVars, worldVars>>, NEW p \in Ports,
         SetOutOfCandidates(p)
  PROVE  Good'
<1> USE ThreadFacts
<1>1. /\ UNCHANGED <<planVars, ports, ports_locked, found, trying>>
      /\ UNCHANGED <<pc, job, todo, callbacks, stopping, stopping_locked, buses,
                     buses_copy, up, throwing, outdated, thrown, plugged, moves>>
  BY DEF SetOutOfCandidates, threadVars, adapterVars, worldVars
<1>2. /\ \A q \in Ports : q # p =>
           /\ search_thread'[q] = search_thread[q] /\ searching'[q] = searching[q]
           /\ missed'[q] = missed[q]
      /\ missed'[p] = missed[p] \cup {searching[p][i] : i \in DOMAIN searching[p]}
  BY DEF SetOutOfCandidates, Types, Shapes
<1>3. PlanReset' = PlanReset /\ Live' = Live
  BY <1>1 DEF PlanReset, Live
<1> USE DEF Good, Control
<1>4. TurnsInv'
  <2>1. trying[p] = NoBus /\ p \in ports /\ ~ found[p]
    BY DEF SetOutOfCandidates, TurnsInv
  <2> QED
    BY <1>1, <1>2, <1>3, <2>1 DEF TurnsInv, planVars
<1>5. ThreadInv' /\ StopInv' /\ BusesInv' /\ PortsInv' /\ OffersInv'
  BY <1>1, <1>3 DEF ThreadInv, StopInv, BusesInv, PortsInv, OffersInv, planVars
<1>6. ConfirmingInv'
  BY <1>1, <1>3, ConfirmingFrame
<1>7. AssignedInv'
  BY <1>1, <1>3, AssignedFrame
<1>8. FeasibleSearched => FeasibleSearched'
  <2> SUFFICES ASSUME FeasibleSearched, NEW d \in FeasibleCandidates
               PROVE  \/ SearchedFor(d[1], d[2])'
                      \/ \E u \in Threads :
                           d \in todo'[u] \/ (pc'[u] = "confirm" /\ job'[u][2] = d[2])
                      \/ d[1] \in missed'[d[2]]
    BY <1>1, PlanFrame DEF FeasibleSearched
  <2>1. d[2] \in Ports
    BY DEF FeasibleCandidates, Candidates
  <2>2. missed[d[2]] \subseteq missed'[d[2]]
    BY <1>2, <2>1
  <2>3. SearchedFor(d[1], d[2]) => SearchedFor(d[1], d[2])' \/ d[1] \in missed'[d[2]]
    BY <1>2, <2>1 DEF SearchedFor
  <2> QED
    BY <1>1, <2>2, <2>3 DEF FeasibleSearched
<1>9. (Calm => Settled)'
  <2>1. FoundWherePlugged => FoundWherePlugged'
    BY <1>1 DEF FoundWherePlugged
  <2> QED
    BY <1>1, <1>8, <2>1, SearchesFrame DEF Settled
<1> QED
  BY <1>4, <1>5, <1>6, <1>7, <1>9

-----------------------------------------------------------------------------
(* Types                                                                   *)

\* A step that leaves the plan alone
LEMMA PlanTypeFrame ==
  ASSUME PlanTypeOK, UNCHANGED planVars
  PROVE  PlanTypeOK'
BY DEF PlanTypeOK, planVars

\* A candidate is a bus and a port.
LEMMA CandidateFacts ==
  /\ \A c \in Candidates : c[1] \in Buses /\ c[2] \in Ports /\ c = <<c[1], c[2]>>
  /\ \A b \in Buses, p \in Ports : <<b, p>> \in Candidates
BY DEF Candidates

\* A step in which nothing happens to the buses
LEMMA HistoryFrame ==
  ASSUME History, UNCHANGED worldVars, throwing' \subseteq throwing
  PROVE  History'
BY DEF History, worldVars

\* Failures and starts are counted up to their bounds.
LEMMA HistoryStep ==
  ASSUME History, UNCHANGED <<plugged, moves>>,
         \/ failures < MaxFailures /\ failures' = failures + 1 /\ starts' = starts
         \/ starts < MaxStarts /\ starts' = starts + 1 /\ failures' = failures,
         \/ thrown' = thrown /\ throwing' \subseteq throwing
         \/ thrown' /\ ThrowsLate
  PROVE  History'
<1>1. MaxFailures \in Nat /\ MaxStarts \in Nat
  BY BoundsType
<1>2. failures' \in 0 .. MaxFailures /\ starts' \in 0 .. MaxStarts
  BY <1>1 DEF History
<1> QED
  BY <1>2 DEF History

\* What is appended to the candidates of a search makes them a search.
LEMMA AppendFacts ==
  ASSUME NEW s \in Seq(Buses), NEW b \in Buses
  PROVE  Append(s, b) \in Seq(Buses) /\ Append(s, b) # <<>>
<1>1. Append(s, b) \in Seq(Buses) /\ Len(Append(s, b)) = Len(s) + 1 /\ Len(s) \in Nat
  OBVIOUS
<1>2. Len(<<>>) = 0
  OBVIOUS
<1> QED
  BY <1>1, <1>2

\* A port's search is reset.
LEMMA ResetTypes ==
  ASSUME Types, NEW p \in Ports, StopThread(p)
  PROVE  /\ searching' \in [Ports -> Seq(Buses)]
         /\ search_thread' \in
              [Ports -> {"ended", "runs", "empty", "leaves", "joined"}]
         /\ \A q \in Ports :
              searching'[q] # <<>> => search_thread'[q] \in {"runs", "empty"}
         /\ found' \in [Ports -> BOOLEAN]
         /\ trying' \in [Ports -> Buses \cup {NoBus}]
         /\ \A q \in Ports :
              trying'[q] # NoBus => searching'[q] # <<>> /\ search_thread'[q] = "runs"
<1>1. <<>> \in Seq(Buses)
  OBVIOUS
<1>2. /\ searching' \in [Ports -> Seq(Buses)]
      /\ search_thread' \in [Ports -> {"ended", "runs", "empty", "leaves", "joined"}]
      /\ found' \in [Ports -> BOOLEAN]
      /\ trying' \in [Ports -> Buses \cup {NoBus}]
  BY <1>1 DEF StopThread, Types, Shapes
<1>3. /\ searching'[p] = <<>> /\ trying'[p] = NoBus
      /\ \A q \in Ports : q # p =>
           /\ searching'[q] = searching[q] /\ trying'[q] = trying[q]
           /\ search_thread'[q] = search_thread[q]
  BY DEF StopThread, Types, Shapes
<1>4. /\ \A q \in Ports : searching[q] # <<>> => search_thread[q] \in {"runs", "empty"}
      /\ \A q \in Ports : trying[q] # NoBus => searching[q] # <<>> /\ search_thread[q] = "runs"
  BY DEF Types, Shapes
<1> QED
  BY <1>2, <1>3, <1>4

\* reset's new plan preserves the types.
LEMMA ResetPlanTypes ==
  ASSUME Types, ResetPlan, UNCHANGED derailed
  PROVE  Types'
<1> USE ThreadFacts
<1>1. PlanTypeOK'
  <2>1. PlanInit' => PlanInv'
    BY InitInv, PTL
  <2> QED
    BY <2>1 DEF ResetPlan, NewPlan, PlanInit, PlanInv
<1>2. History'
  BY HistoryFrame DEF ResetPlan, Types
<1> QED
  BY <1>1, <1>2 DEF ResetPlan, NewPlan, Goto, Types, Shapes, Labels, MainLabels, portVars,
              searchVars, worldVars

\* The main thread preserves the types.
LEMMA MainTypes ==
  ASSUME Types, Start \/ StopAdding \/ MainStep, UNCHANGED derailed
  PROVE  Types'
<1> USE ThreadFacts DEF Types, Shapes, Labels, MainLabels
<1>1. CASE Start
  <2>1. AddBuses(Buses) /\ pc' = [pc EXCEPT ![main] = "add buses"]
        /\ todo' = [todo EXCEPT ![main] = new_candidates']
        /\ starts' = starts + 1 /\ starts < MaxStarts
        /\ UNCHANGED <<job, callbacks, ports, ports_locked, search_thread, searching,
                       found, trying, missed>>
        /\ UNCHANGED <<stopping, stopping_locked, buses, buses_copy, up, throwing,
                       outdated, plugged, failures, moves, thrown>>
    BY <1>1 DEF Start, AddAllBuses, Returned, Goto, portVars, searchVars, adapterVars
  <2>2. PlanTypeOK'
    BY <2>1, AddBusesTypes
  <2>3. new_candidates' \subseteq Candidates
    BY <2>2 DEF PlanTypeOK
  <2>4. todo' \in [Threads -> SUBSET Candidates]
    BY <2>1, <2>3
  <2>5. History'
    BY <2>1, HistoryStep
  <2>6. pc' \in [Threads -> Labels] /\ pc'[main] = "add buses"
        /\ \A u \in Workers : pc'[u] = pc[u]
    BY <2>1
  <2> QED
    BY <2>1, <2>2, <2>4, <2>5, <2>6
<1>a. UNCHANGED <<worldVars, throwing>> => History'
  BY HistoryFrame
<1> USE DEF Goto, portVars, searchVars, worldVars, adapterVars
<1>2. CASE Started
  BY <1>2, <1>a, PlanTypeFrame DEF Started
<1>3. CASE StopAdding
  BY <1>3, <1>a, PlanTypeFrame DEF StopAdding
<1>4. CASE TakeBuses
  <2>1. {<<buses[p], p>> : p \in {q \in Ports : buses[q] # NoBus}} \subseteq Candidates
    <3>1. \A p \in Ports : buses[p] # NoBus => buses[p] \in Buses
      OBVIOUS
    <3> HIDE DEF Types, Shapes
    <3> QED
      BY <3>1, CandidateFacts
  <2> QED
    BY <1>4, <2>1, <1>a, PlanTypeFrame DEF TakeBuses
<1>5. CASE \E c \in buses_copy : StopBus(c)
  <2>1. up' \subseteq up /\ buses_copy' \subseteq buses_copy
    BY <1>5 DEF StopBus
  <2> QED
    BY <1>5, <2>1, <1>a, PlanTypeFrame DEF StopBus, finderVars, threadVars
<1>6. CASE ResetPorts
  <2>1. CASE LockPorts(main)
    BY <1>6, <2>1, <1>a, PlanTypeFrame DEF ResetPorts, LockPorts
  <2>2. CASE \E p \in Ports : ClearPort(main, p)
    <3>1. PICK p \in Ports : ClearPort(main, p)
      BY <2>2
    <3>2. /\ searching' \in [Ports -> Seq(Buses)]
          /\ search_thread' \in
               [Ports -> {"ended", "runs", "empty", "leaves", "joined"}]
          /\ \A q \in Ports :
               searching'[q] # <<>> => search_thread'[q] \in {"runs", "empty"}
          /\ found' \in [Ports -> BOOLEAN]
          /\ trying' \in [Ports -> Buses \cup {NoBus}]
          /\ \A q \in Ports :
               trying'[q] # NoBus => searching'[q] # <<>> /\ search_thread'[q] = "runs"
      BY <3>1, ResetTypes DEF ClearPort
    <3>3. ports' = ports \ {p} /\ UNCHANGED <<planVars, ports_locked, threadVars>>
      BY <3>1 DEF ClearPort
    <3>4. missed' \in [Ports -> SUBSET Buses]
      BY <3>1 DEF ClearPort
    <3> QED
      BY <1>6, <3>2, <3>3, <3>4, <1>a, PlanTypeFrame DEF ResetPorts, threadVars
  <2>3. CASE PortsCleared(main)
    BY <1>6, <2>3, <1>a, PlanTypeFrame DEF ResetPorts, PortsCleared
  <2> QED
    BY <1>6, <2>1, <2>2, <2>3 DEF ResetPorts
<1>7. CASE Stopped
  BY <1>7, <1>a, PlanTypeFrame DEF Stopped
<1>8. CASE ResetPlan
  BY <1>8, ResetPlanTypes
<1> QED
  BY <1>1, <1>2, <1>3, <1>4, <1>5, <1>6, <1>7, <1>8 DEF MainStep


\* So do the threads that add and cancel buses ...
LEMMA WorkerTypes ==
  ASSUME Types, NEW t \in Workers, AddBus(t) \/ WorkerStep(t) \/ Failing(t),
         derailed' \in {"no", "end()", "outdated"}
  PROVE  Types'
<1> USE ThreadFacts DEF Types, Shapes, Labels, WorkerLabels, Goto, portVars, searchVars,
                        worldVars, adapterVars
<1>a. pc[t] # "idle" => job[t] \in Candidates /\ job[t][1] \in Buses
                        /\ job[t][2] \in Ports
  BY DEF Candidates
<1>b. UNCHANGED worldVars /\ throwing' \subseteq throwing => History'
  BY HistoryFrame
<1>1. CASE AddBus(t)
  BY <1>1, <1>a, <1>b, PlanTypeFrame DEF AddBus, Added
<1>2. CASE AddNothing(t)
  BY <1>2, <1>b, PlanTypeFrame DEF AddNothing, Added, End
<1>3. CASE Connect(t)
  BY <1>3, <1>a, <1>b, PlanTypeFrame DEF Connect
<1>4. CASE BusAdded(t)
  BY <1>4, <1>b, PlanTypeFrame DEF BusAdded, End
<1>5. CASE CancelBus(t)
  BY <1>5, <1>a, <1>b, PlanTypeFrame DEF CancelBus
<1>6. CASE Unassigned(t)
  <2>1. CASE t \notin throwing
    <3>1. /\ pc' = [pc EXCEPT ![t] = "idle"] /\ job' = [job EXCEPT ![t] = NoBus]
          /\ callbacks' \subseteq callbacks /\ outdated' = outdated \ {t}
          /\ UNCHANGED <<todo, planVars, portVars, stopping, stopping_locked, buses,
                         buses_copy, throwing, up, worldVars>>
      BY <1>6, <2>1 DEF Unassigned, Added, End
    <3>2. /\ pc' \in [Threads -> Labels] /\ pc'[main] = pc[main]
          /\ job' \in [Threads -> Candidates \cup {NoBus}]
          /\ \A u \in Workers : /\ pc'[u] \in WorkerLabels
                                /\ pc'[u] # "idle" => job'[u] \in Candidates
      BY <3>1
    <3> QED
      BY <3>1, <3>2, <1>b, PlanTypeFrame
  <2>2. CASE t \in throwing
    <3>1. buses' \in [Ports -> Buses \cup {NoBus}]
      BY <1>6, <2>2 DEF Unassigned, AddBusThrows
    <3> QED
      BY <1>6, <1>a, <2>2, <3>1, <1>b, PlanTypeFrame DEF Unassigned, Added, AddBusThrows
  <2> QED
    BY <2>1, <2>2
<1>7. CASE ConnectFails(t)
  <2>1. History'
    BY <1>7, HistoryStep DEF ConnectFails, AddBusThrows
  <2>2. buses' \in [Ports -> Buses \cup {NoBus}]
    BY <1>7 DEF ConnectFails, AddBusThrows
  <2> QED
    BY <1>7, <1>a, <2>1, <2>2, PlanTypeFrame DEF ConnectFails, AddBusThrows
<1>8. CASE BuildThrows(t)
  <2>1. History'
    BY <1>8, HistoryStep DEF BuildThrows, AddBusThrows
  <2>2. /\ buses' \in [Ports -> Buses \cup {NoBus}] /\ up' \subseteq Candidates
        /\ throwing' \subseteq Workers /\ stopping_locked' \in BOOLEAN
        /\ pc' \in [Threads -> Labels] /\ pc'[main] = pc[main]
        /\ \A u \in Workers : /\ pc'[u] \in WorkerLabels
                              /\ pc'[u] # "idle" => pc[u] # "idle"
    <3>1. CASE job[t] \in up
      <4>1. /\ up' \subseteq up /\ throwing' = throwing \cup {t}
            /\ pc[t] = "build model" /\ pc' = [pc EXCEPT ![t] = "cancel"]
            /\ buses' = buses /\ stopping_locked' = stopping_locked
        BY <1>8, <3>1 DEF BuildThrows
      <4> QED
        BY <4>1
    <3>2. CASE job[t] \notin up
      BY <1>8, <3>2 DEF BuildThrows, AddBusThrows
    <3> QED
      BY <3>1, <3>2
  <2>3. /\ UNCHANGED <<planVars, ports, ports_locked, search_thread, searching, found,
                       trying, missed>>
        /\ UNCHANGED <<job, todo, callbacks, stopping, buses_copy, outdated, plugged>>
        /\ UNCHANGED <<starts, moves>>
        /\ ThrowsLate /\ thrown' = TRUE
    BY <1>8 DEF BuildThrows, AddBusThrows
  <2>4. PlanTypeOK'
    BY <2>3, PlanTypeFrame
  <2>5. job' = job
    BY <2>3
  <2>6. \A u \in Workers : pc'[u] # "idle" => job'[u] \in Candidates
    <3> SUFFICES ASSUME NEW u \in Workers, pc'[u] # "idle"
                 PROVE  job'[u] \in Candidates
      OBVIOUS
    <3>1. pc[u] # "idle"
      BY <2>2
    <3>2. job[u] \in Candidates
      BY <3>1
    <3> QED
      BY <2>5, <3>2
  <2>7. pc'[main] \in MainLabels
    BY <2>2
  <2>8. /\ UNCHANGED <<ports, search_thread, searching, found, trying, missed,
                       ports_locked, job, todo>>
        /\ UNCHANGED <<callbacks, outdated, buses_copy, stopping, plugged>>
        /\ thrown' = TRUE
    BY <2>3
  <2>9. Shapes'
    <3>1. /\ job' \in [Threads -> Candidates \cup {NoBus}]
          /\ todo' \in [Threads -> SUBSET Candidates]
          /\ callbacks' \subseteq Workers /\ outdated' \subseteq Workers
          /\ ports' \subseteq Ports /\ searching' \in [Ports -> Seq(Buses)]
          /\ found' \in [Ports -> BOOLEAN] /\ trying' \in [Ports -> Buses \cup {NoBus}]
          /\ search_thread' \in [Ports -> {"ended", "runs", "empty", "leaves", "joined"}]
          /\ missed' \in [Ports -> SUBSET Buses]
      BY <2>8
    <3>2. /\ buses_copy' \subseteq Candidates
          /\ ports_locked' \in BOOLEAN /\ stopping' \in BOOLEAN /\ thrown' \in BOOLEAN
          /\ plugged' \in [Ports -> Buses \cup {NoBus}]
          /\ \A p \in Ports :
               trying'[p] # NoBus => searching'[p] # <<>> /\ search_thread'[p] = "runs"
          /\ \A p \in Ports : searching'[p] # <<>> => search_thread'[p] \in {"runs", "empty"}
          /\ derailed' \in {"no", "end()", "outdated"}
      BY <2>8
    <3> QED
      BY <2>2, <2>6, <2>7, <3>1, <3>2
  <2> QED
    BY <2>1, <2>4, <2>9
<1>9. CASE ReadFails(t)
  <2>1. PICK c \in up : up' = up \ {c} /\ Fork(t, "cancel", c[1], c[2])
    BY <1>9 DEF ReadFails
  <2>2. <<c[1], c[2]>> \in Candidates
    BY CandidateFacts
  <2>3. History'
    BY <1>9, HistoryStep DEF ReadFails
  <2>4. job' \in [Threads -> Candidates \cup {NoBus}]
        /\ \A u \in Workers : pc'[u] # "idle" => job'[u] \in Candidates
    BY <2>1, <2>2 DEF Fork
  <2> QED
    BY <1>9, <2>1, <2>3, <2>4, PlanTypeFrame DEF ReadFails, Fork
<1> QED
  BY <1>1, <1>2, <1>3, <1>4, <1>5, <1>6, <1>7, <1>8, <1>9 DEF WorkerStep, Failing

\* ... the threads in the port finder ...
LEMMA FinderTypes ==
  ASSUME Types, NEW t \in Threads, UNCHANGED <<adapterVars, worldVars>>,
         \/ AddCandidate(t) \/ JoinSearch(t)
         \/ ConfirmCandidate(t) \/ ResetPort(t) \/ UnassignPort(t),
         derailed' \in {"no", "end()", "outdated"}
  PROVE  Types'
<1> USE ThreadFacts
<1> USE DEF Types, Shapes, Labels, WorkerLabels, MainLabels, Goto, portVars,
            searchVars, worldVars, adapterVars
<1>a. pc[t] \in {"confirm", "unassign", "reset port"} =>
        t \in Workers /\ job[t][1] \in Buses /\ job[t][2] \in Ports
  BY DEF Candidates
<1>b. History'
  BY HistoryFrame
<1>1. CASE AddCandidate(t)
  <2>1. PICK c \in todo[t] :
          /\ ports' = ports \cup {c[2]}
          /\ searching' = [searching EXCEPT ![c[2]] =
               IF found[c[2]] \/ \E i \in DOMAIN @ : @[i] = c[1]
                 THEN @ ELSE Append(@, c[1])]
          /\ search_thread[c[2]] \notin {"leaves", "joined"}
          /\ search_thread' = [search_thread EXCEPT ![c[2]] =
               IF @ = "ended" /\ ~ found[c[2]] THEN "runs" ELSE @]
          /\ missed' = [missed EXCEPT ![c[2]] = @ \ {c[1]}]
          /\ todo' = [todo EXCEPT ![t] = @ \ {c}]
          /\ UNCHANGED <<planVars, ports_locked, found, trying, pc, job, callbacks>>
    BY <1>1 DEF AddCandidate
  <2>2. c[1] \in Buses /\ c[2] \in Ports
    BY CandidateFacts
  <2>3. /\ searching' \in [Ports -> Seq(Buses)]
        /\ \A q \in Ports : searching[q] # <<>> => searching'[q] # <<>>
    <3>1. searching \in [Ports -> Seq(Buses)]
      OBVIOUS
    <3> HIDE DEF Types, Shapes
    <3>a. searching[c[2]] \in Seq(Buses)
      BY <2>2, <3>1
    <3>2. /\ Append(searching[c[2]], c[1]) \in Seq(Buses)
          /\ Append(searching[c[2]], c[1]) # <<>>
      BY <2>2, <3>a, AppendFacts
    <3> QED
      BY <2>1, <2>2, <3>1, <3>2
  <2>4. /\ todo' \in [Threads -> SUBSET Candidates]
        /\ missed' \in [Ports -> SUBSET Buses]
        /\ search_thread' \in [Ports -> {"ended", "runs", "empty", "leaves", "joined"}]
    BY <2>1, <2>2
  <2>5. ASSUME NEW q \in Ports, searching'[q] # <<>>
        PROVE  search_thread'[q] \in {"runs", "empty"}
    <3>1. CASE q # c[2]
      BY <2>1, <2>2, <2>5, <3>1
    <3>2. CASE q = c[2] /\ (searching[q] # <<>> \/ ~ found[q])
      BY <2>1, <2>2, <3>2
    <3>3. CASE q = c[2] /\ searching[q] = <<>> /\ found[q]
      BY <2>1, <2>2, <2>5, <3>3
    <3> QED
      BY <3>1, <3>2, <3>3
  <2> QED
    BY <2>1, <2>2, <2>3, <2>4, <2>5, <1>b, PlanTypeFrame
<1>2. CASE ConfirmCandidate(t)
  <2>1. PlanTypeOK'
    BY <1>2, <1>a, AssignTypes DEF ConfirmCandidate
  <2>2. new_candidates' \subseteq Candidates
    BY <2>1 DEF PlanTypeOK
  <2> QED
    BY <1>2, <1>a, <1>b, <2>1, <2>2 DEF ConfirmCandidate, Returned
<1>3. CASE ResetPort(t)
  <2>1. /\ searching' \in [Ports -> Seq(Buses)]
        /\ search_thread' \in
             [Ports -> {"ended", "runs", "empty", "leaves", "joined"}]
        /\ \A q \in Ports :
             searching'[q] # <<>> => search_thread'[q] \in {"runs", "empty"}
        /\ found' \in [Ports -> BOOLEAN]
        /\ trying' \in [Ports -> Buses \cup {NoBus}]
        /\ \A q \in Ports :
             trying'[q] # NoBus => searching'[q] # <<>> /\ search_thread'[q] = "runs"
    BY <1>3, <1>a, ResetTypes DEF ResetPort
  <2>2. /\ pc[t] = "unassign" /\ pc' = [pc EXCEPT ![t] = "reset port"]
        /\ UNCHANGED <<planVars, ports, ports_locked, missed, job, todo, callbacks>>
    BY <1>3 DEF ResetPort
  <2> QED
    BY <1>a, <2>1, <2>2, <1>b, PlanTypeFrame
<1>4. CASE UnassignPort(t)
  <2>1. PlanTypeOK'
    <3>1. PlanNext
      BY <1>4, <1>a DEF UnassignPort, PlanNext
    <3> QED
      BY <3>1, TypeStep
  <2>2. new_candidates' \subseteq Candidates
    BY <2>1 DEF PlanTypeOK
  <2> QED
    BY <1>4, <1>a, <1>b, <2>1, <2>2 DEF UnassignPort, Returned
<1>5. CASE JoinSearch(t)
  <2>1. PICK c \in todo[t] :
          /\ search_thread[c[2]] = "leaves" /\ ports_locked' = TRUE
          /\ search_thread' = [search_thread EXCEPT ![c[2]] = "joined"]
          /\ UNCHANGED <<planVars, ports, searching, found, trying, missed, threadVars>>
    BY <1>5 DEF JoinSearch
  <2>2. c[2] \in Ports /\ searching[c[2]] = <<>>
    BY <2>1, CandidateFacts
  <2> QED
    BY <2>1, <2>2, <1>b, PlanTypeFrame DEF threadVars
<1> QED
  BY <1>1, <1>2, <1>3, <1>4, <1>5

\* ... and the searches.
LEMMA SearchTypes ==
  ASSUME Types, NEW p \in Ports, Search(p) \/ Find(p), UNCHANGED derailed
  PROVE  Types'
<1> USE ThreadFacts
<1>1. /\ searching \in [Ports -> Seq(Buses)]
      /\ found \in [Ports -> BOOLEAN]
      /\ trying \in [Ports -> Buses \cup {NoBus}]
      /\ \A q \in Ports : trying[q] # NoBus => searching[q] # <<>> /\ search_thread[q] = "runs"
      /\ search_thread \in [Ports -> {"ended", "runs", "empty", "leaves", "joined"}]
      /\ \A q \in Ports : searching[q] # <<>> => search_thread[q] \in {"runs", "empty"}
      /\ missed \in [Ports -> SUBSET Buses]
  BY DEF Types, Shapes
<1>a. UNCHANGED <<adapterVars, worldVars>> => History'
  BY HistoryFrame DEF Types, adapterVars
<1>2. CASE Check(p) /\ UNCHANGED <<adapterVars, worldVars>>
  <2>1. searching[p] # <<>> /\ searching[p] \in Seq(Buses)
    BY <1>1, <1>2 DEF Check
  <2>2. Head(searching[p]) \in Buses /\ Tail(searching[p]) \in Seq(Buses)
    BY <2>1
  <2>3. /\ searching' \in [Ports -> Seq(Buses)]
        /\ trying' \in [Ports -> Buses \cup {NoBus}]
        /\ \A q \in Ports :
             trying'[q] # NoBus => searching'[q] # <<>> /\ search_thread'[q] = "runs"
        /\ \A q \in Ports : searching'[q] # <<>> => searching[q] # <<>>
    BY <1>1, <1>2, <2>1, <2>2 DEF Check
  <2>4. /\ UNCHANGED <<planVars, ports, ports_locked, search_thread, found, missed>>
        /\ UNCHANGED <<pc, job, todo, callbacks>>
    BY <1>2 DEF Check, threadVars
  <2> QED
    BY <1>1, <1>2, <2>3, <2>4, <1>a, PlanTypeFrame DEF Types, Shapes, worldVars, adapterVars
<1>3. CASE NotFound(p) /\ UNCHANGED <<adapterVars, worldVars>>
  <2>1. searching[p] # <<>> /\ searching[p] \in Seq(Buses)
    BY <1>1, <1>3 DEF NotFound
  <2>2. Head(searching[p]) \in Buses /\ Tail(searching[p]) \in Seq(Buses)
    BY <2>1
  <2>3. Append(Tail(searching[p]), Head(searching[p])) \in Seq(Buses)
    BY <2>2
  <2>4. /\ searching' \in [Ports -> Seq(Buses)]
        /\ trying' \in [Ports -> Buses \cup {NoBus}]
        /\ \A q \in Ports :
             trying'[q] # NoBus => searching'[q] # <<>> /\ search_thread'[q] = "runs"
        /\ \A q \in Ports : searching'[q] # <<>> => searching[q] # <<>>
    BY <1>1, <1>3, <2>1, <2>3 DEF NotFound
  <2>5. /\ UNCHANGED <<planVars, ports, ports_locked, search_thread, found, missed>>
        /\ UNCHANGED <<pc, job, todo, callbacks>>
    BY <1>3 DEF NotFound, threadVars
  <2> QED
    BY <1>1, <1>3, <2>4, <2>5, <1>a, PlanTypeFrame DEF Types, Shapes, worldVars, adapterVars
<1>4. CASE Find(p)
  <2>1. PICK t \in Workers : Found(p, t)
    BY <1>4 DEF Find
  <2>2. <<trying[p], p>> \in Candidates
    BY <1>1, <2>1, CandidateFacts DEF Found
  <2>3. /\ pc' = [pc EXCEPT ![t] = "confirm"]
        /\ job' = [job EXCEPT ![t] = <<trying[p], p>>]
        /\ callbacks' = callbacks \cup {t}
        /\ UNCHANGED <<planVars, ports, ports_locked, todo>>
        /\ UNCHANGED <<adapterVars, worldVars>>
    BY <1>4, <2>1 DEF Find, Found, Fork, Goto
  <2>4. /\ searching' \in [Ports -> Seq(Buses)]
        /\ found' \in [Ports -> BOOLEAN]
        /\ trying' \in [Ports -> Buses \cup {NoBus}]
        /\ search_thread' \in [Ports -> {"ended", "runs", "empty", "leaves", "joined"}]
        /\ missed' \in [Ports -> SUBSET Buses]
        /\ \A q \in Ports :
             trying'[q] # NoBus => searching'[q] # <<>> /\ search_thread'[q] = "runs"
        /\ \A q \in Ports : searching'[q] # <<>> => search_thread'[q] \in {"runs", "empty"}
    <3>1. <<>> \in Seq(Buses)
      OBVIOUS
    <3> QED
      BY <1>1, <2>1, <3>1 DEF Found
  <2>5. /\ job' \in [Threads -> Candidates \cup {NoBus}]
        /\ \A u \in Workers : pc'[u] # "idle" => job'[u] \in Candidates
    BY <2>2, <2>3 DEF Types, Shapes
  <2>6. /\ pc' \in [Threads -> Labels] /\ pc'[main] \in MainLabels
        /\ \A u \in Workers : pc'[u] \in WorkerLabels
    BY <2>3 DEF Types, Shapes, Labels, WorkerLabels
  <2> QED
    BY <2>3, <2>4, <2>5, <2>6, <1>a, PlanTypeFrame DEF Types, Shapes, worldVars, adapterVars
<1>5. CASE (FindEmpty(p) \/ LeaveSearch(p)) /\ UNCHANGED <<adapterVars, worldVars>>
  <2>1. /\ search_thread' \in [Ports -> {"ended", "runs", "empty", "leaves", "joined"}]
        /\ \A q \in Ports : q # p => search_thread'[q] = search_thread[q]
        /\ searching[p] = <<>>
    BY <1>1, <1>5 DEF FindEmpty, LeaveSearch
  <2>2. /\ UNCHANGED <<planVars, ports, ports_locked, searching, found, trying, missed>>
        /\ UNCHANGED <<pc, job, todo, callbacks>>
    BY <1>5 DEF FindEmpty, LeaveSearch, threadVars
  <2> QED
    BY <1>1, <1>5, <2>1, <2>2, <1>a, PlanTypeFrame
    DEF Types, Shapes, worldVars, adapterVars
<1>6. CASE SetOutOfCandidates(p) /\ UNCHANGED <<adapterVars, worldVars>>
  <2>1. /\ search_thread' \in [Ports -> {"ended", "runs", "empty", "leaves", "joined"}]
        /\ \A q \in Ports : q # p =>
             search_thread'[q] = search_thread[q] /\ searching'[q] = searching[q]
        /\ searching'[p] = <<>>
    BY <1>1, <1>6 DEF SetOutOfCandidates
  <2>2. /\ searching' \in [Ports -> Seq(Buses)]
        /\ missed' \in [Ports -> SUBSET Buses]
    <3>1. <<>> \in Seq(Buses) /\ \A i \in DOMAIN searching[p] : searching[p][i] \in Buses
      BY <1>1
    <3> QED
      BY <1>1, <1>6, <3>1 DEF SetOutOfCandidates
  <2>3. \A q \in Ports :
         trying'[q] # NoBus => searching'[q] # <<>> /\ search_thread'[q] = "runs"
    <3>1. trying[p] = NoBus
      BY <1>1, <1>6 DEF SetOutOfCandidates
    <3> QED
      BY <1>1, <1>6, <2>1, <3>1 DEF SetOutOfCandidates
  <2>4. UNCHANGED <<planVars, ports, ports_locked, found, trying, pc, job, todo, callbacks>>
    BY <1>6 DEF SetOutOfCandidates, threadVars
  <2> QED
    BY <1>1, <1>6, <2>1, <2>2, <2>3, <2>4, <1>a, PlanTypeFrame
    DEF Types, Shapes, worldVars, adapterVars
<1> QED
  BY <1>2, <1>3, <1>4, <1>5, <1>6 DEF Search, SearchStep

\* Buses are exchanged, or one is moved.
LEMMA MoveTypes ==
  ASSUME Types, NEW p \in Ports, NEW q \in Ports, Move(p, q), UNCHANGED derailed
  PROVE  Types' /\ moves' # 0
<1>1. plugged \in [Ports -> Buses \cup {NoBus}] /\ moves \in 0 .. MaxMoves
  BY DEF Types, Shapes, History
<1>2. plugged' \in [Ports -> Buses \cup {NoBus}]
  BY <1>1 DEF Move
<1>3. moves' \in 0 .. MaxMoves /\ moves' # 0
  BY <1>1, BoundsType DEF Move
<1>4. History'
  BY <1>3 DEF Move, Types, History, adapterVars
<1> QED
  BY <1>2, <1>3, <1>4, PlanTypeFrame
  DEF Move, Types, Shapes, finderVars, portVars, searchVars, threadVars, adapterVars

\* All steps preserve the types.
LEMMA NextTypes ==
  ASSUME Types, Next
  PROVE  Types'
<1> USE ThreadFacts
<1>1. CASE OnTrack /\ (Start \/ StopAdding \/ MainStep)
  BY <1>1, MainTypes DEF OnTrack
<1>2. ASSUME OnTrack, NEW t \in Threads, FinderStep(t) PROVE Types'
  BY <1>2, FinderTypes DEF FinderStep, OnTrack
<1>3. ASSUME OnTrack, NEW t \in Workers, WorkerStep(t) \/ Failing(t) PROVE Types'
  BY <1>3, WorkerTypes DEF OnTrack
<1>4. ASSUME OnTrack, NEW p \in Ports, Search(p) \/ Find(p) PROVE Types'
  BY <1>4, SearchTypes DEF OnTrack
<1>5. ASSUME OnTrack, NEW p \in Ports, NEW q \in Ports, Move(p, q) PROVE Types'
  BY <1>5, MoveTypes DEF OnTrack
<1>6. CASE UsesOldPlan
  BY <1>6, PlanTypeFrame, HistoryFrame
  DEF UsesOldPlan, Types, Shapes, finderVars, portVars, searchVars, threadVars,
      adapterVars, worldVars
<1>7. ASSUME NEW t \in Workers, UsesEnd(t) PROVE Types'
  BY <1>7, PlanTypeFrame, HistoryFrame
  DEF UsesEnd, Types, Shapes, finderVars, portVars, searchVars, threadVars, adapterVars,
      worldVars
<1>8. ASSUME NEW t \in outdated, Meddles(t) PROVE Types'
  <2>1. t \in Workers /\ t \in Threads
    BY DEF Types, Shapes
  <2> QED
    BY <1>8, <2>1, FinderTypes, WorkerTypes DEF Meddles
<1> QED
  BY <1>1, <1>2, <1>3, <1>4, <1>5, <1>6, <1>7, <1>8 DEF Next

-----------------------------------------------------------------------------
(* The invariant holds.                                                    *)

LEMMA InitAdapter == ASSUME Init PROVE AdapterInv
<1> USE ThreadFacts DEF Init, FinderInit
<1>1. /\ PlanInv /\ known = {} /\ \A p \in Ports : assigned[p] = NoBus
      /\ OffersInv
  BY InitInv DEF PlanInit, OffersInv
<1>2. Types
  <2>1. plugged \in [Ports -> Buses \cup {NoBus}]
    BY PluggedType
  <2>2. <<>> \in Seq(Buses)
    OBVIOUS
  <2>3. searching \in [Ports -> Seq(Buses)] /\ trying \in [Ports -> Buses \cup {NoBus}]
    BY <2>2
  <2>4. Shapes
    BY <2>1, <2>3 DEF Shapes, Labels, MainLabels, WorkerLabels
  <2>5. /\ failures \in 0 .. MaxFailures /\ starts \in 0 .. MaxStarts
        /\ moves \in 0 .. MaxMoves
    BY BoundsType
  <2> QED
    BY <1>1, <2>4, <2>5 DEF Types, History, PlanInv
<1>3. WherePlugged
  BY <1>1 DEF WherePlugged
<1>4. ThreadInv
  BY DEF ThreadInv, CallbackLabels
<1>5. StopInv
  BY <1>1 DEF StopInv, StopLabels, AddingLabels
<1>6. BusesInv
  BY DEF BusesInv
<1>7. TurnsInv
  BY DEF TurnsInv
<1>8. ConfirmingInv
  BY DEF ConfirmingInv
<1>9. AssignedInv
  BY DEF AssignedInv, AssignedLabels, Live
<1>10. PortsInv
  BY DEF PortsInv, AssignedLabels, Live
<1>11. Settled
  <2>1. FeasibleSearched
    BY <1>1, NothingFeasible DEF FeasibleSearched
  <2>2. FoundWherePlugged
    BY DEF FoundWherePlugged
  <2> QED
    BY <1>1, <1>3, <2>1, <2>2 DEF Settled
<1> QED
  BY <1>1, <1>2, <1>3, <1>4, <1>5, <1>6, <1>7, <1>8, <1>9, <1>10, <1>11
  DEF AdapterInv, Good, Control

\* Moving buses leaves the adapter alone.
LEMMA ControlFrame ==
  ASSUME Control, UNCHANGED <<finderVars, adapterVars>>
  PROVE  Control'
<1> USE DEF finderVars, portVars, searchVars, threadVars, adapterVars
<1>1. (ThreadInv => ThreadInv') /\ (StopInv => StopInv') /\ (BusesInv => BusesInv')
  BY DEF ThreadInv, StopInv, BusesInv, PlanReset, planVars
<1>2. (TurnsInv => TurnsInv') /\ (PortsInv => PortsInv') /\ (OffersInv => OffersInv')
  BY DEF TurnsInv, PortsInv, OffersInv, PlanReset, Live, planVars
<1>3. (ConfirmingInv => ConfirmingInv') /\ (AssignedInv => AssignedInv')
  BY DEF ConfirmingInv, AssignedInv, PlanReset, Live, planVars
<1> QED
  BY <1>1, <1>2, <1>3 DEF Control

\* While the model goes on, everything is good.
LEMMA OnTrackStep ==
  ASSUME Types, Good, ~ thrown, Next, derailed' = "no", ~ thrown'
  PROVE  Good'
<1>1. CASE OnTrack /\ (Start \/ StopAdding \/ MainStep)
  BY <1>1, StartStep, StartedStep, StopAddingStep, TakeBusesStep, StopBusStep,
     LockPortsStep, ClearPortStep, PortsClearedStep, ResetPlanStep, StoppedStep
  DEF MainStep, ResetPorts
<1>2. ASSUME NEW t \in Threads, FinderStep(t)
      PROVE  Good'
  BY <1>2, AddCandidateStep, JoinSearchStep, ConfirmCandidateStep, ResetPortStep,
     UnassignPortStep
  DEF FinderStep
<1>3. ASSUME NEW t \in Workers, WorkerStep(t) \/ Failing(t)
      PROVE  Good'
  <2>1. ~ BuildThrows(t)
    BY DEF BuildThrows
  <2> QED
    BY <1>3, <2>1, AddBusStep, AddNothingStep, ConnectStep, BusAddedStep, CancelBusStep,
       UnassignedStep, ConnectFailsStep, ReadFailsStep DEF WorkerStep, Failing
<1>4. ASSUME NEW p \in Ports, Search(p) \/ Find(p)
      PROVE  Good'
  BY <1>4, CheckStep, NotFoundStep, FindStep, ThreadStep, SetOutOfCandidatesStep
  DEF Search, SearchStep
<1>5. ASSUME OnTrack, NEW p \in Ports, NEW q \in Ports, Move(p, q)
      PROVE  Good'
  <2>1. Control'
    BY <1>5, ControlFrame DEF Move, Good
  <2>2. moves' # 0
    BY <1>5, MoveTypes DEF OnTrack
  <2> QED
    BY <2>1, <2>2 DEF Good, Calm
<1>6. /\ ~ UsesOldPlan /\ ~ (\E t \in Workers : UsesEnd(t))
      /\ ~ (\E t \in outdated : Meddles(t))
  BY DEF UsesOldPlan, UsesEnd, Meddles
<1> QED
  BY <1>1, <1>2, <1>3, <1>4, <1>5, <1>6 DEF Next

\* Where the model ends, the adapter is being stopped, or has been while the thread
\* in question was in cancelBus.
LEMMA DerailStep ==
  ASSUME Types, Good, Next, derailed = "no", derailed' # "no"
  PROVE  /\ derailed' = "end()" => stopping' \/ outdated' # {}
         /\ (Calm => WherePlugged)'
<1> USE ThreadFacts
<1>1. ASSUME UNCHANGED <<plugged, moves>>,
             \A p \in Ports : assigned'[p] \in {NoBus, assigned[p]}
      PROVE  (Calm => WherePlugged)'
  BY <1>1 DEF Good, Settled, Calm, PluggedWhereListed, WherePlugged
<1>2. CASE UsesOldPlan
  BY <1>1, <1>2 DEF UsesOldPlan, finderVars, planVars, worldVars
<1>3. ASSUME NEW t \in Workers, UsesEnd(t)
      PROVE  (stopping' \/ outdated' # {}) /\ (Calm => WherePlugged)'
  <2>1. UNCHANGED <<finderVars, adapterVars, worldVars>>
    BY <1>3 DEF UsesEnd
  <2>2. (Calm => WherePlugged)'
    BY <1>1, <2>1 DEF finderVars, planVars, worldVars
  <2>3. ASSUME t \notin outdated, ~ stopping PROVE FALSE
    <3>1. /\ pc[main] \notin {"stop buses", "clear ports", "new plan"}
      BY <2>3 DEF Good, Control, StopInv, StopLabels
    <3>2. /\ pc[t] \in {"cancel", "unassign", "reset port"}
          /\ t \in Live /\ job[t] \in Candidates
      BY <1>3, <2>3 DEF UsesEnd, Live, Types, Shapes
    <3>3. job[t][1] \in Buses /\ job[t][1] # NoBus /\ job[t][2] \in Ports
      BY <3>2, CandidateFacts, NoBusIsNoBus
    <3>4. assigned[job[t][2]] = job[t][1] /\ job[t][2] \in ports
      BY <3>1, <3>2 DEF Good, Control, AssignedInv, PortsInv, AssignedLabels
    <3>5. pc[t] = "cancel" => buses[job[t][2]] # NoBus
      BY <3>1, <3>3 DEF Good, Control, BusesInv
    <3>6. On(known, job[t][2]) # {}
      BY <3>3, <3>4 DEF Good, Control, OffersInv
    <3> QED
      BY <1>3, <3>4, <3>5, <3>6 DEF UsesEnd
  <2> QED
    BY <2>1, <2>2, <2>3 DEF adapterVars
<1>4. ASSUME NEW t \in outdated, Meddles(t)
      PROVE  derailed' = "outdated" /\ (Calm => WherePlugged)'
  <2>1. derailed' = "outdated" /\ UNCHANGED <<plugged, moves>>
    BY <1>4 DEF Meddles, AddBus, worldVars
  <2>2. \A p \in Ports : assigned'[p] \in {NoBus, assigned[p]}
    <3>1. CASE ResetPort(t) \/ AddCandidate(t) \/ JoinSearch(t) \/ AddBus(t)
      BY <3>1 DEF ResetPort, AddCandidate, JoinSearch, AddBus, planVars
    <3>2. CASE UnassignPort(t)
      BY <3>2 DEF UnassignPort, Unassign, Types, PlanTypeOK
    <3> QED
      BY <1>4, <3>1, <3>2 DEF Meddles
  <2> QED
    BY <1>1, <2>1, <2>2
<1> QED
  BY <1>2, <1>3, <1>4 DEF Next, OnTrack, UsesOldPlan

\* That building a model has thrown is not forgotten.
LEMMA ThrownStays ==
  ASSUME Next, thrown
  PROVE  thrown'
<1> USE DEF OnTrack, worldVars
<1>1. Start \/ StopAdding \/ MainStep => thrown'
  BY DEF Start, StopAdding, MainStep, Started, TakeBuses, StopBus, ResetPorts,
         ResetPlan, Stopped
<1>2. ASSUME NEW t \in Threads, FinderStep(t) PROVE thrown'
  BY <1>2 DEF FinderStep
<1>3. ASSUME NEW t \in Workers, WorkerStep(t) \/ Failing(t) PROVE thrown'
  BY <1>3 DEF WorkerStep, AddBus, AddNothing, Connect, BusAdded, CancelBus, Unassigned,
              Failing, ConnectFails, BuildThrows, ReadFails
<1>4. ASSUME NEW p \in Ports, Search(p) \/ Find(p) PROVE thrown'
  BY <1>4 DEF Search, Find
<1>5. ASSUME NEW p \in Ports, NEW q \in Ports, Move(p, q) PROVE thrown'
  BY <1>5 DEF Move
<1>6. UsesOldPlan => thrown'
  BY DEF UsesOldPlan
<1>7. ASSUME NEW t \in Workers, UsesEnd(t) PROVE thrown'
  BY <1>7 DEF UsesEnd
<1>8. ASSUME NEW t \in outdated, Meddles(t) PROVE thrown'
  BY <1>8 DEF Meddles, AddBus
<1> QED
  BY <1>1, <1>2, <1>3, <1>4, <1>5, <1>6, <1>7, <1>8 DEF Next

\* The invariant is inductive.
LEMMA NextAdapter ==
  ASSUME AdapterInv, [Next]_vars
  PROVE  AdapterInv'
<1>1. CASE Next
  <2>1. Types /\ Types' /\ derailed = "no"
    BY <1>1, NextTypes DEF AdapterInv, Next, OnTrack
  <2>2. CASE thrown'
    BY <2>1, <2>2 DEF AdapterInv
  <2>3. CASE ~ thrown'
    <3>1. ~ thrown /\ Good
      BY <1>1, <2>1, <2>3, ThrownStays DEF AdapterInv
    <3>2. CASE derailed' = "no"
      BY <1>1, <2>1, <2>3, <3>1, <3>2, OnTrackStep DEF AdapterInv, Good, Settled
    <3>3. CASE derailed' # "no"
      BY <1>1, <2>1, <3>1, <3>3, DerailStep DEF AdapterInv
    <3> QED
      BY <3>2, <3>3
  <2> QED
    BY <2>2, <2>3
<1>2. CASE UNCHANGED vars
  <2>1. /\ UNCHANGED <<finderVars, adapterVars, derailed, worldVars>>
        /\ UNCHANGED <<planVars, portVars, threadVars, searchVars>>
    BY <1>2 DEF vars, finderVars, portVars
  <2>2. Types'
    BY <2>1, PlanTypeFrame, HistoryFrame
    DEF AdapterInv, Types, Shapes, portVars, searchVars, threadVars, adapterVars, worldVars
  <2>3. Control => Control'
    BY <2>1, ControlFrame
  <2>4. Good => Good'
    <3>1. (Calm => Settled) => (Calm => Settled)'
      BY <2>1, SettledFrame DEF searchVars, threadVars, adapterVars, worldVars
    <3> QED
      BY <2>3, <3>1 DEF Good
  <2>5. (Calm => WherePlugged) => (Calm => WherePlugged)'
    BY <2>1 DEF Calm, PluggedWhereListed, WherePlugged, planVars, worldVars
  <2> QED
    BY <2>1, <2>2, <2>4, <2>5 DEF AdapterInv, adapterVars, worldVars
<1> QED
  BY <1>1, <1>2

\* The invariant, for all behaviours
THEOREM AdapterInvariant == Spec => []AdapterInv
<1>1. Init => AdapterInv
  BY InitAdapter
<1>2. AdapterInv /\ [Next]_vars => AdapterInv'
  BY NextAdapter
<1> QED
  BY <1>1, <1>2, PTL DEF Spec

\* Type correctness of all variables
THEOREM AdapterTypeCorrect == Spec => []TypeOK
<1>1. AdapterInv => TypeOK
  <2> SUFFICES ASSUME Types PROVE TypeOK
    BY DEF AdapterInv
  <2>1. FinderTypeOK
    BY ThreadFacts DEF Types, Shapes, FinderTypeOK
  <2> QED
    BY <2>1 DEF Types, Shapes, History, TypeOK
<1> QED
  BY <1>1, AdapterInvariant, PTL

\* A bus is detected where it is plugged in, whatever fails, and whenever the adapter is
\* stopped: neither ambiguous buses nor the delay between the check of a candidate and
\* its confirmation lead to another port, until building a model throws.
THEOREM DetectionCorrect ==
  ASSUME PluggedWhereListed
  PROVE  Spec => []DetectedWherePlugged
<1>1. AdapterInv => DetectedWherePlugged
  BY DEF AdapterInv, Calm, WherePlugged, DetectedWherePlugged
<1> QED
  BY <1>1, AdapterInvariant, PTL

\* While the adapter is not being stopped, whatever is feasible is searched for, or
\* about to be (PortFinder.hpp's documentation of unassign), or has been added to a
\* search that was running out: no other interleaving loses a candidate.
THEOREM NoCandidateLost ==
  ASSUME PluggedWhereListed
  PROVE  Spec => []FeasibleIsSearched
<1>1. AdapterInv => FeasibleIsSearched
  BY DEF AdapterInv, Good, Calm, Settled, FeasibleIsSearched, UnassignSearches
<1> QED
  BY <1>1, AdapterInvariant, PTL

\* unassign is called for assigned ports only, wherever the buses are moved.
THEOREM UnassignPrecondition == Spec => []UnassignsAssigned
<1>1. AdapterInv => UnassignsAssigned
  BY DEF AdapterInv, Good, Control, UnassignsAssigned, AssignedInv, AssignedLabels, Live
<1> QED
  BY <1>1, AdapterInvariant, PTL

\* After a stop no connection, no bus, no plan and no callback of a destroyed port is
\* left, also when late readers in cancelBus have made ports for the previous plan.
THEOREM StopIsClean == Spec => []StopCleans
<1>1. AdapterInv => StopCleans
  <2> SUFFICES ASSUME AdapterInv, pc[main] = "idle", derailed = "no", ~ thrown
               PROVE  /\ up = {} /\ buses = [p \in Ports |-> NoBus]
                      /\ known = {} /\ \A t \in callbacks : job[t][2] \in ports
    BY DEF StopCleans
  <2>1. StopInv /\ PortsInv /\ Types
    BY DEF AdapterInv, Good, Control
  <2>2. up = {} /\ known = {} /\ \A p \in Ports : buses[p] = NoBus
    BY <2>1 DEF StopInv, PlanReset
  <2>3. buses = [p \in Ports |-> NoBus]
    BY <2>1, <2>2 DEF Types, Shapes
  <2> QED
    BY <2>1, <2>2, <2>3 DEF PortsInv
<1> QED
  BY <1>1, AdapterInvariant, PTL

\* end() is used only when a stop gets in between.
THEOREM EndOnlyAtStop == Spec => []EndIsNotUsed
<1>1. AdapterInv => EndIsNotUsed
  BY DEF AdapterInv, EndIsNotUsed
<1> QED
  BY <1>1, AdapterInvariant, PTL

-----------------------------------------------------------------------------
(* The adapter relies on ports and buses as Port and Bus implement them.   *)

Distinct(s) == \A i, j \in DOMAIN s : s[i] = s[j] => i = j

\* A search has each candidate once.
TurnsDistinct == \A p \in Ports : Distinct(searching[p])

FoundLabels == AssignedLabels \ {"reset port"}

\* Whoever is about an assigned bus finds the port as it was when the bus was found,
\* unless it has been destroyed, and constructed anew, meanwhile.
StillFound ==
  pc[main] # "new plan" =>
    /\ \A t \in Live :
         pc[t] \in FoundLabels /\ job[t][2] \in ports => found[job[t][2]]
    /\ \A c \in up : c[2] \in ports => found[c[2]]

ViewInv == ~ thrown /\ derailed = "no" => TurnsDistinct /\ StillFound

\* What remains of a sequence of different candidates when the first has had its turn
LEMMA TailDistinct ==
  ASSUME NEW s \in Seq(Buses), s # <<>>, Distinct(s)
  PROVE  /\ Distinct(Tail(s))
         /\ \A b : (\E i \in DOMAIN Tail(s) : Tail(s)[i] = b)
                     <=> (b # Head(s) /\ \E i \in DOMAIN s : s[i] = b)
<1>1. /\ DOMAIN s = 1 .. Len(s) /\ Len(s) \in Nat \ {0} /\ Head(s) = s[1]
      /\ DOMAIN Tail(s) = 1 .. Len(s) - 1
      /\ \A i \in 1 .. Len(s) - 1 : Tail(s)[i] = s[i + 1]
  OBVIOUS
<1>2. Distinct(Tail(s))
  <2> SUFFICES ASSUME NEW i \in 1 .. Len(s) - 1, NEW j \in 1 .. Len(s) - 1,
                      s[i + 1] = s[j + 1]
               PROVE  i = j
    BY <1>1 DEF Distinct
  <2>1. i + 1 \in DOMAIN s /\ j + 1 \in DOMAIN s
    BY <1>1
  <2>2. i + 1 = j + 1
    BY <2>1 DEF Distinct
  <2> QED
    BY <2>2
<1>3. ASSUME NEW i \in DOMAIN Tail(s)
      PROVE  Tail(s)[i] # Head(s) /\ \E j \in DOMAIN s : s[j] = Tail(s)[i]
  <2>1. i + 1 \in DOMAIN s /\ 1 \in DOMAIN s /\ i + 1 # 1 /\ Tail(s)[i] = s[i + 1]
    BY <1>1, <1>3
  <2>2. s[i + 1] # s[1]
    BY <2>1 DEF Distinct
  <2> QED
    BY <1>1, <2>1, <2>2
<1>4. ASSUME NEW b, b # Head(s), NEW i \in DOMAIN s, s[i] = b
      PROVE  \E j \in DOMAIN Tail(s) : Tail(s)[j] = b
  <2>1. i - 1 \in DOMAIN Tail(s) /\ (i - 1) + 1 = i
    BY <1>1, <1>4
  <2> QED
    BY <1>1, <1>4, <2>1
<1> QED
  BY <1>2, <1>3, <1>4

\* A candidate is added to the sequence.
LEMMA AppendDistinct ==
  ASSUME NEW s \in Seq(Buses), NEW b \in Buses, Distinct(s),
         ~ \E i \in DOMAIN s : s[i] = b
  PROVE  /\ Distinct(Append(s, b))
         /\ \A c : (\E i \in DOMAIN Append(s, b) : Append(s, b)[i] = c)
                     <=> (c = b \/ \E i \in DOMAIN s : s[i] = c)
<1>1. /\ DOMAIN s = 1 .. Len(s) /\ Len(s) \in Nat
      /\ DOMAIN Append(s, b) = 1 .. Len(s) + 1
      /\ \A i \in 1 .. Len(s) : Append(s, b)[i] = s[i]
      /\ Append(s, b)[Len(s) + 1] = b
  OBVIOUS
<1>2. \A i \in 1 .. Len(s) + 1 : i \in 1 .. Len(s) \/ i = Len(s) + 1
  BY <1>1
<1>3. Distinct(Append(s, b))
  BY <1>1, <1>2 DEF Distinct
<1>4. ASSUME NEW c
      PROVE  (\E i \in DOMAIN Append(s, b) : Append(s, b)[i] = c)
               <=> (c = b \/ \E i \in DOMAIN s : s[i] = c)
  <2>1. \A i \in 1 .. Len(s) : i \in 1 .. Len(s) + 1
    BY <1>1
  <2>2. Len(s) + 1 \in 1 .. Len(s) + 1
    BY <1>1
  <2> QED
    BY <1>1, <1>2, <2>1, <2>2
<1> QED
  BY <1>3, <1>4

\* The candidate that has had its turn goes to the end.
LEMMA RotateDistinct ==
  ASSUME NEW s \in Seq(Buses), s # <<>>, Distinct(s)
  PROVE  /\ Distinct(Append(Tail(s), Head(s)))
         /\ \A b : (\E i \in DOMAIN Append(Tail(s), Head(s)) : Append(Tail(s), Head(s))[i] = b)
                     <=> \E i \in DOMAIN s : s[i] = b
<1>1. Tail(s) \in Seq(Buses) /\ Head(s) \in Buses /\ 1 \in DOMAIN s /\ Head(s) = s[1]
  OBVIOUS
<1>2. Distinct(Tail(s)) /\ ~ \E i \in DOMAIN Tail(s) : Tail(s)[i] = Head(s)
  BY TailDistinct
<1>3. Distinct(Append(Tail(s), Head(s)))
  BY <1>1, <1>2, AppendDistinct
<1>4. \A b : (\E i \in DOMAIN Append(Tail(s), Head(s)) : Append(Tail(s), Head(s))[i] = b)
               <=> (b = Head(s) \/ \E i \in DOMAIN Tail(s) : Tail(s)[i] = b)
  BY <1>1, <1>2, AppendDistinct
<1>5. \A b : (\E i \in DOMAIN Tail(s) : Tail(s)[i] = b)
               <=> (b # Head(s) /\ \E i \in DOMAIN s : s[i] = b)
  BY TailDistinct
<1> QED
  BY <1>1, <1>3, <1>4, <1>5

\* All steps but those of the searches leave the searches alone, or stop them.
LEMMA TurnsDistinctStep ==
  ASSUME Types, TurnsDistinct, Next
  PROVE  TurnsDistinct'
<1>1. searching \in [Ports -> Seq(Buses)]
  BY DEF Types, Shapes
<1>2. Distinct(<<>>)
  BY DEF Distinct
<1>3. CASE UNCHANGED searching
  BY <1>3 DEF TurnsDistinct
<1>4. ASSUME NEW t \in Threads, AddCandidate(t) PROVE TurnsDistinct'
  <2>1. PICK c \in todo[t] :
          searching' = [searching EXCEPT ![c[2]] =
            IF found[c[2]] \/ \E i \in DOMAIN @ : @[i] = c[1] THEN @ ELSE Append(@, c[1])]
    BY <1>4 DEF AddCandidate
  <2>2. c[1] \in Buses /\ c[2] \in Ports
    BY DEF Types, Shapes, Candidates
  <2>3. \A p \in Ports : p # c[2] => searching'[p] = searching[p]
    BY <1>1, <2>1
  <2>4. Distinct(searching'[c[2]])
    <3>1. CASE found[c[2]] \/ \E i \in DOMAIN searching[c[2]] : searching[c[2]][i] = c[1]
      BY <1>1, <2>1, <2>2, <3>1 DEF TurnsDistinct
    <3>2. CASE ~ (found[c[2]] \/ \E i \in DOMAIN searching[c[2]] : searching[c[2]][i] = c[1])
      <4>1. searching'[c[2]] = Append(searching[c[2]], c[1])
        BY <1>1, <2>1, <2>2, <3>2
      <4>2. searching[c[2]] \in Seq(Buses) /\ Distinct(searching[c[2]])
        BY <1>1, <2>2 DEF TurnsDistinct
      <4> QED
        BY <2>2, <3>2, <4>1, <4>2, AppendDistinct
    <3> QED
      BY <3>1, <3>2
  <2> QED
    BY <2>3, <2>4 DEF TurnsDistinct
<1>5. ASSUME NEW p \in Ports, searching' = [searching EXCEPT ![p] = <<>>]
      PROVE  TurnsDistinct'
  BY <1>1, <1>2, <1>5 DEF TurnsDistinct
<1>6. ASSUME NEW t \in Threads, ResetPort(t) PROVE TurnsDistinct'
  <2>1. job[t][2] \in Ports
    BY <1>6 DEF ResetPort, Types, Shapes
  <2> QED
    BY <1>5, <1>6, <2>1 DEF ResetPort, StopThread
<1>7. ASSUME NEW p \in Ports, Check(p) \/ NotFound(p) PROVE TurnsDistinct'
  <2>1. searching[p] # <<>> /\ searching[p] \in Seq(Buses) /\ Distinct(searching[p])
    BY <1>1, <1>7 DEF Check, NotFound, TurnsDistinct, Types, Shapes
  <2>2. /\ \A q \in Ports : q # p => searching'[q] = searching[q]
        /\ searching'[p] \in {searching[p], Tail(searching[p]),
                               Append(Tail(searching[p]), Head(searching[p]))}
    BY <1>1, <1>7 DEF Check, NotFound
  <2>3. Distinct(searching'[p])
    BY <2>1, <2>2, TailDistinct, RotateDistinct
  <2> QED
    BY <2>2, <2>3 DEF TurnsDistinct
<1>8. ASSUME NEW p \in Ports, Find(p) PROVE TurnsDistinct'
  BY <1>5, <1>8 DEF Find, Found
<1>9. CASE ResetPorts
  <2>1. UNCHANGED searching \/ \E p \in Ports : ClearPort(main, p)
    BY <1>9 DEF ResetPorts, LockPorts, PortsCleared, searchVars
  <2> QED
    BY <1>3, <1>5, <2>1 DEF ClearPort, StopThread
<1> USE DEF portVars, searchVars, finderVars
<1>10. CASE Start \/ StopAdding \/ MainStep
  <2>1. ResetPorts \/ UNCHANGED searching
    BY <1>10 DEF Start, AddAllBuses, StopAdding, MainStep, Started, TakeBuses, StopBus,
              ResetPlan, NewPlan, Stopped
  <2> QED
    BY <1>3, <1>9, <2>1
<1>11. ASSUME NEW t \in Threads, ConfirmCandidate(t) \/ UnassignPort(t)
       PROVE  TurnsDistinct'
  BY <1>3, <1>11 DEF ConfirmCandidate, UnassignPort
<1>12. ASSUME NEW t \in Workers, WorkerStep(t) \/ Failing(t) PROVE TurnsDistinct'
  <2>1. UNCHANGED searching
    BY <1>12 DEF WorkerStep, AddBus, AddNothing, Connect, BusAdded, CancelBus, Unassigned,
       Failing, ConnectFails, BuildThrows, ReadFails, AddBusThrows
  <2> QED
    BY <1>3, <2>1
<1>13. ASSUME NEW t \in Threads, FinderStep(t) \/ Meddles(t) PROVE TurnsDistinct'
  <2>1. ASSUME JoinSearch(t) \/ AddBus(t) PROVE TurnsDistinct'
    BY <1>3, <2>1 DEF JoinSearch, AddBus
  <2> QED
    BY <1>4, <1>6, <1>11, <1>13, <2>1 DEF FinderStep, Meddles
<1>14. ASSUME NEW p \in Ports, NEW q \in Ports, Move(p, q) PROVE TurnsDistinct'
  BY <1>3, <1>14 DEF Move
<1>15. UsesOldPlan => TurnsDistinct'
  BY <1>3 DEF UsesOldPlan
<1>16. ASSUME NEW t \in Workers, UsesEnd(t) PROVE TurnsDistinct'
  BY <1>3, <1>16 DEF UsesEnd
<1>17. outdated \subseteq Threads
  BY ThreadFacts DEF Types, Shapes
<1>18. ASSUME NEW p \in Ports, FindEmpty(p) \/ SetOutOfCandidates(p) \/ LeaveSearch(p)
       PROVE  TurnsDistinct'
  BY <1>3, <1>5, <1>18 DEF FindEmpty, SetOutOfCandidates, LeaveSearch
<1> QED
  BY <1>7, <1>8, <1>10, <1>12, <1>13, <1>14, <1>15, <1>16, <1>17, <1>18
  DEF Next, Search, SearchStep

\* A step that leaves the ports alone
LEMMA StillFoundFrame ==
  ASSUME StillFound, UNCHANGED <<ports, found>>,
         pc[main] = "new plan" => pc'[main] = "new plan",
         \A t \in Live' : pc'[t] \in FoundLabels =>
           \/ t \in Live /\ pc[t] \in FoundLabels /\ job'[t] = job[t]
           \/ job'[t] \in up \/ found[job'[t][2]],
         \A c \in up' :
           c \in up \/ \E t \in Live : pc[t] \in FoundLabels /\ job[t] = c
  PROVE  StillFound'
<1> SUFFICES ASSUME pc'[main] # "new plan"
             PROVE  /\ \A t \in Live' : pc'[t] \in FoundLabels
                                        /\ job'[t][2] \in ports => found[job'[t][2]]
                    /\ \A c \in up' : c[2] \in ports => found[c[2]]
  BY DEF StillFound
<1>1. /\ \A t \in Live :
           pc[t] \in FoundLabels /\ job[t][2] \in ports => found[job[t][2]]
      /\ \A c \in up : c[2] \in ports => found[c[2]]
  BY DEF StillFound
<1>2. \A t \in Live' :
        pc'[t] \in FoundLabels /\ job'[t][2] \in ports => found[job'[t][2]]
  <2> SUFFICES ASSUME NEW t \in Live', pc'[t] \in FoundLabels, job'[t][2] \in ports
               PROVE  found[job'[t][2]]
    OBVIOUS
  <2> QED
    BY <1>1
<1>3. \A c \in up' : c[2] \in ports => found[c[2]]
  BY <1>1
<1> QED
  BY <1>2, <1>3

\* A thread moves on: only what it is about matters.
LEMMA StillFoundThread ==
  ASSUME Types, StillFound, UNCHANGED <<ports, found>>, NEW t \in Workers,
         \A u \in Threads : u # t => pc'[u] = pc[u] /\ job'[u] = job[u],
         outdated' \in {outdated, outdated \ {t}},
         pc'[t] \in FoundLabels =>
           \/ t \in Live /\ pc[t] \in FoundLabels /\ job'[t] = job[t]
           \/ job'[t] \in up \/ found[job'[t][2]],
         \A c \in up' :
           c \in up \/ (t \in Live /\ pc[t] \in FoundLabels /\ job[t] = c)
  PROVE  StillFound'
<1>1. pc'[main] = pc[main]
  BY ThreadFacts
<1>2. \A u \in Live' : u = t \/ (u \in Live /\ pc'[u] = pc[u] /\ job'[u] = job[u])
  <2> SUFFICES ASSUME NEW u \in Live', u # t
               PROVE  u \in Live /\ pc'[u] = pc[u] /\ job'[u] = job[u]
    OBVIOUS
  <2>1. u \in Workers /\ u \notin outdated'
    BY DEF Live
  <2>2. u \notin outdated
    BY <2>1
  <2>3. u \in Threads
    BY <2>1, ThreadFacts
  <2> QED
    BY <2>1, <2>2, <2>3 DEF Live
<1>3. \A u \in Live' : pc'[u] \in FoundLabels =>
        \/ u \in Live /\ pc[u] \in FoundLabels /\ job'[u] = job[u]
        \/ job'[u] \in up \/ found[job'[u][2]]
  BY <1>2
<1>4. \A c \in up' :
        c \in up \/ \E u \in Live : pc[u] \in FoundLabels /\ job[u] = c
  OBVIOUS
<1> QED
  BY <1>1, <1>3, <1>4, StillFoundFrame

\* The main thread moves on.
LEMMA StillFoundMain ==
  ASSUME Types, StillFound, UNCHANGED <<ports, found, job, outdated>>,
         \A u \in Workers : pc'[u] = pc[u],
         pc[main] # "new plan", up' \subseteq up
  PROVE  StillFound'
BY StillFoundFrame DEF Live

\* Steps of the main thread
LEMMA StillFoundMainStep ==
  ASSUME Types, Good, StillFound,
         Start \/ StopAdding \/ MainStep
  PROVE  StillFound'
<1> USE ThreadFacts DEF portVars, searchVars, Types, Shapes, adapterVars
<1>1. CASE Start
  BY <1>1, StillFoundMain DEF Start, AddAllBuses, Returned, Goto
<1>2. CASE StopAdding
  BY <1>2, StillFoundMain DEF StopAdding, Goto
<1>3. CASE Started
  BY <1>3, StillFoundMain DEF Started, Added, Goto
<1>4. CASE TakeBuses
  BY <1>4, StillFoundMain DEF TakeBuses, Goto
<1>5. ASSUME NEW c \in buses_copy, StopBus(c) PROVE StillFound'
  BY <1>5, StillFoundMain DEF StopBus, finderVars, threadVars
<1>6. CASE Stopped
  BY <1>6, StillFoundMain DEF Stopped, Goto
<1>7. CASE pc[main] = "stop buses" /\ LockPorts(main) /\ UNCHANGED <<adapterVars, worldVars>>
  BY <1>7, StillFoundMain DEF LockPorts, Goto
<1>8. CASE PortsCleared(main)
  BY <1>8 DEF PortsCleared, Goto, StillFound
<1>9. ASSUME NEW p \in Ports, ClearPort(main, p), UNCHANGED <<adapterVars, worldVars>>
      PROVE  StillFound'
  <2>1. /\ ports' = ports \ {p} /\ \A q \in Ports : q # p => found'[q] = found[q]
        /\ UNCHANGED <<pc, job, up, outdated>>
        /\ pc[main] = "clear ports"
    BY <1>9 DEF ClearPort, StopThread, threadVars
  <2>2. \A q \in ports' : q \in ports /\ found'[q] = found[q]
    BY <2>1
  <2> QED
    BY <2>1, <2>2 DEF StillFound, Live
<1>10. CASE ResetPlan
  <2>1. pc[main] = "new plan" /\ UNCHANGED up /\ outdated' = {u \in Workers : pc[u] # "idle"}
        /\ pc' = [pc EXCEPT ![main] = "reset"]
    BY <1>10 DEF ResetPlan, NewPlan, Goto
  <2>2. up = {}
    BY <2>1 DEF Good, Control, StopInv
  <2>3. \A u \in Live' : pc'[u] = "idle"
    BY <2>1 DEF Live
  <2> QED
    BY <2>1, <2>2, <2>3 DEF StillFound, FoundLabels, AssignedLabels
<1> QED
  BY <1>1, <1>2, <1>3, <1>4, <1>5, <1>6, <1>7, <1>8, <1>9, <1>10 DEF MainStep, ResetPorts

\* Steps of threads in PortFinder
LEMMA StillFoundFinder ==
  ASSUME Types, Good, StillFound, NEW t \in Threads, FinderStep(t)
  PROVE  StillFound'
<1> USE ThreadFacts DEF portVars, searchVars, adapterVars
<1>1. t \notin outdated /\ UNCHANGED <<up, outdated>>
  BY DEF FinderStep
<1>2. /\ pc \in [Threads -> Labels] /\ pc[main] \in MainLabels
      /\ found \in [Ports -> BOOLEAN]
  BY DEF Types, Shapes
<1>3. CASE AddCandidate(t)
  <2>1. PICK c \in todo[t] : ports' = ports \cup {c[2]}
    BY <1>3 DEF AddCandidate
  <2>2. ~ ports_locked /\ UNCHANGED <<found, pc, job>>
    BY <1>3 DEF AddCandidate
  <2>3. pc[main] # "clear ports"
    BY <2>2 DEF Good, Control, StopInv
  <2> SUFFICES ASSUME pc[main] # "new plan"
               PROVE  /\ \A u \in Live :
                           pc[u] \in FoundLabels /\ job[u][2] \in ports' => found[job[u][2]]
                      /\ \A d \in up : d[2] \in ports' => found[d[2]]
    BY <1>1, <2>2 DEF StillFound, Live
  <2>4. /\ \A u \in Live : pc[u] \in AssignedLabels => job[u][2] \in ports
        /\ \A d \in up : d[2] \in ports
    BY <2>3 DEF Good, Control, PortsInv
  <2> QED
    BY <2>4 DEF StillFound, FoundLabels
<1>4. CASE ConfirmCandidate(t)
  <2>1. /\ pc[t] = "confirm" /\ t \in Workers
        /\ pc' = [pc EXCEPT ![t] = "confirmed"]
        /\ UNCHANGED <<job, ports, found>>
    BY <1>2, <1>4 DEF ConfirmCandidate, Returned, Goto, MainLabels
  <2>2. found[job[t][2]]
    BY <1>1, <2>1 DEF Good, Control, ConfirmingInv, Live
  <2>3. /\ \A u \in Threads : u # t => pc'[u] = pc[u] /\ job'[u] = job[u]
        /\ job'[t] = job[t]
    BY <1>2, <2>1
  <2> QED
    BY <1>1, <2>1, <2>2, <2>3, StillFoundThread
<1>5. CASE ResetPort(t)
  <2>1. /\ pc[t] = "unassign" /\ t \in Live
        /\ pc' = [pc EXCEPT ![t] = "reset port"] /\ UNCHANGED <<job, ports>>
        /\ \A q \in Ports : q # job[t][2] => found'[q] = found[q]
    BY <1>1, <1>2, <1>5 DEF ResetPort, StopThread, Goto, Live, MainLabels
  <2>2. \A u \in Live : pc'[u] \in FoundLabels => pc[u] \in FoundLabels /\ u # t
    BY <1>2, <2>1 DEF FoundLabels, Live
  <2>3. \A u \in Live : pc'[u] \in FoundLabels => job[u][2] \in Ports /\ job[u][2] # job[t][2]
    <3> SUFFICES ASSUME NEW u \in Live, pc'[u] \in FoundLabels
                 PROVE  job[u][2] \in Ports /\ job[u][2] # job[t][2]
      OBVIOUS
    <3>1. pc[u] \in AssignedLabels /\ pc[t] \in AssignedLabels /\ u # t
      BY <2>1, <2>2 DEF FoundLabels, AssignedLabels
    <3>2. job[u] \in Candidates
      BY <3>1 DEF Types, Shapes, Live, AssignedLabels
    <3> QED
      BY <2>1, <3>1, <3>2 DEF Good, Control, AssignedInv, Candidates
  <2>4. \A c \in up : c[2] \in Ports /\ c[2] # job[t][2]
    BY <2>1, OnlyHere DEF Good, Control, Types, Live, AssignedLabels
  <2>5. pc'[main] = pc[main]
    BY <1>2, <2>1 DEF Live
  <2> QED
    BY <1>1, <2>1, <2>2, <2>3, <2>4, <2>5 DEF StillFound, Live
<1>6. CASE UnassignPort(t)
  <2>1. /\ pc[t] = "reset port" /\ t \in Workers
        /\ pc' = [pc EXCEPT ![t] = "unassigned"]
        /\ UNCHANGED <<job, ports, found>>
    BY <1>2, <1>6 DEF UnassignPort, Returned, Goto, MainLabels
  <2>2. /\ \A u \in Threads : u # t => pc'[u] = pc[u] /\ job'[u] = job[u]
        /\ pc'[t] \notin FoundLabels
    BY <1>2, <2>1 DEF FoundLabels, AssignedLabels
  <2> QED
    BY <1>1, <2>1, <2>2, StillFoundThread
<1>7. CASE JoinSearch(t)
  BY <1>1, <1>7, StillFoundFrame DEF JoinSearch, threadVars, Live
<1> QED
  BY <1>3, <1>4, <1>5, <1>6, <1>7 DEF FinderStep

\* Steps of the threads that add and cancel buses
LEMMA StillFoundWorker ==
  ASSUME Types, Good, StillFound, ~ thrown, ~ thrown', NEW t \in Workers,
         WorkerStep(t) \/ Failing(t)
  PROVE  StillFound'
<1> USE ThreadFacts DEF portVars, searchVars
<1>1. /\ pc \in [Threads -> Labels] /\ job \in [Threads -> Candidates \cup {NoBus}]
      /\ throwing = {}
      /\ \A u \in outdated :
           pc[u] \in {"unassign", "reset port", "unassigned", "confirm", "confirmed"}
  BY DEF Types, Shapes, History, Good, Control, ThreadInv
<1>2. CASE t \notin outdated /\ AddBus(t)
  <2>1. /\ UNCHANGED <<ports, found, job, outdated, up>>
        /\ \A u \in Threads : u # t => pc'[u] = pc[u] /\ job'[u] = job[u]
        /\ t \in Live /\ pc[t] \in FoundLabels
    BY <1>1, <1>2 DEF AddBus, Added, Goto, Live, FoundLabels, AssignedLabels
  <2> QED
    BY <1>1, <2>1, StillFoundThread
<1>3. CASE AddNothing(t)
  <2>1. /\ UNCHANGED <<ports, found, up>> /\ outdated' = outdated \ {t}
        /\ \A u \in Threads : u # t => pc'[u] = pc[u] /\ job'[u] = job[u]
        /\ pc'[t] \notin FoundLabels
    BY <1>1, <1>3 DEF AddNothing, End, Goto, adapterVars, FoundLabels, AssignedLabels
  <2> QED
    BY <1>1, <2>1, StillFoundThread
<1>4. CASE Connect(t)
  <2>1. /\ UNCHANGED <<ports, found, job, outdated>> /\ up' = up \cup {job[t]}
        /\ \A u \in Threads : u # t => pc'[u] = pc[u] /\ job'[u] = job[u]
        /\ t \in Live /\ pc[t] \in FoundLabels
        /\ pc'[t] \notin FoundLabels
    BY <1>1, <1>4 DEF Connect, Goto, Live, FoundLabels, AssignedLabels
  <2> QED
    BY <1>1, <2>1, StillFoundThread
<1>5. CASE BusAdded(t)
  <2>1. /\ UNCHANGED <<ports, found, outdated, up>>
        /\ \A u \in Threads : u # t => pc'[u] = pc[u] /\ job'[u] = job[u]
        /\ pc'[t] \notin FoundLabels
    BY <1>1, <1>5 DEF BusAdded, End, Goto, FoundLabels, AssignedLabels
  <2> QED
    BY <1>1, <2>1, StillFoundThread
<1>6. CASE CancelBus(t)
  <2>1. /\ UNCHANGED <<ports, found, job, outdated, up>>
        /\ \A u \in Threads : u # t => pc'[u] = pc[u] /\ job'[u] = job[u]
        /\ t \in Live /\ pc[t] \in FoundLabels
    BY <1>1, <1>6 DEF CancelBus, Goto, Live, FoundLabels, AssignedLabels
  <2> QED
    BY <1>1, <2>1, StillFoundThread
<1>7. CASE Unassigned(t)
  <2>1. /\ UNCHANGED <<ports, found, up>> /\ outdated' = outdated \ {t}
        /\ \A u \in Threads : u # t => pc'[u] = pc[u] /\ job'[u] = job[u]
        /\ pc'[t] \notin FoundLabels
    BY <1>1, <1>7 DEF Unassigned, End, Goto, FoundLabels, AssignedLabels
  <2> QED
    BY <1>1, <2>1, StillFoundThread
<1>8. CASE ConnectFails(t)
  <2>1. /\ UNCHANGED <<ports, found, job, outdated, up>>
        /\ \A u \in Threads : u # t => pc'[u] = pc[u] /\ job'[u] = job[u]
        /\ t \in Live /\ pc[t] \in FoundLabels
    BY <1>1, <1>8 DEF ConnectFails, AddBusThrows, Goto, Live, FoundLabels, AssignedLabels
  <2> QED
    BY <1>1, <2>1, StillFoundThread
<1>9. ~ BuildThrows(t)
  BY DEF BuildThrows
<1>10. CASE ReadFails(t)
  <2>1. PICK c \in up : up' = up \ {c} /\ Fork(t, "cancel", c[1], c[2])
    BY <1>10 DEF ReadFails
  <2>2. c = <<c[1], c[2]>>
    BY CandidateFacts DEF Types, Shapes, Candidates
  <2>3. /\ UNCHANGED <<ports, found, outdated>> /\ job'[t] = c
        /\ \A u \in Threads : u # t => pc'[u] = pc[u] /\ job'[u] = job[u]
    BY <1>1, <1>10, <2>1, <2>2 DEF ReadFails, Fork, Goto
  <2> QED
    BY <1>1, <2>1, <2>3, StillFoundThread
<1> QED
  BY <1>2, <1>3, <1>4, <1>5, <1>6, <1>7, <1>8, <1>9, <1>10 DEF WorkerStep, Failing

\* A step of the model as long as it goes on
LEMMA StillFoundStep ==
  ASSUME Types, Good, StillFound, ~ thrown, Next, derailed' = "no", ~ thrown'
  PROVE  StillFound'
<1> USE ThreadFacts DEF portVars, searchVars, threadVars, finderVars, adapterVars
<1>1. ASSUME NEW p \in Ports, Search(p) PROVE StillFound'
  BY <1>1, StillFoundFrame
  DEF Search, SearchStep, Check, NotFound, FindEmpty, SetOutOfCandidates, LeaveSearch, Live
<1>2. ASSUME NEW p \in Ports, Find(p) PROVE StillFound'
  <2>1. PICK t \in Workers : Found(p, t)
    BY <1>2 DEF Find
  <2>2. /\ pc[t] = "idle" /\ UNCHANGED <<ports, up, outdated>>
        /\ pc' = [pc EXCEPT ![t] = "confirm"] /\ job' = [job EXCEPT ![t] = <<trying[p], p>>]
        /\ found' = [found EXCEPT ![p] = TRUE]
    BY <1>2, <2>1 DEF Find, Found, Fork, Goto
  <2>3. \A q \in Ports : found[q] => found'[q]
    BY <2>2 DEF Types, Shapes
  <2>4. \A u \in Live : pc'[u] \in FoundLabels =>
          pc[u] \in FoundLabels /\ job'[u] = job[u] /\ job[u][2] \in Ports
    <3> SUFFICES ASSUME NEW u \in Live, pc'[u] \in FoundLabels
                 PROVE  pc[u] \in FoundLabels /\ job'[u] = job[u] /\ job[u][2] \in Ports
      OBVIOUS
    <3>1. u # t /\ u \in Workers /\ pc'[u] = pc[u] /\ job'[u] = job[u]
      BY <2>2 DEF FoundLabels, AssignedLabels, Live, Types, Shapes
    <3>2. job[u] \in Candidates
      BY <3>1 DEF FoundLabels, AssignedLabels, Types, Shapes
    <3> QED
      BY <3>1, <3>2 DEF Candidates
  <2>5. pc'[main] = pc[main]
    BY <2>2 DEF Types, Shapes
  <2>6. Live' = Live /\ up' = up /\ \A c \in up : c[2] \in Ports
    BY <2>2 DEF Live, Types, Shapes, Candidates
  <2> SUFFICES ASSUME pc[main] # "new plan"
               PROVE  /\ \A u \in Live : pc'[u] \in FoundLabels
                                         /\ job'[u][2] \in ports => found'[job'[u][2]]
                      /\ \A c \in up : c[2] \in ports => found'[c[2]]
    BY <2>2, <2>5, <2>6 DEF StillFound
  <2>7. \A u \in Live :
          pc'[u] \in FoundLabels /\ job'[u][2] \in ports => found'[job'[u][2]]
    BY <2>3, <2>4 DEF StillFound
  <2>8. \A c \in up : c[2] \in ports => found'[c[2]]
    BY <2>3, <2>6 DEF StillFound
  <2> QED
    BY <2>7, <2>8
<1>3. ASSUME NEW p \in Ports, NEW q \in Ports, Move(p, q) PROVE StillFound'
  BY <1>3, StillFoundFrame DEF Move, Live
<1>4. /\ ~ UsesOldPlan /\ ~ (\E t \in Workers : UsesEnd(t))
      /\ ~ (\E t \in outdated : Meddles(t))
  BY DEF UsesOldPlan, UsesEnd, Meddles
<1> QED
  BY <1>1, <1>2, <1>3, <1>4, StillFoundMainStep, StillFoundFinder, StillFoundWorker
  DEF Next

\* A step that no port sees
LEMMA PortFrame ==
  ASSUME NEW p \in Ports, UNCHANGED <<ports, search_thread, searching, found, callbacks>>,
         \A t \in callbacks : job'[t] = job[t]
  PROVE  PortStep(p)
<1>1. Phase(p)' = Phase(p) /\ Wanted(p)' = Wanted(p) /\ Confirming(p)' = Confirming(p)
  BY DEF Phase, Wanted, Confirming, SearchedFor
<1> QED
  BY <1>1 DEF PortStep, SearchOn!vars

\* The end of a thread, be it a callback or not
LEMMA EndSeen ==
  ASSUME Types, NEW p \in Ports, NEW t \in Workers,
         UNCHANGED <<ports, search_thread, searching, found>>, End(t)
  PROVE  PortStep(p)
<1>1. /\ callbacks' = callbacks \ {t} /\ callbacks \subseteq Threads
      /\ \A u \in callbacks' : job'[u] = job[u]
  BY ThreadFacts DEF End, Types, Shapes
<1>2. Phase(p)' = Phase(p) /\ Wanted(p)' = Wanted(p)
  BY DEF Phase, Wanted, SearchedFor
<1>3. CASE Confirming(p)' = Confirming(p)
  BY <1>2, <1>3 DEF PortStep, SearchOn!vars
<1>4. CASE Confirming(p)' # Confirming(p)
  <2>1. PICK b \in Confirming(p) : b \notin Confirming(p)'
    BY <1>1, <1>4 DEF Confirming
  <2>2. t \in callbacks /\ job[t] = <<b, p>>
    BY <1>1, <2>1 DEF Confirming
  <2>3. Confirming(p)' = Confirming(p) \ {b}
    BY <1>1, <2>1, <2>2 DEF Confirming
  <2>4. SearchOn(p)!CallbackReturns(b)
    BY <1>2, <2>3 DEF SearchOn!CallbackReturns
  <2> QED
    BY <2>1, <2>4 DEF PortStep, SearchOn!Next, Confirming
<1> QED
  BY <1>3, <1>4

\* The iterations of addCandidates
LEMMA AddCandidateSeen ==
  ASSUME Types, TurnsDistinct, NEW p \in Ports, NEW t \in Threads, AddCandidate(t)
  PROVE  PortStep(p)
<1>1. PICK c \in todo[t] :
        /\ ports' = ports \cup {c[2]}
        /\ searching' = [searching EXCEPT ![c[2]] =
             IF found[c[2]] \/ \E i \in DOMAIN @ : @[i] = c[1] THEN @ ELSE Append(@, c[1])]
        /\ search_thread' = [search_thread EXCEPT ![c[2]] =
             IF @ = "ended" /\ ~ found[c[2]] THEN "runs" ELSE @]
        /\ UNCHANGED <<found, job, callbacks>>
  BY DEF AddCandidate
<1>2. /\ c[1] \in Buses /\ c[2] \in Ports
      /\ searching \in [Ports -> Seq(Buses)] /\ found \in [Ports -> BOOLEAN]
      /\ search_thread'[p] = "empty" <=> search_thread[p] = "empty"
  BY <1>1 DEF Types, Shapes, Candidates
<1>3. Phase(p)' = Phase(p) /\ Confirming(p)' = Confirming(p) /\ p \notin ports \ ports'
  BY <1>1, <1>2 DEF Phase, Confirming
<1>4. CASE searching'[p] = searching[p]
  BY <1>3, <1>4 DEF PortStep, SearchOn!vars, Wanted, SearchedFor
<1>5. CASE searching'[p] # searching[p]
  <2>1. /\ p = c[2] /\ ~ found[p] /\ ~ \E i \in DOMAIN searching[p] : searching[p][i] = c[1]
        /\ searching'[p] = Append(searching[p], c[1])
    BY <1>1, <1>2, <1>5
  <2>2. searching[p] \in Seq(Buses) /\ Distinct(searching[p])
    BY <1>2 DEF TurnsDistinct
  <2>3. ASSUME NEW b PROVE SearchedFor(b, p)' <=> (b = c[1] \/ SearchedFor(b, p))
    <3> DEFINE s == Append(searching[p], c[1])
    <3>1. (\E i \in DOMAIN s : s[i] = b)
            <=> (b = c[1] \/ \E i \in DOMAIN searching[p] : searching[p][i] = b)
      <4> HIDE DEF s
      <4>1. /\ s = Append(searching[p], c[1]) /\ c[1] \in Buses
            /\ ~ \E i \in DOMAIN searching[p] : searching[p][i] = c[1]
        BY <1>2, <2>1 DEF s
      <4> QED
        BY <2>2, <4>1, AppendDistinct
    <3>2. SearchedFor(b, p)' <=> \E i \in DOMAIN s : s[i] = b
      BY <2>1 DEF SearchedFor
    <3> QED
      BY <3>1, <3>2 DEF SearchedFor
  <2>4. Wanted(p)' = Wanted(p) \cup {c[1]}
    BY <1>2, <2>3 DEF Wanted
  <2>5. SearchOn(p)!AddCandidate(c[1])
    BY <1>3, <2>1, <2>4 DEF SearchOn!AddCandidate, Phase
  <2> QED
    BY <1>2, <1>3, <2>5 DEF PortStep, SearchOn!Next
<1> QED
  BY <1>4, <1>5

\* Port::reset, of an assigned port
LEMMA ResetPortSeen ==
  ASSUME Types, Good, StillFound, pc[main] # "new plan",
         NEW p \in Ports, NEW t \in Threads, t \notin outdated, ResetPort(t)
  PROVE  PortStep(p)
<1>1. /\ pc[t] = "unassign" /\ job[t][2] \in ports /\ UNCHANGED <<ports, job, callbacks>>
      /\ search_thread' = [search_thread EXCEPT ![job[t][2]] = "ended"]
      /\ searching' = [searching EXCEPT ![job[t][2]] = <<>>]
      /\ found' = [found EXCEPT ![job[t][2]] = FALSE]
  BY DEF ResetPort, StopThread
<1>2. t \in Live /\ pc[t] \in FoundLabels
  BY <1>1, ThreadFacts DEF Live, Types, Shapes, MainLabels, FoundLabels, AssignedLabels
<1>3. found[job[t][2]]
  BY <1>1, <1>2 DEF StillFound
<1>4. CASE p # job[t][2]
  <2>1. /\ searching'[p] = searching[p] /\ found'[p] = found[p]
        /\ search_thread'[p] = search_thread[p]
    BY <1>1, <1>4 DEF Types, Shapes
  <2>2. Phase(p)' = Phase(p) /\ Wanted(p)' = Wanted(p) /\ Confirming(p)' = Confirming(p)
    BY <1>1, <2>1 DEF Phase, Wanted, Confirming, SearchedFor
  <2> QED
    BY <1>1, <2>2 DEF PortStep, SearchOn!vars
<1>5. CASE p = job[t][2]
  <2>1. /\ searching[p] = <<>> /\ searching'[p] = <<>> /\ search_thread[p] = "ended"
        /\ ~ found'[p] /\ search_thread'[p] = "ended"
    BY <1>1, <1>3, <1>5 DEF Types, Shapes, Good, Control, TurnsInv
  <2>2. Wanted(p)' = Wanted(p) /\ Confirming(p)' = Confirming(p)
    BY <1>1, <2>1 DEF Wanted, Confirming, SearchedFor
  <2>3. SearchOn(p)!Reset
    BY <1>3, <1>5, <2>1, <2>2 DEF SearchOn!Reset, Phase
  <2> QED
    BY <1>1, <2>3 DEF PortStep, SearchOn!Next
<1> QED
  BY <1>4, <1>5

\* The destructor of a port
LEMMA ClearPortSeen ==
  ASSUME Types, NEW p \in Ports, NEW q \in Ports, ClearPort(main, q)
  PROVE  PortStep(p)
<1>1. /\ ports' = ports \ {q} /\ q \in ports
      /\ \A t \in callbacks : job[t][2] # q
      /\ search_thread' = [search_thread EXCEPT ![q] = "ended"]
      /\ searching' = [searching EXCEPT ![q] = <<>>]
      /\ found' = [found EXCEPT ![q] = FALSE]
      /\ UNCHANGED <<job, callbacks>>
  BY DEF ClearPort, StopThread, threadVars
<1>2. CASE p # q
  <2>1. /\ searching'[p] = searching[p] /\ found'[p] = found[p]
        /\ search_thread'[p] = search_thread[p]
    BY <1>1, <1>2 DEF Types, Shapes
  <2>2. Phase(p)' = Phase(p) /\ Wanted(p)' = Wanted(p) /\ Confirming(p)' = Confirming(p)
    BY <1>1, <2>1 DEF Phase, Wanted, Confirming, SearchedFor
  <2> QED
    BY <1>1, <1>2, <2>2 DEF PortStep, SearchOn!vars
<1>3. CASE p = q
  <2>1. searching'[p] = <<>> /\ ~ found'[p] /\ search_thread'[p] = "ended"
    BY <1>1, <1>3 DEF Types, Shapes
  <2>2. Phase(p)' = "unassigned" /\ Wanted(p)' = {}
    BY <2>1 DEF Phase, Wanted, SearchedFor
  <2>3. Confirming(p)' = {}
    BY <1>1, <1>3 DEF Confirming
  <2> QED
    BY <1>1, <1>3, <2>2, <2>3 DEF PortStep, SearchOn!Init
<1> QED
  BY <1>2, <1>3

\* The search of a port
LEMMA SearchingSeen ==
  ASSUME Types, Good, TurnsDistinct, NEW p \in Ports, NEW q \in Ports,
         Check(q) \/ NotFound(q) \/ Find(q)
  PROVE  PortStep(p)
<1>1. /\ searching \in [Ports -> Seq(Buses)] /\ found \in [Ports -> BOOLEAN]
      /\ searching[q] # <<>> /\ ~ found[q] /\ Distinct(searching[q])
      /\ search_thread \in [Ports -> {"ended", "runs", "empty", "leaves", "joined"}]
      /\ search_thread[q] = "runs"
      /\ trying[q] # NoBus => trying[q] = Head(searching[q])
  <2>1. searching[q] # <<>> /\ search_thread[q] = "runs"
    BY DEF Check, NotFound, Find, Found, Types, Shapes
  <2>2. searching[q] \in Seq(Buses) /\ Head(searching[q]) = searching[q][1]
    BY <2>1 DEF Types, Shapes
  <2> QED
    BY <2>1, <2>2 DEF Types, Shapes, Good, Control, TurnsInv, TurnsDistinct
<1>2. searching[q] \in Seq(Buses) /\ Head(searching[q]) \in Buses
      /\ SearchedFor(Head(searching[q]), q)
  BY <1>1 DEF SearchedFor
<1>3. UNCHANGED ports
  BY DEF Check, NotFound, Find, Found
<1>4. CASE Check(q) \/ NotFound(q)
  <2>1. /\ UNCHANGED <<search_thread, found, callbacks, job>>
        /\ searching' \in {searching, [searching EXCEPT ![q] = Tail(@)],
                           [searching EXCEPT ![q] = Append(Tail(@), Head(@))]}
    BY <1>4 DEF Check, NotFound, threadVars
  <2>2. Phase(p)' = Phase(p) /\ Confirming(p)' = Confirming(p)
    BY <2>1 DEF Phase, Confirming
  <2>3. CASE p # q
    <3>1. searching'[p] = searching[p]
      BY <1>1, <2>1, <2>3
    <3> QED
      BY <1>3, <2>2, <3>1 DEF PortStep, SearchOn!vars, Wanted, SearchedFor
  <2>4. CASE p = q /\ searching'[p] # Tail(searching[p])
    <3>1. searching'[p] \in {searching[p], Append(Tail(searching[p]), Head(searching[p]))}
      BY <1>1, <2>1, <2>4
    <3>2. ASSUME NEW b PROVE SearchedFor(b, p)' <=> SearchedFor(b, p)
      <4> DEFINE s == Append(Tail(searching[p]), Head(searching[p]))
      <4>1. (\E i \in DOMAIN s : s[i] = b)
              <=> \E i \in DOMAIN searching[p] : searching[p][i] = b
        BY <1>1, <1>2, <2>4, RotateDistinct
      <4>2. CASE searching'[p] = searching[p]
        BY <4>2 DEF SearchedFor
      <4>3. CASE searching'[p] = s
        <5>1. SearchedFor(b, p)' <=> \E i \in DOMAIN s : s[i] = b
          BY <4>3 DEF SearchedFor
        <5> QED
          BY <4>1, <5>1 DEF SearchedFor
      <4> QED
        BY <3>1, <4>2, <4>3
    <3>3. Wanted(p)' = Wanted(p)
      BY <3>2 DEF Wanted
    <3> QED
      BY <1>3, <2>2, <3>3 DEF PortStep, SearchOn!vars
  <2>5. CASE p = q /\ searching'[p] = Tail(searching[p])
    <3>1. ASSUME NEW b
          PROVE  SearchedFor(b, p)' <=> (b # Head(searching[p]) /\ SearchedFor(b, p))
      <4> DEFINE s == Tail(searching[p])
      <4>1. (\E i \in DOMAIN s : s[i] = b)
              <=> (b # Head(searching[p])
                   /\ \E i \in DOMAIN searching[p] : searching[p][i] = b)
        BY <1>1, <1>2, <2>5, TailDistinct
      <4>2. SearchedFor(b, p)' <=> \E i \in DOMAIN s : s[i] = b
        BY <2>5 DEF SearchedFor
      <4> QED
        BY <4>1, <4>2 DEF SearchedFor
    <3>2. Wanted(p)' = Wanted(p) \ {Head(searching[p])} /\ Head(searching[p]) \in Wanted(p)
      BY <1>2, <2>5, <3>1 DEF Wanted
    <3>3. SearchOn(p)!DropInfeasible(Head(searching[p]))
      BY <1>1, <2>2, <2>5, <3>2 DEF SearchOn!DropInfeasible, Phase
    <3> QED
      BY <1>2, <1>3, <2>5, <3>3 DEF PortStep, SearchOn!Next
  <2> QED
    BY <2>3, <2>4, <2>5
<1>5. CASE Find(q)
  <2>1. PICK t \in Workers : Found(q, t)
    BY <1>5 DEF Find
  <2>2. /\ pc[t] = "idle" /\ job' = [job EXCEPT ![t] = <<trying[q], q>>]
        /\ callbacks' = callbacks \cup {t}
        /\ searching' = [searching EXCEPT ![q] = <<>>]
        /\ search_thread' = [search_thread EXCEPT ![q] = "ended"]
        /\ found' = [found EXCEPT ![q] = TRUE]
        /\ trying[q] = Head(searching[q])
    BY <1>1, <2>1 DEF Found, Fork
  <2>3. t \notin callbacks /\ callbacks \subseteq Threads /\ t \in Threads
    BY <2>2, ThreadFacts DEF Good, Control, ThreadInv, Types, Shapes
  <2>4. \A u \in callbacks : job'[u] = job[u]
    BY <2>2, <2>3
  <2>5. job'[t] = <<Head(searching[q]), q>>
    BY <2>2, <2>3 DEF Types, Shapes
  <2>6. CASE p # q
    <3>1. /\ searching'[p] = searching[p] /\ found'[p] = found[p]
          /\ search_thread'[p] = search_thread[p]
      BY <1>1, <2>2, <2>6
    <3>2. Confirming(p)' = Confirming(p)
      BY <2>2, <2>4, <2>5, <2>6 DEF Confirming
    <3> QED
      BY <1>3, <3>1, <3>2 DEF PortStep, SearchOn!vars, Wanted, SearchedFor, Phase
  <2>7. CASE p = q
    <3>1. searching'[p] = <<>> /\ found'[p] /\ search_thread'[p] = "ended"
      BY <1>1, <2>2, <2>7
    <3>2. Wanted(p)' = {} /\ Head(searching[p]) \in Wanted(p)
      BY <1>2, <2>7, <3>1 DEF Wanted, SearchedFor
    <3>3. Confirming(p)' = Confirming(p) \cup {Head(searching[p])}
      BY <1>2, <2>2, <2>4, <2>5, <2>7 DEF Confirming
    <3>4. SearchOn(p)!Find(Head(searching[p]))
      BY <1>1, <2>7, <3>1, <3>2, <3>3 DEF SearchOn!Find, Phase
    <3> QED
      BY <1>2, <1>3, <2>7, <3>4 DEF PortStep, SearchOn!Next
  <2> QED
    BY <2>6, <2>7
<1> QED
  BY <1>4, <1>5

\* The search of a port runs out of candidates.
LEMMA RunsOutSeen ==
  ASSUME Types, Good, NEW p \in Ports, NEW q \in Ports,
         FindEmpty(q) \/ SetOutOfCandidates(q) \/ LeaveSearch(q)
  PROVE  PortStep(p)
<1>1. /\ UNCHANGED <<ports, found, callbacks, job>>
      /\ searching \in [Ports -> Seq(Buses)]
      /\ search_thread \in [Ports -> {"ended", "runs", "empty", "leaves", "joined"}]
  BY DEF FindEmpty, SetOutOfCandidates, LeaveSearch, threadVars, Types, Shapes
<1>2. Confirming(p)' = Confirming(p)
  BY <1>1 DEF Confirming
<1>3. search_thread[q] # "ended" => ~ found[q]
  BY DEF Good, Control, TurnsInv
<1>4. CASE p # q \/ LeaveSearch(q)
  <2>1. searching'[p] = searching[p]
        /\ (search_thread'[p] = "empty" <=> search_thread[p] = "empty")
    BY <1>1, <1>4 DEF FindEmpty, SetOutOfCandidates, LeaveSearch
  <2>2. Phase(p)' = Phase(p) /\ Wanted(p)' = Wanted(p)
    BY <1>1, <2>1 DEF Phase, Wanted, SearchedFor
  <2> QED
    BY <1>1, <1>2, <2>2 DEF PortStep, SearchOn!vars
<1>5. CASE p = q /\ FindEmpty(q)
  <2>1. /\ search_thread[p] = "runs" /\ search_thread'[p] = "empty"
        /\ searching[p] = <<>> /\ searching'[p] = <<>>
    BY <1>1, <1>5 DEF FindEmpty
  <2>2. Wanted(p) = {} /\ Wanted(p)' = {}
    BY <2>1 DEF Wanted, SearchedFor
  <2>3. SearchOn(p)!GiveUp
    BY <1>1, <1>2, <1>3, <1>5, <2>1, <2>2 DEF SearchOn!GiveUp, Phase
  <2> QED
    BY <1>1, <2>3 DEF PortStep, SearchOn!Next
<1>6. CASE p = q /\ SetOutOfCandidates(q)
  <2>1. /\ search_thread[p] = "empty" /\ search_thread'[p] = "leaves"
        /\ searching'[p] = <<>>
    BY <1>1, <1>6 DEF SetOutOfCandidates
  <2>2. Wanted(p)' = {}
    BY <2>1 DEF Wanted, SearchedFor
  <2>3. SearchOn(p)!Forget
    BY <1>1, <1>2, <1>3, <1>6, <2>1, <2>2 DEF SearchOn!Forget, Phase
  <2> QED
    BY <1>1, <2>3 DEF PortStep, SearchOn!Next
<1> QED
  BY <1>4, <1>5, <1>6

\* addCandidate waits for a search that leaves its loop.
LEMMA JoinSearchSeen ==
  ASSUME Types, NEW p \in Ports, NEW t \in Threads, JoinSearch(t)
  PROVE  PortStep(p)
<1>1. /\ UNCHANGED <<ports, searching, found, callbacks, job>>
      /\ \E q \in Ports : /\ search_thread[q] = "leaves"
                          /\ search_thread' = [search_thread EXCEPT ![q] = "joined"]
  <2>1. PICK c \in todo[t] :
          /\ search_thread[c[2]] = "leaves"
          /\ search_thread' = [search_thread EXCEPT ![c[2]] = "joined"]
          /\ UNCHANGED <<ports, searching, found, callbacks, job>>
    BY DEF JoinSearch, threadVars
  <2>2. c[2] \in Ports
    BY DEF Types, Shapes, Candidates
  <2> QED
    BY <2>1, <2>2
<1>2. search_thread'[p] = "empty" <=> search_thread[p] = "empty"
  BY <1>1 DEF Types, Shapes
<1>3. Phase(p)' = Phase(p) /\ Wanted(p)' = Wanted(p) /\ Confirming(p)' = Confirming(p)
  BY <1>1, <1>2 DEF Phase, Wanted, Confirming, SearchedFor
<1> QED
  BY <1>1, <1>3 DEF PortStep, SearchOn!vars

\* All steps
LEMMA PortSeen ==
  ASSUME Types, Good, TurnsDistinct, StillFound, ~ thrown, pc[main] # "new plan",
         Next, derailed' = "no", ~ thrown', NEW p \in Ports
  PROVE  PortStep(p)
<1> USE DEF portVars, searchVars, finderVars, threadVars
<1>1. throwing = {}
  BY DEF Types, History
<1>2. CASE Start \/ StopAdding \/ MainStep
  <2>1. CASE \E q \in Ports : ClearPort(main, q)
    BY <2>1, ClearPortSeen
  <2>2. CASE ~ \E q \in Ports : ClearPort(main, q)
    <3>1. UNCHANGED <<ports, search_thread, searching, found, callbacks, job>>
      BY <1>2, <2>2 DEF Start, AddAllBuses, StopAdding, MainStep, Started, TakeBuses,
         StopBus, ResetPorts, LockPorts, PortsCleared, ResetPlan, NewPlan, Stopped
    <3> QED
      BY <3>1, PortFrame
  <2> QED
    BY <2>1, <2>2
<1>3. ASSUME NEW t \in Threads, FinderStep(t) PROVE PortStep(p)
  <2>1. CASE ConfirmCandidate(t) \/ UnassignPort(t)
    <3>1. UNCHANGED <<ports, search_thread, searching, found, callbacks, job>>
      BY <2>1 DEF ConfirmCandidate, UnassignPort
    <3> QED
      BY <3>1, PortFrame
  <2> QED
    BY <1>3, <2>1, AddCandidateSeen, JoinSearchSeen, ResetPortSeen DEF FinderStep
<1>4. ASSUME NEW t \in Workers, WorkerStep(t) \/ Failing(t) PROVE PortStep(p)
  <2>1. CASE AddNothing(t) \/ BusAdded(t) \/ Unassigned(t)
    <3>1. End(t) /\ UNCHANGED <<ports, search_thread, searching, found>>
      BY <1>1, <2>1 DEF AddNothing, BusAdded, Unassigned
    <3> QED
      BY <3>1, EndSeen
  <2>2. CASE AddBus(t) \/ Connect(t) \/ CancelBus(t) \/ ConnectFails(t)
    <3>1. UNCHANGED <<ports, search_thread, searching, found, callbacks, job>>
      BY <2>2 DEF AddBus, Connect, CancelBus, ConnectFails, AddBusThrows
    <3> QED
      BY <3>1, PortFrame
  <2>3. CASE ReadFails(t)
    <3>1. /\ pc[t] = "idle" /\ \E c \in up : job' = [job EXCEPT ![t] = <<c[1], c[2]>>]
          /\ UNCHANGED <<ports, search_thread, searching, found, callbacks>>
      BY <2>3 DEF ReadFails, Fork
    <3>2. \A u \in callbacks : u # t /\ u \in Threads
      BY <3>1, ThreadFacts DEF Good, Control, ThreadInv, Types, Shapes
    <3>3. \A u \in callbacks : job'[u] = job[u]
      BY <3>1, <3>2 DEF Types, Shapes
    <3> QED
      BY <3>1, <3>3, PortFrame
  <2>4. ~ BuildThrows(t)
    BY DEF BuildThrows
  <2> QED
    BY <1>4, <2>1, <2>2, <2>3, <2>4 DEF WorkerStep, Failing
<1>5. ASSUME NEW q \in Ports, Search(q) \/ Find(q) PROVE PortStep(p)
  BY <1>5, SearchingSeen, RunsOutSeen DEF Search, SearchStep
<1>6. ASSUME NEW q \in Ports, NEW r \in Ports, Move(q, r) PROVE PortStep(p)
  BY <1>6, PortFrame DEF Move
<1>7. /\ ~ UsesOldPlan /\ ~ (\E t \in Workers : UsesEnd(t))
      /\ ~ (\E t \in outdated : Meddles(t))
  BY DEF UsesOldPlan, UsesEnd, Meddles
<1> QED
  BY <1>2, <1>3, <1>4, <1>5, <1>6, <1>7 DEF Next

\* Threads that are about the bus which is assigned to a port, as far as its connection
\* is concerned
OwnerLabels == {"confirmed", "add bus", "cancel"}

\* A step that nobody sees who is about a bus on the port
LEMMA BusFrame ==
  ASSUME NEW p \in Ports,
         OpenAt(p)' = OpenAt(p),
         \A u \in Workers, label \in {"cancel", "add bus"} :
           (pc'[u] = label /\ job'[u][2] = p) <=> (pc[u] = label /\ job[u][2] = p)
  PROVE  BusStep(p)
<1>1. ThreadsAt("cancel", p)' = ThreadsAt("cancel", p)
  BY DEF ThreadsAt
<1>2. ThreadsAt("add bus", p)' = ThreadsAt("add bus", p)
  BY DEF ThreadsAt
<1>3. ConnectionAt(p)' = ConnectionAt(p)
  BY <1>1, <1>2 DEF ConnectionAt
<1> QED
  BY <1>3 DEF BusStep, ConnectionOn!vars

\* Each bus has one owner at a time.
LEMMA OneOwner ==
  ASSUME Types, Good, NEW p \in Ports
  PROVE  /\ \A t \in Workers : pc[t] \in {"cancel", "add bus"} => t \in Live
         /\ \A t, u \in Live :
              /\ pc[t] \in OwnerLabels /\ job[t][2] = p
              /\ pc[u] \in OwnerLabels /\ job[u][2] = p
              => t = u
         /\ \A c, d \in up : c[2] = p /\ d[2] = p => c = d
         /\ \A c \in up, t \in Live :
              pc[t] \in OwnerLabels /\ job[t][2] = p => c[2] # p
<1>1. /\ \A t \in Workers : pc[t] \in {"cancel", "add bus"} => t \in Live
      /\ OwnerLabels \subseteq AssignedLabels
  BY DEF OwnerLabels, AssignedLabels, Live, Good, Control, ThreadInv
<1>2. AssignedInv
  BY DEF Good, Control
<1>3. ASSUME NEW c \in up, c[2] = p PROVE c = <<assigned[p], p>>
  <2>1. c \in Buses \X Ports
    BY DEF Types, Shapes, Candidates
  <2>2. c[1] = assigned[p]
    BY <1>2, <1>3 DEF AssignedInv
  <2> QED
    BY <1>3, <2>1, <2>2
<1>4. \A t, u \in Live :
        /\ pc[t] \in OwnerLabels /\ job[t][2] = p
        /\ pc[u] \in OwnerLabels /\ job[u][2] = p
        => t = u
  BY <1>1, <1>2 DEF AssignedInv
<1>5. \A c, d \in up : c[2] = p /\ d[2] = p => c = d
  BY <1>3
<1>6. \A c \in up, t \in Live : pc[t] \in OwnerLabels /\ job[t][2] = p => c[2] # p
  BY <1>1, <1>2 DEF AssignedInv
<1> QED
  BY <1>1, <1>4, <1>5, <1>6

\* addBus and cancelBus
LEMMA BusWorkerSeen ==
  ASSUME Types, Good, NEW p \in Ports, NEW t \in Workers,
         \/ t \notin outdated /\ AddBus(t)
         \/ Connect(t) \/ ConnectFails(t) \/ ReadFails(t) \/ CancelBus(t)
  PROVE  BusStep(p)
<1> USE DEF threadVars
<1>1. /\ t \in Threads /\ pc \in [Threads -> Labels]
      /\ job \in [Threads -> Candidates \cup {NoBus}]
      /\ up \subseteq Candidates /\ Workers \subseteq Threads
  BY ThreadFacts DEF Types, Shapes
<1>2. \A u \in Workers : u # t => pc'[u] = pc[u] /\ job'[u] = job[u]
  BY <1>1 DEF AddBus, Connect, ConnectFails, AddBusThrows, ReadFails, CancelBus, Goto, Fork
<1>3. /\ \A u \in Workers : pc[u] \in {"cancel", "add bus"} => u \in Live
      /\ ~ ReadFails(t) => t \in Live
  <2>1. \A u \in Workers : pc[u] \in {"cancel", "add bus"} => u \in Live
    BY OneOwner
  <2>2. ~ ReadFails(t) => t \notin outdated \/ pc[t] \in {"cancel", "add bus"}
    BY DEF Connect, ConnectFails, CancelBus
  <2> QED
    BY <2>1, <2>2 DEF Live
<1>4. /\ \A u, v \in Live :
           /\ pc[u] \in OwnerLabels /\ job[u][2] = p
           /\ pc[v] \in OwnerLabels /\ job[v][2] = p
           => u = v
      /\ \A c, d \in up : c[2] = p /\ d[2] = p => c = d
      /\ \A c \in up, u \in Live :
           pc[u] \in OwnerLabels /\ job[u][2] = p => c[2] # p
  BY OneOwner
<1>5. ASSUME t \in Live, pc[t] \in OwnerLabels, job[t][2] = p, job' = job
      PROVE  /\ OpenAt(p) = {}
             /\ \A label \in {"cancel", "add bus"} :
                  /\ ThreadsAt(label, p) = IF pc[t] = label THEN {t} ELSE {}
                  /\ ThreadsAt(label, p)' = IF pc'[t] = label THEN {t} ELSE {}
  <2>1. OpenAt(p) = {}
    BY <1>4, <1>5 DEF OpenAt
  <2>2. \A u \in Workers : u # t => ~ (pc[u] \in {"cancel", "add bus"} /\ job[u][2] = p)
    BY <1>3, <1>4, <1>5 DEF OwnerLabels
  <2>3. ASSUME NEW label \in {"cancel", "add bus"}
        PROVE  /\ ThreadsAt(label, p) = IF pc[t] = label THEN {t} ELSE {}
               /\ ThreadsAt(label, p)' = IF pc'[t] = label THEN {t} ELSE {}
    BY <1>2, <1>5, <2>2 DEF ThreadsAt
  <2> QED
    BY <2>1, <2>3
<1>6. CASE (t \notin outdated /\ AddBus(t)) \/ Connect(t) \/ ConnectFails(t) \/ CancelBus(t)
  <2>1. /\ t \in Live /\ pc[t] \in OwnerLabels /\ job' = job
        /\ up' = up \/ (Connect(t) /\ up' = up \cup {job[t]})
    <3>1. t \in Live
      BY <1>3, <1>6 DEF AddBus, Connect, ConnectFails, CancelBus, ReadFails, Fork, Added
    <3> QED
      BY <1>6, <3>1
      DEF AddBus, Connect, ConnectFails, AddBusThrows, CancelBus, Added, OwnerLabels
  <2>2. CASE job[t][2] # p
    <3>1. OpenAt(p)' = OpenAt(p)
      BY <2>1, <2>2 DEF OpenAt
    <3> QED
      BY <1>2, <2>1, <2>2, <3>1, BusFrame DEF OpenAt
  <2>3. CASE job[t][2] = p
    <3> HIDE DEF threadVars
    <3>1. OpenAt(p) = {} /\ (up' = up => OpenAt(p)' = {})
      BY <1>5, <2>1, <2>3 DEF OpenAt
    <3>2. \A label \in {"cancel", "add bus"} :
            /\ ThreadsAt(label, p) = IF pc[t] = label THEN {t} ELSE {}
            /\ ThreadsAt(label, p)' = IF pc'[t] = label THEN {t} ELSE {}
      BY <1>5, <2>1, <2>3
    <3>3. CASE AddBus(t)
      <4>1. pc[t] = "confirmed" /\ pc'[t] = "add bus" /\ up' = up
        BY <1>1, <3>3 DEF AddBus, Added, Goto
      <4>2. ConnectionAt(p) = "closed" /\ ConnectionAt(p)' = "new"
        BY <3>1, <3>2, <4>1 DEF ConnectionAt, One
      <4> QED
        BY <4>2 DEF BusStep, ConnectionOn!Init
    <3>4. CASE Connect(t)
      <4>1. pc[t] = "add bus" /\ pc'[t] = "build model" /\ up' = up \cup {job[t]}
        BY <1>1, <3>4 DEF Connect, Goto
      <4>2. OpenAt(p)' = {job[t]}
        BY <2>3, <3>1, <4>1 DEF OpenAt
      <4>3. ConnectionAt(p) = "new"
        BY <3>1, <3>2, <4>1 DEF ConnectionAt, One
      <4>4. ConnectionAt(p)' = "open"
        BY <3>2, <4>1, <4>2 DEF ConnectionAt, One
      <4> QED
        BY <4>3, <4>4 DEF BusStep, ConnectionOn!Next, ConnectionOn!Open
    <3>5. CASE ConnectFails(t)
      <4>1. pc[t] = "add bus" /\ pc'[t] = "unassign" /\ up' = up
        BY <1>1, <3>5 DEF ConnectFails, AddBusThrows, Goto
      <4>2. ConnectionAt(p) = "new" /\ ConnectionAt(p)' = "closed"
        BY <3>1, <3>2, <4>1 DEF ConnectionAt, One
      <4> QED
        BY <4>2 DEF BusStep, ConnectionOn!Next, ConnectionOn!OpenFails
    <3>6. CASE CancelBus(t)
      <4>1. pc[t] = "cancel" /\ pc'[t] = "unassign" /\ up' = up
        BY <1>1, <3>6 DEF CancelBus, Goto
      <4>2. ConnectionAt(p) = "lost" /\ ConnectionAt(p)' = "closed"
        BY <3>1, <3>2, <4>1 DEF ConnectionAt, One
      <4> QED
        BY <4>2 DEF BusStep, ConnectionOn!Next, ConnectionOn!CancelBus
    <3> QED
      BY <1>6, <3>3, <3>4, <3>5, <3>6
  <2> QED
    BY <2>2, <2>3
<1>7. CASE ReadFails(t)
  <2>1. PICK c \in up :
          /\ up' = up \ {c} /\ pc[t] = "idle" /\ pc'[t] = "cancel"
          /\ job'[t] = <<c[1], c[2]>>
    BY <1>1, <1>7 DEF ReadFails, Fork, Goto
  <2>2. CASE c[2] # p
    <3>1. OpenAt(p)' = OpenAt(p)
      BY <2>1, <2>2 DEF OpenAt
    <3>2. \A u \in Workers, label \in {"cancel", "add bus"} :
            (pc'[u] = label /\ job'[u][2] = p) <=> (pc[u] = label /\ job[u][2] = p)
      <4>1. job'[t][2] # p /\ pc[t] \notin {"cancel", "add bus"}
        BY <2>1, <2>2
      <4> QED
        BY <1>2, <4>1
    <3> QED
      BY <3>1, <3>2, BusFrame
  <2>3. CASE c[2] = p
    <3>1. OpenAt(p) = {c} /\ OpenAt(p)' = {}
      BY <1>4, <2>1, <2>3 DEF OpenAt
    <3>2. \A u \in Workers : ~ (pc[u] \in {"cancel", "add bus"} /\ job[u][2] = p)
      BY <1>3, <1>4, <2>3 DEF OwnerLabels
    <3>3. /\ ThreadsAt("cancel", p) = {} /\ ThreadsAt("add bus", p) = {}
          /\ ThreadsAt("cancel", p)' = {t} /\ ThreadsAt("add bus", p)' = {}
      <4>1. \A u \in Workers, label \in {"cancel", "add bus"} :
              /\ ~ (pc[u] = label /\ job[u][2] = p)
              /\ (pc'[u] = label /\ job'[u][2] = p) <=> (u = t /\ label = "cancel")
        <5>1. \A u \in Workers, label \in {"cancel", "add bus"} :
                ~ (pc[u] = label /\ job[u][2] = p)
          BY <3>2
        <5>2. pc'[t] = "cancel" /\ job'[t][2] = p
          BY <2>1, <2>3
        <5> QED
          BY <1>2, <5>1, <5>2
      <4> QED
        BY <4>1 DEF ThreadsAt
    <3>4. ConnectionAt(p) = "open" /\ ConnectionAt(p)' = "lost"
      BY <3>1, <3>3 DEF ConnectionAt, One
    <3> QED
      BY <3>4 DEF BusStep, ConnectionOn!Next, ConnectionOn!Lose, ConnectionOn!Close
  <2> QED
    BY <2>2, <2>3
<1> QED
  BY <1>6, <1>7

\* Bus::stop, in a stop of the adapter
LEMMA StopBusSeen ==
  ASSUME Types, Good, NEW p \in Ports, NEW c \in buses_copy, StopBus(c)
  PROVE  BusStep(p)
<1>1. up' = up \ {c} /\ UNCHANGED <<pc, job>>
  BY DEF StopBus, finderVars, threadVars
<1>2. /\ ThreadsAt("cancel", p)' = ThreadsAt("cancel", p)
      /\ ThreadsAt("add bus", p)' = ThreadsAt("add bus", p)
  BY <1>1 DEF ThreadsAt
<1>3. CASE c \notin up \/ c[2] # p
  <2>1. OpenAt(p)' = OpenAt(p)
    BY <1>1, <1>3 DEF OpenAt
  <2> QED
    BY <1>1, <2>1, BusFrame DEF OpenAt
<1>4. CASE c \in up /\ c[2] = p
  <2>1. OpenAt(p) = {c} /\ OpenAt(p)' = {}
    BY <1>1, <1>4, OneOwner DEF OpenAt
  <2>2. ThreadsAt("cancel", p) = {} /\ ThreadsAt("add bus", p) = {}
    BY <1>4, OneOwner DEF ThreadsAt, OwnerLabels
  <2>3. ConnectionAt(p) = "open" /\ ConnectionAt(p)' = "closed"
    BY <1>2, <2>1, <2>2 DEF ConnectionAt, One
  <2> QED
    BY <2>3 DEF BusStep, ConnectionOn!Next, ConnectionOn!Stop, ConnectionOn!Close
<1> QED
  BY <1>3, <1>4

\* All steps
LEMMA BusSeen ==
  ASSUME Types, Good, ~ thrown, Next, derailed' = "no", ~ thrown', NEW p \in Ports
  PROVE  BusStep(p)
<1> USE DEF finderVars, threadVars
<1>1. /\ throwing = {} /\ pc \in [Threads -> Labels]
      /\ main \notin Workers /\ Workers \subseteq Threads
  BY ThreadFacts DEF Types, Shapes, History
<1>2. ASSUME UNCHANGED <<up, job>>, NEW t \in Threads,
             \A u \in Threads : u # t => pc'[u] = pc[u],
             t \in Workers => /\ pc[t] \notin {"cancel", "add bus"}
                              /\ pc'[t] \notin {"cancel", "add bus"}
      PROVE  BusStep(p)
  <2>1. \A u \in Workers, label \in {"cancel", "add bus"} : pc'[u] = label <=> pc[u] = label
    BY <1>1, <1>2
  <2> QED
    BY <1>2, <2>1, BusFrame DEF OpenAt
<1>3. CASE Start \/ StopAdding \/ MainStep
  <2>1. CASE \E c \in buses_copy : StopBus(c)
    BY <2>1, StopBusSeen
  <2>2. CASE ~ \E c \in buses_copy : StopBus(c)
    <3>1. UNCHANGED <<up, job>> /\ \A u \in Workers : pc'[u] = pc[u]
      BY <1>1, <1>3, <2>2, ThreadFacts
      DEF Start, AddAllBuses, StopAdding, MainStep, Started, TakeBuses, ResetPorts,
          LockPorts, ClearPort, PortsCleared, ResetPlan, NewPlan, Stopped, Added, Returned,
          Goto, adapterVars, Types, Shapes
    <3> QED
      BY <3>1, BusFrame DEF OpenAt
  <2> QED
    BY <2>1, <2>2
<1>4. ASSUME NEW t \in Threads, FinderStep(t) PROVE BusStep(p)
  <2>1. /\ UNCHANGED <<up, job>>
        /\ \/ pc' = pc
           \/ /\ pc[t] \in {"confirm", "unassign", "reset port"}
              /\ \E label \in {"confirmed", "reset port", "unassigned"} :
                   pc' = [pc EXCEPT ![t] = label]
    BY <1>4 DEF FinderStep, AddCandidate, JoinSearch, ConfirmCandidate, ResetPort, UnassignPort,
       Returned, Goto, adapterVars
  <2>2. CASE pc' = pc
    BY <2>1, <2>2, BusFrame DEF OpenAt
  <2>3. CASE pc' # pc
    BY <1>1, <1>2, <2>1, <2>3
  <2> QED
    BY <2>2, <2>3
<1>5. ASSUME NEW t \in Workers, WorkerStep(t) \/ Failing(t) PROVE BusStep(p)
  <2>1. CASE AddNothing(t) \/ BusAdded(t) \/ Unassigned(t)
    <3>1. /\ UNCHANGED up /\ End(t)
          /\ pc[t] \in {"confirmed", "build model", "unassigned"}
      BY <1>1, <2>1 DEF AddNothing, BusAdded, Unassigned, Added, adapterVars
    <3>2. pc' = [pc EXCEPT ![t] = "idle"] /\ \A u \in Workers : u # t => job'[u] = job[u]
      BY <1>1, <3>1 DEF End, Goto, Types, Shapes
    <3>3. \A u \in Workers, label \in {"cancel", "add bus"} :
            (pc'[u] = label /\ job'[u][2] = p) <=> (pc[u] = label /\ job[u][2] = p)
      BY <1>1, <3>1, <3>2
    <3> QED
      BY <3>1, <3>3, BusFrame DEF OpenAt
  <2>2. ~ BuildThrows(t)
    BY DEF BuildThrows
  <2> QED
    BY <1>5, <2>1, <2>2, BusWorkerSeen DEF WorkerStep, Failing
<1>6. ASSUME NEW q \in Ports, Search(q) PROVE BusStep(p)
  BY <1>6, BusFrame DEF OpenAt, Search, SearchStep, Check, NotFound, FindEmpty,
     SetOutOfCandidates, LeaveSearch, adapterVars
<1>7. ASSUME NEW q \in Ports, Find(q) PROVE BusStep(p)
  <2>1. PICK t \in Workers :
          /\ UNCHANGED up /\ pc[t] = "idle" /\ pc'= [pc EXCEPT ![t] = "confirm"]
          /\ \E c \in Candidates : job' = [job EXCEPT ![t] = c]
    <3>1. PICK t \in Workers : Found(q, t)
      BY <1>7 DEF Find
    <3>2. <<trying[q], q>> \in Candidates
      BY <1>7, <3>1 DEF Find, Types, Shapes, Candidates
    <3> QED
      BY <1>7, <3>1, <3>2 DEF Find, Found, Fork, Goto, adapterVars
  <2>2. \A u \in Workers, label \in {"cancel", "add bus"} :
          (pc'[u] = label /\ job'[u][2] = p) <=> (pc[u] = label /\ job[u][2] = p)
    BY <1>1, <2>1 DEF Types, Shapes
  <2> QED
    BY <2>1, <2>2, BusFrame DEF OpenAt
<1>8. ASSUME NEW q \in Ports, NEW r \in Ports, Move(q, r) PROVE BusStep(p)
  BY <1>8, BusFrame DEF OpenAt, Move, adapterVars
<1>9. /\ ~ UsesOldPlan /\ ~ (\E t \in Workers : UsesEnd(t))
      /\ ~ (\E t \in outdated : Meddles(t))
  BY DEF UsesOldPlan, UsesEnd, Meddles
<1> QED
  BY <1>3, <1>4, <1>5, <1>6, <1>7, <1>8, <1>9 DEF Next

\* The searches and the buses as they are found
LEMMA InitView == ASSUME Init PROVE ViewInv
BY DEF Init, FinderInit, ViewInv, TurnsDistinct, StillFound, Distinct, FoundLabels,
   AssignedLabels, Live, Workers

LEMMA NextView ==
  ASSUME AdapterInv, ViewInv, [Next]_vars
  PROVE  ViewInv'
<1> SUFFICES ASSUME ~ thrown', derailed' = "no"
             PROVE  TurnsDistinct' /\ StillFound'
  BY DEF ViewInv
<1>1. CASE Next
  <2>1. Types /\ ~ thrown /\ derailed = "no" /\ Good
    BY <1>1, ThrownStays DEF AdapterInv, Next, OnTrack
  <2>2. TurnsDistinct /\ StillFound
    BY <2>1 DEF ViewInv
  <2> QED
    BY <1>1, <2>1, <2>2, TurnsDistinctStep, StillFoundStep
<1>2. CASE UNCHANGED vars
  <2>1. UNCHANGED <<thrown, derailed, searching, pc, job, ports, found, up, outdated>>
    BY <1>2 DEF vars, finderVars, portVars, searchVars, threadVars, adapterVars, worldVars
  <2> QED
    BY <2>1 DEF ViewInv, TurnsDistinct, StillFound, Live
<1> QED
  BY <1>1, <1>2

\* PortFinder and the ports rely on each other as PortSearch has it: until building a
\* model throws, or reset is about to make a new plan, a port is reset only while it is
\* assigned (Port.hpp:55), it is destroyed only when its callbacks have returned, and a
\* candidate that it wants is found or dropped, unless it was added while the search
\* was giving up (Port.cpp:138).
THEOREM PortsRelied == Spec => PortsAsPromised
<1>1. Init => AdapterInv /\ ViewInv
  BY InitAdapter, InitView
<1>2. AdapterInv /\ ViewInv /\ [Next]_vars => AdapterInv' /\ ViewInv'
  BY NextAdapter, NextView
<1>3. AdapterInv /\ ViewInv /\ [Next]_vars
      => [~ thrown' /\ derailed' = "no" /\ pc[main] # "new plan" =>
            \A p \in Ports : PortStep(p)]_vars
  <2> SUFFICES ASSUME AdapterInv, ViewInv, Next, ~ thrown', derailed' = "no",
                      pc[main] # "new plan", NEW p \in Ports
               PROVE  PortStep(p)
    OBVIOUS
  <2>1. Types /\ ~ thrown /\ derailed = "no" /\ Good
    BY ThrownStays DEF AdapterInv, Next, OnTrack
  <2>2. TurnsDistinct /\ StillFound
    BY <2>1 DEF ViewInv
  <2> QED
    BY <2>1, <2>2, PortSeen
<1> QED
  BY <1>1, <1>2, <1>3, PTL DEF Spec, PortsAsPromised

\* The adapter and its buses rely on each other as BusConnection has it: until building
\* a model throws, the bus on a port connects once, a connection that is lost is
\* cancelled once, and the next bus takes the port only when the last one is closed.
THEOREM BusesRelied == Spec => BusesAsPromised
<1>1. AdapterInv /\ [Next]_vars
      => [~ thrown' /\ derailed' = "no" => \A p \in Ports : BusStep(p)]_vars
  <2> SUFFICES ASSUME AdapterInv, Next, ~ thrown', derailed' = "no", NEW p \in Ports
               PROVE  BusStep(p)
    OBVIOUS
  <2>1. Types /\ ~ thrown /\ derailed = "no" /\ Good
    BY ThrownStays DEF AdapterInv, Next, OnTrack
  <2> QED
    BY <2>1, BusSeen
<1> QED
  BY <1>1, AdapterInvariant, PTL DEF Spec, BusesAsPromised

=============================================================================
