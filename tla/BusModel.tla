------------------------------ MODULE BusModel ------------------------------
(***************************************************************************)
(* What the metrics of a bus show: from the JSON configuration, by the     *)
(* configuration that is read from it, the building of the devices' model  *)
(* (Bus::buildModel, with a BurstPlan for each metric), and a read with    *)
(* the metric's decoder, to its value.  All registers can be read; Bus and *)
(* Readcallback model how reading fails and how threads interfere.         *)
(*                                                                         *)
(* The device registry is the one of the demo (DemoReader), which collects *)
(* the metrics of the registered devices in a list, Readables.  Its main   *)
(* thread starts, reads and stops while the bus registers its devices.     *)
(***************************************************************************)
EXTENDS BurstPlan, ConfigJson, Decoders, LibmodbusAbstraction

CONSTANTS
  JsonConfigs,     \* bound: the configuration files
  Memories,        \* bound: what may be in the registers of a device at some time
  MaxCycles        \* bound: how often the demo starts the adapter

ASSUME BoundsType ==
  /\ MaxCycles \in Nat
  /\ \A m \in Memories : \A r \in DOMAIN m : m[r] \in RegisterValues

VARIABLES
  json,            \* the configuration file
  config,          \* bus_configs_
  bus,             \* the index of the bus that is started
  context,         \* what libmodbus is given for it
  device,          \* buildModel: the index of the device
  readables,       \* buildGroup: the readables still to be added,
  group_id,        \* the group they belong to; 0 is the device itself,
  pending,         \* and the groups that are still to be built
  groups,          \* device builder: the names of the groups it has made
  metrics,         \* ... and the metrics of the device, with their BurstPlans
  registered,      \* devices_to_deregister
  main,            \* what the main thread does
  cycles,          \* start_stop_cycle
  readables_,      \* the metrics which the demo knows
  readings         \* the metric that was read last, the registers, and its value

jsonVars == <<json, config>>
groupVars == <<readables, group_id, pending, groups>>
buildVars == <<bus, context, device, groupVars>>
demoVars == <<main, cycles, readables_, readings>>
vars == <<planVars, jsonVars, buildVars, metrics, registered, demoVars>>

Init ==
  /\ PlanInit /\ pc = "load"
  /\ json \in JsonConfigs
  /\ config = <<>> /\ bus = 0 /\ context = <<>>
  /\ device = 0 /\ readables = <<>> /\ group_id = 0 /\ pending = <<>> /\ groups = <<>>
  /\ metrics = {} /\ registered = {}
  /\ main = "stopped" /\ cycles = 0 /\ readables_ = {} /\ readings = {}

-----------------------------------------------------------------------------

\* The file is read by the constructor of the adapter.  It may not be readable.
LoadConfig ==
  /\ pc = "load"
  /\ \/ All(BusParses, json) /\ config' = BusesOfJson(json) /\ pc' = "configured"
     \/ pc' = "refused" /\ UNCHANGED config
  /\ UNCHANGED <<inputs, optima, list, plan, json, buildVars, metrics, registered, demoVars>>

\* buildGroup is entered: readables come first, then the subgroups
Enter(group, id, later) ==
  /\ readables' = group.readables
  /\ group_id' = id
  /\ pending' = group.subgroups \o later

\* A bus is found on a port, and then connected
StartBus ==
  /\ pc = "configured" /\ main # "stopped"
  /\ bus' \in DOMAIN config
  /\ LET b == config[bus'] IN
     \E port \in ToSet(b.possible_serial_ports) :
       context' = ContextRTU(port, b.baud, b.parity, b.data_bits, b.stop_bits, b.rts_delay)
  /\ device' = 0
  /\ pc' = "next device"
  /\ UNCHANGED <<inputs, optima, list, plan, jsonVars, groupVars, metrics, registered,
                 demoVars>>

BuildDevice ==
  /\ pc = "next device" /\ device < Len(config[bus].devices)
  /\ device' = device + 1
  /\ Enter(config[bus].devices[device'], 0, <<>>)
  /\ groups' = <<>>
  /\ pc' = "build"
  /\ UNCHANGED <<inputs, optima, list, plan, jsonVars, bus, context, metrics, registered,
                 demoVars>>

\* A BurstBuffer with its BurstPlan is constructed for the next readable
PlanReadable ==
  /\ pc = "build" /\ readables # <<>>
  /\ LET d == config[bus].devices[device] IN
     NewPlan(d.holding_registers, d.input_registers, Head(readables).registers,
             d.burst_size)
  /\ UNCHANGED <<jsonVars, buildVars, metrics, registered, demoVars>>

addReadableMetric ==
  /\ pc = "done"
  /\ metrics' = metrics \cup
       {[device |-> config[bus].devices[device].id, readable |-> Head(readables),
         group |-> IF group_id = 0 THEN "" ELSE groups[group_id],
         bursts |-> bursts, task_to_plan |-> task_to_plan]}
  /\ readables' = Tail(readables)
  /\ pc' = "build"
  /\ UNCHANGED <<inputs, optima, list, plan, jsonVars, bus, context, device, group_id,
                 pending, groups, registered, demoVars>>

\* The device builder makes a group of the device: it is not told of the parent
addDeviceElementGroup ==
  /\ pc = "build" /\ readables = <<>> /\ pending # <<>>
  /\ groups' = Append(groups, Head(pending).name)
  /\ Enter(Head(pending), Len(groups'), Tail(pending))
  /\ UNCHANGED <<planVars, jsonVars, bus, context, device, metrics, registered, demoVars>>

\* The registry is called ...
Registrate ==
  /\ pc = "build" /\ readables = <<>> /\ pending = <<>>
  /\ registered' = registered \cup {config[bus].devices[device].id}
  /\ pc' = "registrate"
  /\ UNCHANGED <<inputs, optima, list, plan, jsonVars, buildVars, metrics, demoVars>>

\* Readables
add(metric) == readables_ \cup {metric}

\* ... which collects the metrics in whatever order the device has them
registrate ==
  /\ pc = "registrate"
  /\ \E metric \in metrics :
       /\ readables_' = add(metric)
       /\ metrics' = metrics \ {metric}
  /\ UNCHANGED <<planVars, jsonVars, buildVars, registered, main, cycles, readings>>

Registered ==
  /\ pc = "registrate" /\ metrics = {}
  /\ pc' = "next device"
  /\ UNCHANGED <<inputs, optima, list, plan, jsonVars, buildVars, metrics, registered,
                 demoVars>>

ModelBuilt ==
  /\ pc = "next device" /\ device = Len(config[bus].devices)
  /\ pc' = "running"
  /\ UNCHANGED <<inputs, optima, list, plan, jsonVars, buildVars, metrics, registered,
                 demoVars>>

\* mutated: only one metric is removed
removeFirst(ids) ==
  LET removable == {r \in readables_ : r.device \in ids}
      first == IF removable = {} THEN {} ELSE {CHOOSE r \in removable : TRUE}
  IN readables_ \ first

\* Readables::remove for each device that is deregistered
remove(ids) == {r \in readables_ : r.device \notin ids}

\* A BurstPlan throws: all devices are deregistered
Abort ==
  /\ pc = "thrown"
  /\ readables_' = remove(registered)
  /\ metrics' = {} /\ registered' = {}
  /\ pc' = "aborted"
  /\ UNCHANGED <<inputs, optima, list, plan, jsonVars, buildVars, main, cycles, readings>>

-----------------------------------------------------------------------------
(* The main thread                                                         *)

Start ==
  /\ main = "stopped" /\ pc = "configured" /\ cycles < MaxCycles
  /\ main' = "started"
  /\ cycles' = cycles + 1
  /\ UNCHANGED <<planVars, jsonVars, buildVars, metrics, registered, readables_, readings>>

\* One of the metrics which read_all reads.  The bursts are read one after the
\* other, what the task asks for is picked, and decoded.
Read(metric) ==
  /\ main = "started"
  /\ \E memory \in Memories :
     LET ReadBurst(burst) ==
           [j \in 1 .. burst.end - burst.begin + 1 |-> memory[burst.begin + j - 1]]
         padded == FlattenSeq(Each(ReadBurst, metric.bursts))
         compact == Each(LAMBDA i : padded[i + 1], metric.task_to_plan)
     IN readings' = {[metric |-> metric, memory |-> memory,
                      value |-> Decode(metric.readable.decode, compact)]}
  /\ UNCHANGED <<planVars, jsonVars, buildVars, metrics, registered, main, cycles,
                 readables_>>

\* DemoReader::stop first forgets all metrics ...
Clear ==
  /\ main = "started"
  /\ main' = "cleared"
  /\ readables_' = {} /\ readings' = {}
  /\ UNCHANGED <<planVars, jsonVars, buildVars, metrics, registered, cycles>>

\* ... and then stops the adapter, which waits for a bus that is being added (see
\* Adapter), and stops the bus
Stop ==
  /\ main = "cleared" /\ pc \in {"configured", "running", "aborted"}
  /\ main' = "stopped"
  /\ readables_' = remove(registered)
  /\ registered' = {}
  /\ pc' = "configured"
  /\ UNCHANGED <<inputs, optima, list, plan, jsonVars, buildVars, metrics, cycles, readings>>

\* The main function, which waits between the calls
MainStep == Start \/ (\E metric \in readables_ : Read(metric)) \/ Clear \/ Stop

BuildStep ==
  \/ BuildDevice \/ PlanReadable \/ addReadableMetric \/ addDeviceElementGroup
  \/ Registrate \/ registrate \/ Registered \/ ModelBuilt \/ Abort
  \/ PlanStep /\ UNCHANGED <<jsonVars, buildVars, metrics, registered, demoVars>>

Next == LoadConfig \/ StartBus \/ BuildStep \/ MainStep

Spec == Init /\ [][Next]_vars

-----------------------------------------------------------------------------

\* Type invariant of the variables.  The configuration has its types although the
\* JSON has negative numbers where it should not: they are converted.
TypeOK ==
  /\ PlanTypeOK
  /\ pc \in {"load", "refused", "configured", "next device", "build", "optimize",
             "collect", "done", "thrown", "registrate", "aborted", "running"}
  /\ main \in {"stopped", "started", "cleared"} /\ cycles \in 0 .. MaxCycles
  /\ bus \in 0 .. Len(config) /\ group_id \in 0 .. Len(groups)
  /\ bus # 0 => device \in 0 .. Len(config[bus].devices)
  /\ All(IsBus, config)

JsonDevice == json[bus].devices[device]
JsonRanges(ranges) == {<<ranges[i].begin, ranges[i].end>> : i \in DOMAIN ranges}
JsonHolding(d) == Registers(JsonRanges(d.holding_registers))
JsonInput(d) == Registers(JsonRanges(d.input_registers))

\* RegisterSet keeps what the ranges of the configuration say, however they
\* overlap or touch: membership, the end of consecutive members, the subset
\* relation (which PortFinderPlan orders the buses by) and the order of
\* iteration are right.
RegisterSetsCorrect ==
  pc = "build" =>
    LET h == JsonHolding(JsonDevice)  i == JsonInput(JsonDevice)
        holds == config[bus].devices[device].holding_registers
        inputs_ == config[bus].devices[device].input_registers
        Interesting == 0 .. Max(h \cup i \cup {0}) + 1
        End(r) == Max({e \in Interesting \cup {r - 1} : e >= r - 1 /\ r .. e \subseteq h})
    IN
    /\ \A r \in Interesting : contains(holds, r) = (r \in h)
    /\ \A r \in Interesting : endOfRange(holds, r) = End(r)
    /\ SubsetOf(holds, inputs_) = (h \subseteq i)
    /\ SubsetOf(inputs_, holds) = (i \subseteq h)
    /\ Iterate(holds) = SetToSortSeq(h, <)

\* The readables below a JSON device or group, each with the name of its group
RECURSIVE JsonLeaves(_, _)
JsonLeaves(node, name) ==
  UNION {IF e.element_type = "readable" THEN {[json |-> e, group |-> name]}
         ELSE JsonLeaves(e, e.name) : e \in ToSet(node.elements)}

JsonReadables == [d \in ToSet(json[bus].devices) |-> JsonLeaves(d, "")]

\* When the model is built, libmodbus has been given the parameters of the JSON bus,
\* all devices are registered, and the demo knows the metrics that belong to the
\* JSON elements, in their groups.  When it is not,
\* then because a metric uses a register that the device does not have
\* ("holding_registers [...] and `input_registers` together must contain all
\* registers used", Config.hpp:83-84), and nothing remains registered.  And the
\* demo knows no metric after it has stopped the adapter, though it forgets them
\* before that, while a bus may be registering more.
ModelIsConfigured ==
  LET JsonDevices == DOMAIN JsonReadables
      Unreadable(d) == \E leaf \in JsonReadables[d] :
        ~ ToSet(leaf.json.registers) \subseteq JsonHolding(d) \cup JsonInput(d)
  IN
  /\ pc = "running" =>
       /\ context.device_ \in ToSet(json[bus].possible_serial_ports)
       /\ <<context.parity, json[bus].parity>>
            \in {<<"E", "Even">>, <<"O", "Odd">>, <<"N", "None">>}
       /\ context.rts_delay = Max({json[bus].rts_delay, 0})
       /\ \A field \in {"baud", "data_bits", "stop_bits"} :
            context[field] = json[bus][field]
  /\ pc = "running" => registered = {d.id : d \in JsonDevices}
  /\ pc = "running" => \A d \in JsonDevices : ~ Unreadable(d)
  /\ pc = "running" /\ main = "started" =>
       {<<m.device, m.group, m.readable.name>> : m \in readables_}
         = UNION {{<<d.id, leaf.group, leaf.json.name>> : leaf \in JsonReadables[d]} :
                  d \in JsonDevices}
  /\ pc = "aborted" => \E d \in JsonDevices : Unreadable(d)
  /\ pc = "aborted" \/ main = "stopped" => registered = {} /\ readables_ = {}

\* The documentation of the decoders (ConfigJson.hpp:40-69)
Documented(decoder, values) ==
  LET Unsigned(v) == MapThenSumSet(LAMBDA i : v[i] * RegisterBase ^ (i - 1), DOMAIN v)
      Signed(v) == IF v = <<>> \/ Unsigned(v) < (RegisterBase ^ Len(v)) \div 2
                   THEN Unsigned(v) ELSE Unsigned(v) - RegisterBase ^ Len(v)
      Given(field, default) == IF field \in DOMAIN decoder THEN decoder[field] ELSE default
      Integer(v) == IF Given("signed", FALSE) THEN Signed(v) ELSE Unsigned(v)
  IN CASE decoder.type = "linear" ->
            <<Integer(values) * Given("factor", 1) + Given("offset", 0)>>
       [] decoder.type = "mantissa/exponent" /\ values # <<>> ->
            <<Integer(Tail(values)), Signed(<<values[1]>>)>>
       [] decoder.type = "float" /\ Len(values) \in {2, 4} ->
            [i \in 1 .. 2 * Len(values) |->
               (Unsigned(values) \div ByteBase ^ (i - 1)) % ByteBase]
       [] OTHER -> <<>>

\* The value of a metric is what its JSON decoder is documented to make of the
\* device's registers which its JSON field "registers" lists, in this order,
\* however the bursts that read them are arranged.
ReadsWhatIsConfigured ==
  \A reading \in readings : \A d \in ToSet(json[bus].devices) :
    reading.metric.device = d.id =>
      \E leaf \in JsonReadables[d] :
        /\ leaf.json.name = reading.metric.readable.name
        /\ reading.value = Documented(leaf.json.decoder,
             [i \in DOMAIN leaf.json.registers |-> reading.memory[leaf.json.registers[i]]])

=============================================================================
