----------------------------- MODULE ConfigJson -----------------------------
(***************************************************************************)
(* From JSON to the configuration.  A JSON object is a function of its     *)
(* fields, an array a sequence, a number an integer.  A field of the wrong *)
(* JSON type makes the code throw like one that is missing, which stands   *)
(* for both.  Whether the code throws is told by ...Parses, what it        *)
(* returns otherwise by ...OfJson.  Descriptions are treated like names    *)
(* and left out.                                                           *)
(***************************************************************************)
EXTENDS Numbers, RegisterSet

Has(json, fields) == fields \subseteq DOMAIN json

readWithDefault(json, field, default) ==
  IF field \in DOMAIN json THEN json[field] ELSE default

Each(Op(_), seq) == [i \in DOMAIN seq |-> Op(seq[i])]
All(Op(_), seq) == \A i \in DOMAIN seq : Op(seq[i])

-----------------------------------------------------------------------------

ParityParses(json) == json \in {"Even", "Odd", "None"}

RangeParses(json) == Has(json, {"begin", "end"})
RegisterRangeOfJson(json) == <<ToInt(json.begin), ToInt(json.end)>>

DecoderParses(json) ==
  /\ Has(json, {"type"})
  /\ \/ json.type \in {"linear", "float"}
     \/ json.type = "mantissa/exponent" /\ Has(json, {"base"})

DecoderOfJson(json) ==
  CASE json.type = "linear" ->
         [type |-> "linear", signed |-> readWithDefault(json, "signed", FALSE),
          factor |-> readWithDefault(json, "factor", 1),
          offset |-> readWithDefault(json, "offset", 0)]
    [] json.type = "float" -> [type |-> "float"]
    [] json.type = "mantissa/exponent" ->
         [type |-> "mantissa/exponent", base |-> json.base,
          signed |-> readWithDefault(json, "signed", FALSE)]

ReadableParses(json) ==
  Has(json, {"decoder", "name", "registers"}) /\ DecoderParses(json.decoder)

ReadableOfJson(json) ==
  [name |-> json.name, registers |-> Each(ToInt, json.registers),
   decode |-> DecoderOfJson(json.decoder)]

RECURSIVE ElementsParse(_)
ElementsParse(json) ==
  LET ElementParses(element) ==
        /\ Has(element, {"element_type"})
        /\ \/ element.element_type = "readable" /\ ReadableParses(element)
           \/ /\ element.element_type = "group" /\ Has(element, {"name"})
              /\ ElementsParse(element)
  IN Has(json, {"elements"}) /\ All(ElementParses, json.elements)

readablesOfJson(json) ==
  LET IsReadable(element) == element.element_type = "readable" IN
  Each(ReadableOfJson, SelectSeq(json.elements, IsReadable))

RECURSIVE GroupOfJson(_)
subgroupsOfJson(json) ==
  LET IsGroup(element) == element.element_type = "group" IN
  Each(GroupOfJson, SelectSeq(json.elements, IsGroup))

GroupOfJson(json) ==
  [name |-> json.name, readables |-> readablesOfJson(json),
   subgroups |-> subgroupsOfJson(json)]

-----------------------------------------------------------------------------

DeviceParses(json) ==
  /\ Has(json, {"holding_registers", "input_registers", "id", "name", "slave_id",
                "burst_size"})
  /\ All(RangeParses, json.holding_registers) /\ All(RangeParses, json.input_registers)
  /\ ElementsParse(json)

\* The constructor of RegisterSet makes intervals of the ranges
RegisterSetOfJson(json) ==
  IntervalsOfRanges(ToSet(Each(RegisterRangeOfJson, json)))

DeviceOfJson(json) ==
  [id |-> json.id, name |-> json.name, slave_id |-> ToInt(json.slave_id),
   readables |-> readablesOfJson(json), subgroups |-> subgroupsOfJson(json),
   burst_size |-> ToSize(json.burst_size),
   max_retries |-> ToSize(readWithDefault(json, "max_retries", 3)),
   retry_delay |-> ToSize(readWithDefault(json, "retry_delay", 0)),
   holding_registers |-> RegisterSetOfJson(json.holding_registers),
   input_registers |-> RegisterSetOfJson(json.input_registers)]

BusParses(json) ==
  /\ Has(json, {"devices", "possible_serial_ports", "baud", "parity", "data_bits",
                "stop_bits"})
  /\ All(DeviceParses, json.devices) /\ ParityParses(json.parity)

\* The names of the devices; a bus without devices is called "-"
busId(some_devices) ==
  IF some_devices = <<>> THEN <<"-">>
  ELSE [i \in DOMAIN some_devices |-> some_devices[i].id]

BusOfJson(json) ==
  LET delay(field) == ToSize(readWithDefault(json, field, 0))
      some_devices == Each(DeviceOfJson, json.devices)
  IN
  [possible_serial_ports |-> json.possible_serial_ports,
   baud |-> ToInt(json.baud), parity |-> json.parity,
   data_bits |-> ToInt(json.data_bits), stop_bits |-> ToInt(json.stop_bits),
   rts_delay |-> ToInt(delay("rts_delay")),
   inter_use_delay_when_searching |-> delay("inter_use_delay_when_searching"),
   inter_use_delay_when_running |-> delay("inter_use_delay_when_running"),
   inter_device_delay_when_searching |-> delay("inter_device_delay_when_searching"),
   inter_device_delay_when_running |-> delay("inter_device_delay_when_running"),
   devices |-> some_devices, id |-> busId(some_devices)]

BusesOfJson(json) == Each(BusOfJson, json)

-----------------------------------------------------------------------------
(* The types of the configuration                                          *)

IsReadable(readable) ==
  /\ readable.registers \in Seq(Ints)
  /\ readable.decode.type \in {"linear", "float", "mantissa/exponent"}

RECURSIVE IsGroup(_)
IsGroup(group) == All(IsReadable, group.readables) /\ All(IsGroup, group.subgroups)

IsDevice(device) ==
  /\ IsGroup(device)
  /\ device.slave_id \in Ints
  /\ {device.burst_size, device.max_retries, device.retry_delay} \subseteq Sizes
  /\ IsRegisterSet(device.holding_registers) /\ IsRegisterSet(device.input_registers)

IsBus(bus) ==
  /\ {bus.baud, bus.data_bits, bus.stop_bits, bus.rts_delay} \subseteq Ints
  /\ bus.parity \in {"Even", "Odd", "None"}
  /\ {bus.inter_use_delay_when_searching, bus.inter_use_delay_when_running,
      bus.inter_device_delay_when_searching, bus.inter_device_delay_when_running}
       \subseteq Sizes
  /\ All(IsDevice, bus.devices)

=============================================================================
