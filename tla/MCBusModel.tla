----------------------------- MODULE MCBusModel -----------------------------
(* Configurations for BusModel: sets of ranges that overlap, are nested,     *)
(* adjacent or separate, with tasks and burst sizes for which planning is    *)
(* difficult; all decoders with up to four registers; and devices with       *)
(* nested groups, unreadable metrics and fields that are missing.            *)
EXTENDS BusModel

Span(begin, end) == [begin |-> begin, end |-> end]

Metric(name, registers, decoder) ==
  [element_type |-> "readable", name |-> name, registers |-> registers,
   decoder |-> decoder]

Branch(name, elements) ==
  [element_type |-> "group", name |-> name, elements |-> elements]

Slave(id, holding_ranges, input_ranges, size, elements) ==
  [id |-> id, name |-> id, slave_id |-> 1, burst_size |-> size,
   holding_registers |-> holding_ranges, input_registers |-> input_ranges,
   elements |-> elements]

OneBus(devices) ==
  [devices |-> devices, possible_serial_ports |-> <<"p">>, baud |-> 6,
   parity |-> "Even", data_bits |-> 7, stop_bits |-> 1, rts_delay |-> -1]

Linear == [type |-> "linear"]

-----------------------------------------------------------------------------

Spans == {r \in (1 .. 5) \X (1 .. 5) : r[1] <= r[2]}

HoldingRanges ==
  {<<Span(r[1], r[2]), Span(o[1], o[2])>> :
     <<r, o>> \in {two \in Spans \X Spans : two[1][1] <= two[2][1]}}
    \cup {<<>>, <<Span(1, 1), Span(3, 3), Span(5, 5)>>}

InputRanges ==
  {<<>>, <<Span(1, 5)>>, <<Span(1, 2), Span(4, 4)>>}

Tasks == {<<>>, <<5, 1>>, <<1, 3, 5>>, <<2, 3, 5, 1>>}

\* A burst size of -1 is a large one
Plans == {<<OneBus(<<Slave("d", h, i, size, <<Metric("r", registers, Linear)>>)>>)>> :
            h \in HoldingRanges, i \in InputRanges, registers \in Tasks,
            size \in {0, 2, 3, -1}}

JsonDecoders ==
  {Linear, [type |-> "linear", signed |-> TRUE, factor |-> 3, offset |-> -1],
   [type |-> "float"], [type |-> "mantissa/exponent", base |-> 10],
   [type |-> "mantissa/exponent", base |-> 10, signed |-> TRUE]}

Decodings ==
  {<<OneBus(<<Slave("d", <<Span(1, 5)>>, <<>>, 2, <<Metric("r", registers, decoder)>>)>>)>> :
     registers \in Tasks \cup {<<4>>, <<2, 2>>, <<3, 4>>, <<5, 4, 3>>, <<1, 2, 3, 4>>},
     decoder \in JsonDecoders}

Nested ==
  <<Metric("a", <<1>>, Linear),
    Branch("g", <<Branch("h", <<Metric("b", <<2>>, Linear)>>),
                 Metric("c", <<1, 2>>, Linear)>>),
    Branch("k", <<>>),
    Metric("d", <<2, 1>>, Linear)>>

Simple(id, elements) == Slave(id, <<Span(1, 1)>>, <<Span(2, 2)>>, 1, elements)

Trees ==
  {<<OneBus(<<Simple("x", Nested), Simple("y", <<Metric("a", <<1>>, Linear)>>)>>), OneBus(<<>>)>>,
   <<OneBus(<<Simple("x", Nested), Simple("y", <<Metric("a", <<3>>, Linear)>>)>>)>>,
   <<OneBus(<<Simple("x", Nested)>>), OneBus(<<Simple("y", <<[element_type |-> "event"]>>)>>)>>,
   <<OneBus(<<[id |-> "x", name |-> "x"]>>)>>,
   <<[OneBus(<<>>) EXCEPT !.parity = "odd"]>>}

\* Negative and positive values, and different ones
MCMemories ==
  {[r \in 0 .. 6 |-> r % 4], [r \in 0 .. 6 |-> 3 - (r % 3)], [r \in 0 .. 6 |-> (r * r) % 4]}

MCJsonConfigs == Plans \cup Decodings \cup Trees

=============================================================================
