------------------------------- MODULE MCMidi -------------------------------
(***************************************************************************)
(* Instances of Midi for TLC: scenarios of two senders, or of a sender and *)
(* a peer whose messages are forwarded.                                    *)
(***************************************************************************)
EXTENDS Midi, TLC

CONSTANTS d1, d2, s1, s2, r

Note == Message(<<"note_on", d1, d2>>)
Clock == Message(<<"clock">>)
Program == Message(<<"program_change", d1>>)
LongSysEx == SysEx7Packets(<<d1, d2, d2>>)
FullSysEx == SysEx7Packets(<<d1, d2>>)

\* On a serial line every byte comes alone.
Each(bytes) == [i \in DOMAIN bytes |-> <<bytes[i]>>]

Scenario(transport, one, two, units, packets) ==
  [link |-> transport, loopback |-> FALSE, outgoing |-> s1 :> one @@ s2 :> two,
   units |-> units, packets |-> packets, sinks |-> {}, faults |-> 0, deinits |-> 0]

\* Two senders, a failing transmitter and deinit() in the middle.
Sending ==
  {[Scenario(transport, <<Note>>, message, <<>>, <<>>) EXCEPT !.faults = 1, !.deinits = 1] :
     transport \in {"serial", "ble"}, message \in {<<Clock>>, <<Program>>, LongSysEx, FullSysEx}}

\* Running status; a SysEx longer than a packet; a real-time message inside a
\* SysEx and a message inside another, either of which is lost.
SerialArrivals ==
  {Scenario("serial", <<>>, <<>>, Each(<<"note_on", d1, d2, d2, d1>>),
            <<Note, Message(<<"note_on", d2, d1>>)>>),
   Scenario("serial", <<>>, <<>>, Each(<<"sysex", d1, d2, d2, "sysex_end">>), LongSysEx),
   Scenario("serial", <<>>, <<>>, Each(<<"sysex", d1, "clock", d2, "sysex_end">>), <<Clock>>),
   Scenario("serial", <<>>, <<>>, Each(<<"note_on", d1, "song_select", d2>>),
            <<Message(<<"song_select", d2>>)>>)}

\* Two messages in a packet, each with its timestamp, the second one going on
\* in the next packet with running status; a SysEx continued without one.
BleArrivals ==
  {Scenario("ble", <<>>, <<>>,
            << <<"timestamp", "timestamp", "clock", "timestamp", "program_change">>,
               <<"timestamp", "timestamp", d1, "timestamp", d2>> >>,
            <<Clock, Program, Message(<<"program_change", d2>>)>>),
   Scenario("ble", <<>>, <<>>,
            << <<"timestamp", "timestamp", "sysex", d1, d2>>, <<"timestamp", d2, "sysex_end">> >>,
            LongSysEx)}

\* What arrives is forwarded, with the interface closed and opened in between.
Arriving ==
  {[s EXCEPT !.sinks = sinks, !.deinits = 1] :
     s \in SerialArrivals \cup BleArrivals, sinks \in {{"own"}, {"own", "other"}}}

\* A message is forwarded while others are sent, and the interface closed and
\* opened on a serial line.
Forwarding ==
  {[Scenario(t.link, <<Note>>, t.second, t.units, <<Program>>) EXCEPT
      !.sinks = {"own"}, !.faults = 1, !.deinits = t.deinits] :
     t \in {[link |-> "serial", second |-> <<>>, deinits |-> 1,
             units |-> Each(<<"program_change", d1>>)],
            [link |-> "ble", second |-> LongSysEx, deinits |-> 0,
             units |-> << <<"timestamp", "timestamp", "program_change", d1>> >>]}}

\* Bytes are echoed while others are sent.
Echoing ==
  {[Scenario("serial", one, <<Clock>>, Each(<<"clock", "clock">>), <<Clock, Clock>>) EXCEPT
      !.loopback = TRUE, !.faults = 1, !.deinits = 1] : one \in {<<Note>>, <<Program>>}}

SmallScenarios == Sending \cup Arriving \cup Forwarding \cup Echoing
=============================================================================
