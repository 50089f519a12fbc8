---------------------------- MODULE MCSysExConf ----------------------------
(***************************************************************************)
(* Instances of SysExConf for TLC: two values to a part.                   *)
(***************************************************************************)
EXTENDS SysExConf

\* A section of two parts with a range, one without a range, an empty one.
SmallLayout ==
  << << [count |-> 3, min |-> 0, max |-> 1], [count |-> 1, min |-> 0, max |-> 0],
        [count |-> 0, min |-> 0, max |-> 1] >> >>

Asks(part, wish, amount, section, tail) ==
  <<OwnId, Status.Request, part, wish, amount, 0, section>> \o tail

\* Reads of a part, of all parts and of a part that is not there.
ReadRequests ==
  {Asks(part, wish, amount, section, <<0, 0>>) :
     part \in {0, 1, PART_ALL_MESSAGES, PART_ALL_MESSAGES_WITH_ACK},
     wish \in {Wish.Get, Wish.Backup}, amount \in {Amount.Single, Amount.All},
     section \in {0, 2}}

\* Writes of one value, of a part and of the last part, values 2 out of range.
WriteRequests ==
  {Asks(0, Wish.Set, Amount.Single, 0, tail) : tail \in {<<0, 1>>, <<2, 2>>, <<3, 1>>}} \cup
  {Asks(part, Wish.Set, Amount.All, 0, tail) :
     part \in {0, 1, PART_ALL_MESSAGES},
     tail \in {<<0, 1>>, <<1, 2>>, <<1>>, <<0>>}} \cup
  {Asks(0, Wish.Set, Amount.All, 1, <<1>>)}

\* Requests refused for a field, and messages without an answer.
WrongRequests ==
  {Asks(0, 3, 0, 0, <<0, 0>>), Asks(0, Wish.Get, 2, 0, <<0, 0>>),
   Asks(0, Wish.Get, 0, 3, <<0, 0>>), Asks(0, Wish.Get, 0, 0, <<>>),
   <<OwnId, Status.Request, 0, Wish.Get, 0, 1, 0, 0, 0>>,
   <<OwnId, Status.Ack, 0, Wish.Get, 0, 0, 0, 0, 0>>,
   <<OwnId + 1, Status.Request, 0, Wish.Get, 0, 0, 0, 0, 0>>,
   <<OwnId>>, Asks(0, Wish.Set, Amount.All, 0, <<1, 1, 1, 1, 1>>)}

SpecialRequests == {<<OwnId, Status.Request, 0, id>> : id \in 0 .. 5}

SmallRequests == ReadRequests \cup WriteRequests \cup WrongRequests \cup SpecialRequests

\* One custom request that needs no connection; a table that takes ConnOpen.
SmallTables == {{[id |-> 4, open |-> FALSE]}, {[id |-> 1, open |-> FALSE]}}

\* Nothing, and what the fields of a SET look like.
SmallCustomValues == {<<>>, <<Wish.Set, Amount.Single, 0, 0>>}

\* A handler that answers, one that answers too much, and a wrong status.
SmallOutcomes ==
  {[result |-> Status.Ack, values |-> <<1, 1, 1, 1, 1, 1, 1, 1>>],
   [result |-> Status.Request, values |-> <<1>>]}
=============================================================================
