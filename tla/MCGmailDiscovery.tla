-------------------------- MODULE MCGmailDiscovery --------------------------
(***************************************************************************)
(* Instances of GmailDiscovery for TLC.  The messages are interchangeable. *)
(***************************************************************************)
EXTENDS GmailDiscovery, TLC

MCWords == <<"", "alice", "draft", "id", "invoice", "sent">>

\* Mail of an earlier second, of the second of the boundary but older than it,
\* and later: sent, a draft, and one of another subject.
MCMails ==
  [time : {0, 2, 3}, fits : {TRUE}, location : {"sent"}] \cup
  {[time |-> 3, fits |-> TRUE, location |-> "draft"],
   [time |-> 3, fits |-> FALSE, location |-> "sent"]}

\* Every operator on the whole state (the blank path), a string, a null, a list,
\* an index and a path that is not there, with operands of each type, the empty
\* ones among them.
MCConditions ==
  [op       : Operators,
   path     : {<<>>, <<"location">>, <<"subject">>, <<"to">>, <<"to", "0">>, <<"labels">>},
   expected : {None, Str(""), Str("sent"), Str("alice"), List(<<Str("alice")>>), List(<<>>),
               Map([id |-> None])}]

MessageSymmetry == Permutations(Messages)
=============================================================================
