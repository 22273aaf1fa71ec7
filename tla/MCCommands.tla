------------------------------ MODULE MCCommands ------------------------------
(* Command formats and client calls on small sets of data: a number with more  *)
(* after it and one that does not fit in 64 bits, data that are no text, names *)
(* and options in capitals, expirations below a millisecond and beyond 64 bits.*)
EXTENDS Commands

MCHeads ==
  {Bulk("get"), Bulk("SET"), Bulk("publish"), Bulk("ping"), Bulk("subscribe"),
   Bulk("unsubscribe"), Simple("other"), Null}

MCTails ==
  {Bulk("key"), Simple("EX"), Bulk("px"), Bulk("7x"), Bulk("99"), Bulk("blob"), Integer(3)}

MCCapitals == [SET |-> "set", EX |-> "ex"]

MCNumerals == [t \in {"7x", "99"} |-> IF t = "7x" THEN 7 ELSE 99]
===============================================================================
