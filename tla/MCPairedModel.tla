---------------------------- MODULE MCPairedModel ----------------------------
(* Every order, repetition and conflict of the events of a package's life.  *)
EXTENDS PairedModel, TLC

IdSymmetry == Permutations(Ids)

Report(type, lots, terminal) ==
  [type |-> type, buy |-> lots, sell |-> lots, terminal |-> terminal]

LifecycleEvents ==
  { [type |-> "prepare", target |-> 2, reserve |-> 8, budget |-> 8, clear |-> TRUE],
    [type |-> "request_close"], [type |-> "timeout"],
    Report("open_report", 2, TRUE), [Report("open_report", 2, FALSE) EXCEPT !.buy = 1],
    Report("close_report", 2, TRUE) }
=============================================================================
