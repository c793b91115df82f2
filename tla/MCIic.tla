------------------------------- MODULE MCIic -------------------------------
EXTENDS Iic

Tools(names, sizes, faults) ==
  {[tool |-> t, reg |-> 1, n |-> n, faults |-> faults] : t \in names, n \in sizes}
MCJobs ==
  Tools({"read"}, 1..3, {"busy"})
  \cup Tools({"write", "dynWrite", "dynRead"}, {2}, {"busy"})
  \cup Tools({"write"}, {2}, {"nack"})
  \cup Tools({"held"}, 1..3, {})

S(n, rep) == [op |-> "send", n |-> n, rep |-> rep, dyn |-> FALSE]
R(n, rep) == [op |-> "recv", n |-> n, rep |-> rep, dyn |-> FALSE]
DS(n) == [op |-> "send", n |-> n, rep |-> FALSE, dyn |-> TRUE]
DR(n) == [op |-> "recv", n |-> n, rep |-> FALSE, dyn |-> TRUE]
DI == [op |-> "dynInit", n |-> 0, rep |-> FALSE, dyn |-> TRUE]
Begin == [op |-> "start", n |-> 0, rep |-> FALSE, dyn |-> FALSE]
End == [op |-> "stop", n |-> 0, rep |-> FALSE, dyn |-> FALSE]
Prog(ops, faults) == [ops |-> <<Begin>> \o ops \o <<End>>, faults |-> faults]

MCPrograms ==
  {Prog(<<S(n, FALSE)>>, {"nack", "rival"}) : n \in 1..5}
  \cup {Prog(<<R(n, FALSE)>>, {"nack", "rival"}) : n \in 1..6}
  \cup {Prog(<<S(n, FALSE), R(m, FALSE)>>, {"rival"}) : n \in {1, 3}, m \in {1, 2, 4}}
  \cup {Prog(<<S(n, TRUE), R(m, FALSE)>>, {}) : n \in {1, 2, 4}, m \in 1..3}
  \cup {Prog(<<DS(n)>>, {"nack"}) : n \in 1..5}
  \cup {Prog(<<DS(n), DR(m)>>, {"busy"}) : n \in {1, 2}, m \in 1..6}
  \cup {Prog(<<DI, DS(n), DR(m)>>, {"busy"}) : n \in {1, 3}, m \in {1, 5}}
  \cup {[ops |-> <<DI>> \o Prog(<<DR(m)>>, {}).ops, faults |-> {"busy"}] : m \in {2, 4}}
  \cup {Prog(<<>>, {"rival", "asSlave"})}
=============================================================================
