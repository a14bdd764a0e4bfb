----------------------------- MODULE MCMbEnzian -----------------------------
(* Every choice of tests, and every stress mode, on few or all of the 48   *)
(* cores, and on cores that are not there or in the wrong order.           *)
EXTENDS MbEnzian

Cores == {<<0, 0>>, <<0, 2>>, <<1, 47>>, <<1, 0>>, <<3, 0>>, <<46, 48>>, <<48, 48>>}

Command(s, m, c, k) ==
  [selected |-> s, stress |-> m, cpuMemory |-> c, first |-> k[1], last |-> k[2]]

MCOptions ==
  {Command(s, "none", c, k) : c \in BOOLEAN, k \in Cores,
     s \in SUBSET {"overall", "throughput", "c2c", "latency", "seq"}}
  \union
  {Command(s, m, FALSE, k) : m \in {"w", "c", "r", "l"}, k \in Cores,
     s \in {{}, {"overall", "seq"}}}
=============================================================================
