----------------------------- MODULE MCRedisLoad -----------------------------
(* Small files, well-formed and not, and a server with rows from before.    *)
EXTENDS RedisLoad, TLC

CONSTANTS a, b, c

MCNames == {a, b, c, Empty}

MCFiles == {
  <<>>,
  << <<a, b>> >>,
  << <<a>>, <<1>>, <<Empty>>, <<3>>, <<4>> >>,
  << <<a, b>>, <<1, Word>>, <<2, 5>>, <<Word, 3>> >>,
  << <<a, b>>, <<1, 2>>, <<Empty, 7>> >>,
  << <<a, b>>, <<1>>, <<2, 3>> >>,
  << <<a, b, c>>, <<1, 2, 3>>, <<4, 5, 6>> >>,
  << <<a, a>>, <<1, 2>> >> }

MCLeftovers ==
  { [schema |-> <<>>, rows |-> <<>>],
    [schema |-> (a :> TRUE) @@ (b :> TRUE) @@ (c :> FALSE),
     rows |-> [r \in 1 .. 4 |-> (a :> 8) @@ (b :> 9) @@ (c :> Word)]] }
=============================================================================
