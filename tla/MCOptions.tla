----------------------------- MODULE MCOptions ------------------------------
(* Options with words of every form: clusters of flags, with a value at the  *)
(* end or in the middle, with a letter nobody knows; long options of both    *)
(* kinds, with and without a value, unknown ones; values that look like      *)
(* options, and options where a value is expected.                           *)
EXTENDS Options

MCWord ==
  {Plain("7"), EndMark,
   Cluster(<<"f">>), Cluster(<<"f", "a">>), Cluster(<<"i">>), Cluster(<<"f", "i">>),
   Cluster(<<"i", "a">>), Cluster(<<"a", "z">>), Cluster(<<"v">>),
   Long("aggregate", NoText), Long("aggregate", Plain("7")),
   Long("min-depth", NoText), Long("min-depth", Plain("8")), Long("thread-only", NoText)}
=============================================================================
