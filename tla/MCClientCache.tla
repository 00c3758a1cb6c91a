--------------------------- MODULE MCClientCache ---------------------------
(* ClientCache for TLC: a search and a compare that share a bucket. *)
EXTENDS ClientCache

MCRequests ==
    { [type |-> "search",  dn |-> "d1", len |-> 2, body |-> "b1"],
      [type |-> "compare", dn |-> "d2", len |-> 2, body |-> "b2"] }
============================================================================
