----------------------------- MODULE MCOptions -----------------------------
(* Options for TLC.  Configurations: none; a long line, a long comment, a  *)
(* setting for users only in a file of the system, a port after a list of  *)
(* hosts; an environment that overrides; an empty list.                    *)
EXTENDS Options

CONSTANTS ld1, ld2

L(key, arg)  == [key |-> key, arg |-> arg, rest |-> <<>>]
Long(l, key, arg) == [l EXCEPT !.rest = <<L(key, arg)>>]
host(h, p)   == [host |-> h, port |-> p]

MCConfs ==
    LET system == <<L("PORT", 1389), L("HOST", <<host("a", 0)>>), L("BINDDN", "cn"), L("PORT", 636),
                    Long(L("#", Null), "SIZELIMIT", 7), Long(L("BASE", "dc"), "REFERRALS", "maybe")>>
        user   == <<L("BINDDN", "me"), L("DEREF", "always"), L("DEREF", "up"), L("HOST", Bad)>>
    IN  { [noinit |-> TRUE,  files |-> <<>>, env |-> <<>>],
          [noinit |-> FALSE, files |-> <<[user |-> FALSE, lines |-> system], [user |-> TRUE, lines |-> user]>>,
           env |-> <<>>],
          [noinit |-> FALSE, files |-> <<[user |-> FALSE, lines |-> system]>>,
           env |-> <<[key |-> "SIZELIMIT", arg |-> 3], [key |-> "HOST", arg |-> <<>>],
                     [key |-> "RESTART", arg |-> "on"]>>] }

MCInputs ==
    { [option |-> "host_name", value |-> v] : v \in {<<host("b", 0), host("c", 99)>>, <<>>, Bad, Null} }
    \cup { [option |-> "uri", value |-> v] : v \in {<<host("d", 0)>>, Bad} }
    \cup { [option |-> "server_controls", value |-> v] : v \in {<<"c">>, <<>>} }
    \cup { [option |-> "timeout", value |-> v] : v \in {5, Null} }
    \cup { [option |-> "error_string", value |-> "e"], [option |-> "sizelimit", value |-> 9],
           [option |-> "protocol_version", value |-> 3], [option |-> "protocol_version", value |-> 4],
           [option |-> "referrals", value |-> Null], [option |-> "desc", value |-> 1] }

MCHosts ==
    { [how |-> "create", port |-> 0, text |-> Null], [how |-> "init", port |-> 400, text |-> <<host("e", 0)>>],
      [how |-> "init", port |-> 0, text |-> Bad], [how |-> "initialize", port |-> 0, text |-> <<>>] }

MCSessions == {ld1, ld2}
Symmetry   == Permutations(MCSessions)
=============================================================================
