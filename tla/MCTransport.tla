---------------------------- MODULE MCTransport ----------------------------
(* Transport for TLC.  Servers: two addresses, a local path, a path that   *)
(* is too long, TLS.  Replies: a short element, one with a long length of  *)
(* two octets, one with a long tag, one that is refused.                   *)
EXTENDS Transport

tcp  == [proto |-> "tcp", addrs |-> 2, long |-> FALSE, tls |-> FALSE]
path == [proto |-> "ipc", addrs |-> 1, long |-> TRUE,  tls |-> FALSE]
ipc  == [proto |-> "ipc", addrs |-> 1, long |-> FALSE, tls |-> FALSE]
tls  == [proto |-> "tcp", addrs |-> 1, long |-> FALSE, tls |-> TRUE]

MCOneServer == [urls : {<<tls>>}, getaddrinfo : {FALSE}, os2 : BOOLEAN, ldsb : {TRUE}]
MCSetups == MCOneServer \cup
    { [urls |-> <<tcp, path, tls, tls>>, getaddrinfo |-> TRUE,  os2 |-> FALSE, ldsb |-> TRUE],
      [urls |-> <<ipc, tls, tcp>>,       getaddrinfo |-> FALSE, os2 |-> TRUE,  ldsb |-> FALSE] }

MCRequests == {<<48, 1, 9>>}
MCReplies ==
    { [tag |-> <<48>>,         len |-> <<1>>,         body |-> <<7>>],
      [tag |-> <<48>>,         len |-> <<130, 0, 2>>, body |-> <<48, 1>>],
      [tag |-> <<63, 129, 1>>, len |-> <<1>>,         body |-> <<8>>],
      [tag |-> <<48>>,         len |-> <<0>>,         body |-> <<>>] }

(* a second request where the first one may be given up *)
MCMaxRequests == [block \in BOOLEAN |-> IF block THEN 1 ELSE 2]

MCModes       == {m \in [block : BOOLEAN, secure : BOOLEAN] : m.secure => m.block}
=============================================================================
