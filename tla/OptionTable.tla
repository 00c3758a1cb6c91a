---------------------------- MODULE OptionTable ----------------------------
(***************************************************************************)
(* What options.c and init.c promise: a table of values, one row for the   *)
(* global options and one for each session.  A row starts as a copy of the *)
(* global one; a call changes what it names and nothing else.              *)
(***************************************************************************)
EXTENDS Integers, SequencesExt

CONSTANTS Sessions, Inputs, Hosts, Null, Bad

VARIABLES
    conf,      \* the files and the environment, as in Options
    table,     \* the rows
    ret        \* what the last call was about, and returned: [of, option, rc, value]

vars   == <<conf, table, ret>>
Global == "global"
Rows   == DOMAIN table
Returned(o, opt, rc, v) == ret' = [of |-> o, option |-> opt, rc |-> rc, value |-> v]
Said(o, opt, rc) == Returned(o, opt, rc, Null)

-----------------------------------------------------------------------------
(* What is configured, in the order in which it counts: what is beyond the *)
(* 127th character of a line is a line of its own.  The last setting of    *)
(* its kind counts; a list of hosts is read with the port set before it.   *)
Settings ==
    LET read(f) == SelectSeq(FlattenSeq([i \in DOMAIN f.lines |-> <<f.lines[i]>> \o f.lines[i].rest]),
                             LAMBDA l : f.user \/ l.key \notin {"BINDDN"})
    IN  IF conf.noinit THEN <<>> ELSE FlattenSeq([i \in DOMAIN conf.files |-> read(conf.files[i])]) \o conf.env

Latest(P(_), default) ==
    LET is == {i \in 1..Len(Settings) : P(Settings[i])}
    IN  IF is = {} THEN default ELSE Settings[Max(is)].arg

Of(key, default) == Latest(LAMBDA s : s.key = key, default)
True(key, default) == Of(key, default) \in {"on", "yes", "true"}
Derefs == [never |-> 0, searching |-> 1, finding |-> 2, always |-> 3]

PortBefore(i) ==
    LET is == {j \in 1..i : Settings[j].key = "PORT"}
    IN  IF is = {} \/ Settings[Max(is)].arg = 0 THEN 389 ELSE Settings[Max(is)].arg
WithPort(list, p) == [k \in DOMAIN list |-> IF list[k].port = 0 THEN [list[k] EXCEPT !.port = p] ELSE list[k]]

Servers ==
    LET is == {i \in 1..Len(Settings) : Settings[i].key \in {"HOST", "URI"} /\ Settings[i].arg \notin {Bad, Null}}
        i  == Max(is)
    IN  IF is = {} THEN <<[host |-> "localhost", port |-> 389]>>
        ELSE IF Settings[i].arg = <<>> THEN Null
        ELSE WithPort(Settings[i].arg, IF Settings[i].key = "HOST" THEN PortBefore(i) ELSE 389)

Configured ==
    [ debug |-> 0, version |-> 2, timelimit |-> Of("TIMELIMIT", 0), sizelimit |-> Of("SIZELIMIT", 0),
      deref |-> Derefs[Latest(LAMBDA s : s.key = "DEREF" /\ s.arg \in DOMAIN Derefs, "never")],
      tm_api |-> Null, tm_net |-> Null, defludp |-> Servers, defport |-> Of("PORT", 389),
      defbase |-> Of("BASE", Null), defbinddn |-> Of("BINDDN", Null), rebindproc |-> Null,
      referrals |-> True("REFERRALS", "on"), restart |-> True("RESTART", "off"),
      sctrls |-> Null, cctrls |-> Null, errno |-> 0, error |-> Null, matched |-> Null ]

-----------------------------------------------------------------------------
(* what an option is called in a row *)
Name(opt) ==
    CASE opt = "host_name" \/ opt = "uri" -> "defludp" [] opt = "timeout" -> "tm_api"
      [] opt = "network_timeout" -> "tm_net" [] opt = "server_controls" -> "sctrls"
      [] opt = "client_controls" -> "cctrls" [] opt = "error_number" -> "errno"
      [] opt = "error_string" -> "error" [] opt = "matched_dn" -> "matched"
      [] opt = "protocol_version" -> "version" [] opt = "debug_level" -> "debug"
      [] opt = "rebind_proc" -> "rebindproc" [] OTHER -> opt

Session == {"error_number", "error_string", "matched_dn"}
Clears  == {"timeout", "network_timeout", "server_controls", "client_controls", "rebind_proc"}

(* what a successful call leaves in the row *)
Meant(o, opt, v) ==
    CASE opt \in {"referrals", "restart"} -> v # Null
      [] opt \in {"server_controls", "client_controls"} -> IF v = <<>> THEN Null ELSE v
      [] opt \in {"host_name", "uri"} ->
            IF v = <<>> THEN Null
            ELSE WithPort(v, IF opt = "uri" \/ table[o].defport = 0 THEN 389 ELSE table[o].defport)
      [] OTHER -> v

Constants == {"api_info", "desc", "api_feature_info"}

Legal(o, opt, v) ==
    /\ opt \notin Constants
    /\ v = Null => opt \in Clears \cup {"referrals", "restart"}
    /\ opt \in Session => o # Global
    /\ opt = "protocol_version" => v \in {2, 3}
    /\ opt \in {"host_name", "uri"} => v # Bad

Sets(o, opt, v) ==
    IF Legal(o, opt, v) THEN Said(o, opt, "success") /\ table' = [table EXCEPT ![o][Name(opt)] = Meant(o, opt, v)]
                        ELSE Said(o, opt, "error") /\ UNCHANGED table

Gets(o, opt) ==
    /\ opt \notin Constants
    /\ IF o = Global /\ opt \in Session THEN Returned(o, opt, "error", Null)
                                        ELSE Returned(o, opt, "success", table[o][Name(opt)])
    /\ UNCHANGED table

(* A session is given hosts with the port it is opened with, or URLs. *)
Opens(ld, h) ==
    LET port == IF h.how = "init" /\ h.port # 0 THEN h.port ELSE table[Global].defport
        own  == h.how # "create" /\ h.text # Null
        list == IF ~own THEN table[Global].defludp
                ELSE IF h.text = <<>> THEN Null
                ELSE WithPort(h.text, IF h.how = "init" /\ port # 0 THEN port ELSE 389)
        row  == [table[Global] EXCEPT !.sctrls = Null, !.cctrls = Null, !.defludp = list, !.defport = port]
    IN  IF table[Global].defludp = Null \/ (own /\ h.text = Bad)
        THEN Said(ld, "create", "error") /\ UNCHANGED table
        ELSE Said(ld, "create", "success") /\ table' = [o \in {ld} \cup Rows |-> IF o = ld THEN row ELSE table[o]]

Closes(ld) == Said(ld, "unbind", "success") /\ table' = [o \in Rows \ {ld} |-> table[o]]

Init == table = [o \in {Global} |-> Configured] /\ ret = [of |-> Global, option |-> "none", rc |-> "success", value |-> Null]

Next ==
    /\ \/ \E o \in Rows, i \in Inputs : Sets(o, i.option, i.value) \/ Gets(o, i.option)
       \/ \E ld \in Sessions \ Rows, h \in Hosts : Opens(ld, h)
       \/ \E ld \in Rows \cap Sessions : Closes(ld)
    /\ UNCHANGED conf

Spec == Init /\ [][Next]_vars
=============================================================================
