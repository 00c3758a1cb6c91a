------------------------------ MODULE Options ------------------------------
(***************************************************************************)
(* The options of the library and of its sessions (options.c, init.c, the  *)
(* creation and the end of a session in open.c and unbind.c).  There is a  *)
(* global structure, filled from configuration files and the environment   *)
(* by whichever call needs it first, and one structure for each session,   *)
(* copied from it.  Some fields hold their value, some point to a block    *)
(* that was allocated for it; a block that was freed is given out again.   *)
(***************************************************************************)
EXTENDS Integers, FiniteSets, SequencesExt

CONSTANTS
    Sessions,    \* the sessions an application may have
    Confs,       \* what may be configured: [noinit, files, env]
    Inputs,      \* what the application sets: [option, value]
    Hosts,       \* the hosts and URLs it opens sessions for, with a port
    GlobalTimeouts, \* whether it sets the timeouts of the global options
    MaxCalls,    \* bound: calls of the application
    Null,        \* a null pointer as the value of an option
    Bad          \* a list of hosts or URLs that does not parse

(* A file is [user, lines], a line [key, arg, rest]: rest is what follows  *)
(* the first 127 characters of the line, as a line of its own, if any.     *)
(* env is [key, arg] in the order of the table attrs.                      *)
VARIABLES
    conf,        \* the files and the environment
    valid,       \* ldo_valid of the global options
    opts,        \* the option structures: of Global, and of each open session
    heap,        \* the allocated blocks: what they hold
    undefined,   \* whether a freed block was used
    ret,         \* what the last call was about, and returned: [of, option, rc, value]
    lost,        \* history: blocks nobody will free
    calls        \* history: the number of calls

vars == <<conf, valid, opts, heap, undefined, ret, lost, calls>>

Global == "global"
Open   == DOMAIN opts \ {Global}

(* Pointers to allocated blocks: 0 is NULL *)
Timeouts == {"tm_api", "tm_net"}
Controls == {"sctrls", "cctrls"}
Owned    == Timeouts \cup Controls \cup {"defludp", "error", "matched"}

(* The field of an option, by what ldap_set_option does with its value:    *)
(* options of a session only, on or off, in a block, a plain value.        *)
SessionOnly == {"error_number", "error_string", "matched_dn"}
Booleans == [referrals |-> "referrals", restart |-> "restart"]
Blocks   == [server_controls |-> "sctrls", client_controls |-> "cctrls", timeout |-> "tm_api",
             network_timeout |-> "tm_net", error_string |-> "error", matched_dn |-> "matched"]
Plain    == [deref |-> "deref", sizelimit |-> "sizelimit", timelimit |-> "timelimit",
             protocol_version |-> "version", error_number |-> "errno", debug_level |-> "debug",
             rebind_proc |-> "rebindproc"]
Lists    == {"host_name", "uri"}
ReadOnly == {"api_info", "desc", "api_feature_info"}
Nullable == {"server_controls", "client_controls", "timeout", "network_timeout", "rebind_proc"}
Versions == 2..3
Known    == DOMAIN Booleans \cup DOMAIN Blocks \cup DOMAIN Plain \cup Lists \cup ReadOnly

-----------------------------------------------------------------------------
(* Memory.  A state of the structures is a record of opts, heap, undefined *)
(* and lost, which a call transforms step by step.                         *)
Now == [opts |-> opts, heap |-> heap, undefined |-> undefined, lost |-> lost]

With(f, x, v) == [y \in {x} \cup DOMAIN f |-> IF y = x THEN v ELSE f[y]]

FreeBlock(h) == CHOOSE b \in 1..Cardinality(DOMAIN h) + 1 : b \notin DOMAIN h

Release(st, b) ==
    IF b = 0 THEN st
    ELSE IF b \in DOMAIN st.heap THEN [st EXCEPT !.heap = Restrict(@, DOMAIN @ \ {b})]
    ELSE [st EXCEPT !.undefined = TRUE]

Store(st, o, f, v) ==
    LET b == FreeBlock(st.heap)
    IN  IF v = Null THEN [st EXCEPT !.opts[o][f] = 0]
        ELSE [st EXCEPT !.opts[o][f] = b, !.heap = With(@, b, v)]

Dangling(st, b) == b # 0 /\ b \notin DOMAIN st.heap
Value(st, b) == IF b \in DOMAIN st.heap THEN st.heap[b] ELSE Null

Replace(st, o, f, v) == Store(Release(st, st.opts[o][f]), o, f, v)

Leak(st, v) == LET b == FreeBlock(st.heap) IN [st EXCEPT !.heap = With(@, b, v), !.lost = @ \cup {b}]

-----------------------------------------------------------------------------
(* ldap_set_option for one option.  An empty array of controls is none.    *)
(* The list of hosts is parsed first, each without a port getting that of  *)
(* the structure; when that fails the old list stays.  What was parsed of  *)
(* a list of URLs is freed then, what was of a list of hosts is not.       *)
Resolved(text, port) == [i \in DOMAIN text |-> IF text[i].port = 0 THEN [text[i] EXCEPT !.port = port] ELSE text[i]]
DefaultPort == 389

Done(st)    == [rc |-> "success", st |-> st]
Refused(st) == [rc |-> "error", st |-> st]

SetList(st, o, opt, text, port) ==
    IF text = Bad THEN Refused(IF opt = "uri" THEN st ELSE Leak(st, Bad))
    ELSE Done(Replace(st, o, "defludp", IF text = <<>> THEN Null ELSE Resolved(text, port)))

PortOf(st, o, opt) ==
    IF opt = "uri" \/ st.opts[o].defport = 0 THEN DefaultPort ELSE st.opts[o].defport

Given(opt, v) == IF Blocks[opt] \in Controls /\ v = <<>> THEN Null ELSE v

Refuses(o, opt, v) ==
    \/ opt \in ReadOnly
    \/ v = Null /\ opt \notin Nullable \cup DOMAIN Booleans
    \/ o = Global /\ opt \in SessionOnly
    \/ opt = "protocol_version" /\ v \notin Versions

Set(st, o, opt, v) ==
    IF Refuses(o, opt, v) THEN Refused(st)
    ELSE CASE opt \in DOMAIN Booleans -> Done([st EXCEPT !.opts[o][Booleans[opt]] = v # Null])
           [] opt \in Lists           -> SetList(st, o, opt, v, PortOf(st, o, opt))
           [] opt \in DOMAIN Blocks   -> Done(Replace(st, o, Blocks[opt], Given(opt, v)))
           [] opt \in DOMAIN Plain    -> Done([st EXCEPT !.opts[o][Plain[opt]] = v])

-----------------------------------------------------------------------------
(* ldap_int_initialize: the defaults, the files of the system and the user *)
(* in their order, the environment.  A file is read in pieces of 127       *)
(* characters; a line that is longer is read as two, also when it is a     *)
(* comment.                                                                *)
UserOnly == {"BINDDN"}
Words    == [never |-> 0, searching |-> 1, finding |-> 2, always |-> 3]
Numbers  == [SIZELIMIT |-> "sizelimit", TIMELIMIT |-> "timelimit", PORT |-> "defport"]
Strings  == [BINDDN |-> "defbinddn", BASE |-> "defbase"]
Switches == [REFERRALS |-> "referrals", RESTART |-> "restart"]
Targets  == [HOST |-> "host_name", URI |-> "uri"]

Apply(st, key, arg) ==
    CASE key \in DOMAIN Switches -> [st EXCEPT !.opts[Global][Switches[key]] = arg \in {"on", "yes", "true"}]
      [] key \in DOMAIN Numbers  -> [st EXCEPT !.opts[Global][Numbers[key]] = arg]
      [] key \in DOMAIN Strings  -> [st EXCEPT !.opts[Global][Strings[key]] = arg]
      [] key \in DOMAIN Targets  -> Set(st, Global, Targets[key], arg).st
      [] key = "DEREF" /\ arg \in DOMAIN Words -> [st EXCEPT !.opts[Global].deref = Words[arg]]
      [] OTHER -> st

(* What the configuration c sets, in the order in which it is read.        *)
Pieces(lines) == FlattenSeq([i \in DOMAIN lines |-> <<lines[i]>> \o lines[i].rest])

(* Mutant: a file of the system sets what is for users only. *)
LinesMut(file) == Pieces(file.lines)

Lines(file) == SelectSeq(Pieces(file.lines), LAMBDA l : file.user \/ l.key \notin UserOnly)

Settings(c) ==
    IF c.noinit THEN <<>>
    ELSE FlattenSeq([i \in DOMAIN c.files |-> Lines(c.files[i])]) \o c.env

Read(st, settings) ==
    LET after[n \in 0..Len(settings)] ==
            IF n = 0 THEN st ELSE Apply(after[n - 1], settings[n].key, settings[n].arg)
    IN  after[Len(settings)]

Localhost == <<[host |-> "localhost", port |-> DefaultPort]>>
Defaults ==
    [ debug |-> 0, version |-> 2, deref |-> 0, timelimit |-> 0, sizelimit |-> 0,
      tm_api |-> 0, tm_net |-> 0, defludp |-> 0, defport |-> DefaultPort, defbase |-> Null,
      defbinddn |-> Null, rebindproc |-> Null, referrals |-> TRUE, restart |-> FALSE,
      sctrls |-> 0, cctrls |-> 0, errno |-> 0, error |-> 0, matched |-> 0 ]

Initialized(st) ==
    LET fresh == Store([st EXCEPT !.opts[Global] = Defaults], Global, "defludp", Localhost)
    IN  IF valid THEN st
        ELSE Read(fresh, Settings(conf))

(* The files end; an application sets options that there are.              *)
ASSUME OptionsAssumption ==
    /\ Global \notin Sessions /\ MaxCalls \in Nat /\ GlobalTimeouts \in BOOLEAN
    /\ \A c \in Confs : Len(Settings(c)) \in Nat
    /\ \A i \in Inputs : i.option \in Known
    /\ Bad # Null

-----------------------------------------------------------------------------
(* ldap_create: the structure is copied, the controls are not, the list of *)
(* servers is duplicated, which fails for a list that is empty; the        *)
(* pointers to the timeouts stay those of the global options.              *)
(* Mutant: nor are the controls set to NULL. *)
CreatedMut(st, ld) ==
    LET g    == st.opts[Global]
        copy == [g EXCEPT !.errno = 0, !.error = 0, !.matched = 0]
    IN  Store([st EXCEPT !.opts = With(@, ld, copy)], ld, "defludp", Value(st, g.defludp))

Created(st, ld) ==
    LET g    == st.opts[Global]
        copy == [g EXCEPT !.sctrls = 0, !.cctrls = 0, !.errno = 0, !.error = 0, !.matched = 0]
    IN  Store([st EXCEPT !.opts = With(@, ld, copy)], ld, "defludp", Value(st, g.defludp))

(* ldap_ld_free: the blocks of the controls are freed by nobody.           *)
Freed(st, ld) ==
    LET o == st.opts[ld]
        s == Release(Release(Release(Release(Release(st, o.error), o.matched), o.defludp), o.tm_api), o.tm_net)
    IN  [s EXCEPT !.opts = Restrict(@, DOMAIN @ \ {ld}), !.lost = @ \cup ({o[f] : f \in Controls} \ {0})]

Returned(o, opt, rc, v) == [of |-> o, option |-> opt, rc |-> rc, value |-> v]
Said(o, opt, rc)        == Returned(o, opt, rc, Null)

Becomes(st) == opts' = st.opts /\ heap' = st.heap /\ undefined' = st.undefined /\ lost' = st.lost

Call ==
    /\ ~undefined /\ calls < MaxCalls
    /\ calls' = calls + 1 /\ valid' = TRUE /\ UNCHANGED conf

(* ldap_set_option, with NULL for the session the global options *)
SetOption(o, opt, v) ==
    /\ Call
    /\ LET s == Set(Initialized(Now), o, opt, v)
       IN  Becomes(s.st) /\ ret' = Said(o, opt, s.rc)

(* ldap_get_option: a copy of what a block holds *)
FieldOf(opt) ==
    CASE opt \in DOMAIN Booleans -> Booleans[opt]
      [] opt \in DOMAIN Blocks   -> Blocks[opt]
      [] opt \in DOMAIN Plain    -> Plain[opt]
      [] opt \in Lists           -> "defludp"

GetOption(o, opt) ==
    /\ Call
    /\ LET st == Initialized(Now)
           f  == FieldOf(opt)
           p  == st.opts[o][f]
       IN  IF o = Global /\ opt \in SessionOnly
           THEN Becomes(st) /\ ret' = Returned(o, opt, "error", Null)
           ELSE IF f \in Owned /\ Dangling(st, p)
           THEN Becomes([st EXCEPT !.undefined = TRUE]) /\ UNCHANGED ret
           ELSE Becomes(st) /\ ret' = Returned(o, opt, "success", IF f \in Owned THEN Value(st, p) ELSE p)

(* ldap_create, ldap_init with a port and hosts, ldap_initialize with      *)
(* URLs: a session that cannot be set up is freed again.                   *)
Create(ld, how, port, text) ==
    /\ Call /\ ld \notin Open
    /\ LET st   == Initialized(Now)
           new  == Created(st, ld)
           with == IF how = "init" /\ port # 0 THEN [new EXCEPT !.opts[ld].defport = port] ELSE new
           s    == IF how = "create" \/ text = Null THEN Done(with)
                   ELSE Set(with, ld, IF how = "init" THEN "host_name" ELSE "uri", text)
           list == st.opts[Global].defludp
       IN  IF Dangling(st, list)
           THEN Becomes([st EXCEPT !.undefined = TRUE]) /\ UNCHANGED ret
           ELSE IF list = 0
           THEN Becomes(st) /\ ret' = Said(ld, "create", "error")
           ELSE /\ Becomes(IF s.rc = "success" THEN s.st ELSE Freed(s.st, ld))
                /\ ret' = Said(ld, "create", s.rc)

(* ldap_unbind *)
Unbind(ld) ==
    /\ Call /\ ld \in Open
    /\ Becomes(Freed(Now, ld))
    /\ ret' = Said(ld, "unbind", "success")

Init ==
    /\ conf \in Confs
    /\ valid = FALSE /\ opts = [o \in {Global} |-> Defaults] /\ heap = <<>> /\ undefined = FALSE
    /\ ret = Said(Global, "none", "success")
    /\ lost = {} /\ calls = 0

May(o, i) == GlobalTimeouts \/ o # Global \/ i.option \notin {"timeout", "network_timeout"}

Next ==
    \/ \E o \in {Global} \cup Open, i \in Inputs : May(o, i) /\ SetOption(o, i.option, i.value)
    \/ \E o \in {Global} \cup Open, i \in Inputs : i.option \notin ReadOnly \cup {"rebind_proc"} /\ GetOption(o, i.option)
    \/ \E ld \in Sessions, h \in Hosts : Create(ld, h.how, h.port, h.text)
    \/ \E ld \in Sessions : Unbind(ld)

Spec == Init /\ [][Next]_vars
-----------------------------------------------------------------------------
(* No block is used after it was freed or freed twice: every pointer of a  *)
(* live structure has a block of its own, and every block a pointer, but   *)
(* for two kinds that nobody frees: the controls of sessions that ended    *)
(* (open.c line 144: "but not pointers to malloc'ed items"), and what was  *)
(* parsed of a host list with an error in it (url.c line 735).  With       *)
(* timeouts in the global options this is not so: see GlobalTimeouts.      *)
Held == {x \in (DOMAIN opts) \X Owned : opts[x[1]][x[2]] # 0}
BlocksExact ==
    /\ ~undefined
    /\ \A x, y \in Held : opts[x[1]][x[2]] = opts[y[1]][y[2]] => x = y
    /\ DOMAIN heap = {opts[x[1]][x[2]] : x \in Held} \cup lost
    /\ lost \cap {opts[x[1]][x[2]] : x \in Held} = {}

(* What the application sees of the structures, the global ones as the     *)
(* first call will find them.                                              *)
View(st, o, f) == IF f \in Owned THEN Value(st, st.opts[o][f]) ELSE st.opts[o][f]
Shown(st) == [o \in DOMAIN st.opts |-> [f \in DOMAIN Defaults |-> View(st, o, f)]]
Seen      == Shown(Initialized(Now))

(* The structures are a table of values: a call changes what it sets, in   *)
(* the structure it names, or nothing when it fails; a session starts with *)
(* the global values and goes its own way (ldap_set_option, ldap_create).  *)
Table == INSTANCE OptionTable WITH table <- Seen
OptionsSpec == Table!Spec
=============================================================================
