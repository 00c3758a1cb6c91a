------------------------------ MODULE Requests ------------------------------
(***************************************************************************)
(* The requests of a session: what each operation of the library hands to  *)
(* ber_printf for its arguments, or the error for which it sends nothing.  *)
(* A session is a record of version, deref, sizelimit, timelimit, defbase, *)
(* binddn, sctrls and cctrls; an absent string (NULL) is None, an absent   *)
(* list of controls too.                                                   *)
(***************************************************************************)
EXTENDS BerCode

Tags == [bind |-> 96, search |-> 99, modify |-> 102, add |-> 104, delete |-> 74, moddn |-> 108,
         compare |-> 110, extended |-> 119]

Refused(rc) == [sent |-> FALSE, rc |-> rc]

(* fields of a format *)
Letter(f)     == <<[f |-> f, v |-> None]>>
Arg(f, v)     == <<[f |-> f, v |-> v]>>
Tagged(t, x)  == Arg("t", t) \o x
Braces(x)     == Letter("{") \o x \o Letter("N") \o Letter("}")
Each(Op(_), s) == FlattenSeq([i \in DOMAIN s |-> Op(s[i])])

-----------------------------------------------------------------------------
(* Controls: those of the call, or the session's own *)
OrDefault(ctrls, default) == IF ctrls # None THEN ctrls ELSE IF default # None THEN default ELSE <<>>
AnyCritical(ctrls) == \E i \in DOMAIN ctrls : ctrls[i].critical

Control(c) ==
    Braces(Arg("s", c.oid) \o (IF c.critical THEN Arg("b", 1) ELSE <<>>)
           \o (IF c.value # None THEN Arg("O", c.value) ELSE <<>>))

(* ldap_int_put_controls: only LDAPv3 has them *)
PutControls(ld, ctrls) ==
    IF ctrls = <<>> \/ ld.version < 3 THEN <<>> ELSE Tagged(160, Letter("{") \o Each(Control, ctrls) \o Letter("}"))

(* no client control is supported; a server control that is critical is    *)
(* refused where it cannot be sent *)
Unsupported(ld, op) ==
    \/ op.kind # "extended" /\ AnyCritical(OrDefault(op.cctrls, ld.cctrls))
    \/ ld.version < 3 /\ AnyCritical(OrDefault(op.sctrls, ld.sctrls))

MessageMut(ld, op, msgid, body) ==
    Letter("{") \o Arg("i", msgid) \o body \o PutControls(ld, OrDefault(op.sctrls, None)) \o Letter("N") \o Letter("}")

Message(ld, op, msgid, body) ==
    Letter("{") \o Arg("i", msgid) \o body \o PutControls(ld, OrDefault(op.sctrls, ld.sctrls)) \o Letter("N") \o Letter("}")

-----------------------------------------------------------------------------
(* Filters, as put_filter and what it calls has taken them apart *)
FilterTag == [f \in {"&", "|", "!", "equality", "substrings", "ge", "le", "present", "approx", "extensible"} |->
                CASE f = "&" -> 160 [] f = "|" -> 161 [] f = "!" -> 162 [] f = "equality" -> 163 [] f = "substrings" -> 164
                  [] f = "ge" -> 165 [] f = "le" -> 166 [] f = "present" -> 135 [] f = "approx" -> 168
                  [] f = "extensible" -> 169]
PartTag   == [initial |-> 128, any |-> 129, final |-> 130]
Some(t, f, v) == IF v = <<>> THEN <<>> ELSE Tagged(t, Arg(f, v))

SimpleFields(f) ==
    CASE f.op = "present"    -> Tagged(FilterTag[f.op], Arg("s", f.type))
      [] f.op = "substrings" -> Tagged(FilterTag[f.op], Braces(Arg("s", f.type) \o
                                  Braces(Each(LAMBDA p : Tagged(PartTag[p.kind], Arg("o", p.value)), f.parts))))
      [] f.op = "extensible" -> Tagged(FilterTag[f.op], Braces(
                                  Some(129, "s", f.rule) \o Some(130, "s", f.type) \o Tagged(131, Arg("o", f.value))
                                  \o Tagged(132, Arg("b", IF f.dn THEN 1 ELSE 0))))
      [] OTHER -> Tagged(FilterTag[f.op], Braces(Arg("s", f.type) \o Arg("o", f.value)))

RECURSIVE FilterFields(_)
FilterFields(f) ==
    IF f.op \in {"&", "|", "!"}
    THEN Tagged(FilterTag[f.op], Braces(Each(FilterFields, f.list)))
    ELSE SimpleFields(f)

-----------------------------------------------------------------------------
(* The operations.  ber_printf has "{it" for the message and then the body *)
Bind(ld, op) ==
    LET dn == IF op.dn = None /\ op.mech = None /\ op.cred # None THEN ld.binddn ELSE op.dn
        auth == IF op.mech = None THEN Tagged(128, Arg("O", IF op.cred = None THEN <<>> ELSE op.cred))
                ELSE Tagged(163, Braces(Arg("s", op.mech) \o
                       (IF op.cred \in {None, <<>>} THEN <<>> ELSE Arg("O", op.cred))))
    IN  Tagged(Tags.bind, Braces(Arg("i", ld.version) \o Arg("s", IF dn = None THEN <<>> ELSE dn) \o auth))

Search(ld, op) ==
    LET base == IF op.base # None THEN op.base ELSE IF ld.defbase # None THEN ld.defbase ELSE <<>>
    IN  Tagged(Tags.search, Braces(
          Arg("s", base) \o Arg("e", op.scope) \o Arg("e", ld.deref)
          \o Arg("i", IF op.sizelimit < 0 THEN ld.sizelimit ELSE op.sizelimit)
          \o Arg("i", IF op.timelimit < 0 THEN ld.timelimit ELSE op.timelimit)
          \o Arg("b", op.attrsonly) \o FilterFields(op.filter)
          \o Letter("{") \o Arg("v", op.attrs) \o Letter("}")))

ModAdd(a)     == Braces(Arg("s", a.type) \o Letter("[") \o Arg("v", a.values) \o Letter("]"))
ModChange(a)  == Braces(Arg("e", a.op) \o ModAdd(a))
Add(op)       == Tagged(Tags.add, Braces(Arg("s", op.dn) \o Braces(Each(ModAdd, op.attrs))))
Modify(op)    == Tagged(Tags.modify, Braces(Arg("s", op.dn) \o Braces(Each(ModChange, op.mods))))

Rename(op) ==
    Tagged(Tags.moddn, Braces(Arg("s", op.dn) \o Arg("s", op.newrdn) \o Arg("b", op.deleteold)
           \o (IF op.superior = None THEN <<>> ELSE Tagged(128, Arg("s", op.superior)))))

Compare(op) == Tagged(Tags.compare, Braces(Arg("s", op.dn) \o Braces(Arg("s", op.attr) \o Arg("O", op.value))))
Delete(op)  == Tagged(Tags.delete, Arg("s", op.dn))
Extended(op) ==
    Tagged(Tags.extended, Braces(Tagged(128, Arg("s", op.oid))
           \o (IF op.data = None THEN <<>> ELSE Tagged(129, Arg("O", op.data)))))

Body(ld, op) ==
    CASE op.kind = "bind" -> Bind(ld, op)       [] op.kind = "search" -> Search(ld, op)
      [] op.kind = "add" -> Add(op)             [] op.kind = "modify" -> Modify(op)
      [] op.kind = "rename" -> Rename(op)       [] op.kind = "compare" -> Compare(op)
      [] op.kind = "delete" -> Delete(op)       [] op.kind = "extended" -> Extended(op)

(* what LDAPv2 does not have *)
OnlyV3(op) ==
    \/ op.kind = "bind" /\ op.mech # None
    \/ op.kind = "rename" /\ op.superior # None
    \/ op.kind = "extended"

(* ldap_search_ext: a timeout is a time limit in whole seconds, but no     *)
(* less than one; one of nothing is refused *)
TimeLimit(timeout) == IF timeout = None THEN -1 ELSE IF timeout.sec # 0 THEN timeout.sec ELSE 1
NoTime(op) == op.kind = "search" /\ op.timeout # None /\ op.timeout = [sec |-> 0, usec |-> 0]

Request(ld, op, msgid, der) ==
    IF NoTime(op) THEN Refused("param error")
    ELSE IF Unsupported(ld, op) \/ (ld.version < 3 /\ OnlyV3(op)) THEN Refused("not supported")
    ELSE LET o == IF op.kind = "search" THEN [timelimit |-> TimeLimit(op.timeout)] @@ op ELSE op
         IN  [sent |-> TRUE, octets |-> Printf(Message(ld, op, msgid, Body(ld, o)), der)]
=============================================================================
