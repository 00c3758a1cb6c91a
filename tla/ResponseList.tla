---------------------------- MODULE ResponseList ----------------------------
(***************************************************************************)
(* The queue of responses that an LDAP session has read from its servers   *)
(* and not yet handed to the application: ld_responses and ld_abandoned of *)
(* libldap (result.c, abandon.c).                                          *)
(*                                                                         *)
(* ld_responses is a list of lists: along lm_next one node per operation,  *)
(* along lm_chain the messages of that operation.  Here                    *)
(*   queue      is the sequence of message ids along lm_next,              *)
(*   chain[id]  is the sequence of messages along lm_chain of that node    *)
(*              (<<>> when id is not in the list), and                     *)
(*   abandoned[id] counts the occurrences of id in ld_abandoned.           *)
(* The operators are the functions of result.c on these lists; the modules *)
(* that use them own the variables.                                        *)
(***************************************************************************)
EXTENDS Integers, Sequences, FiniteSetsExt, SequencesExt

RES_ANY         == -1
RES_UNSOLICITED == 0

MsgTypes == {"entry", "reference", "partial", "result", "status"}

(* "result" is LDAP_RES_SEARCH_RESULT, "status" the one response of any    *)
(* other operation, "partial" the extended partial response.               *)
NonFinal(m) == m.type \in {"entry", "reference", "partial"}

-----------------------------------------------------------------------------
(* chkResponseList: the walk along ld_responses. *)

(* The positions at which the walk can stop: the first that is neither     *)
(* abandoned nor of another operation than the one asked for.              *)
Candidates(queue, abandoned, msgid) ==
    {i \in DOMAIN queue : abandoned[queue[i]] = 0 /\ msgid \in {RES_ANY, queue[i]}}

(* The abandoned chains the walk meets before it stops: it frees them and  *)
(* takes one occurrence of their id out of ld_abandoned.                   *)
Purged(queue, abandoned, msgid) ==
    LET cand == Candidates(queue, abandoned, msgid)
        last == IF cand = {} THEN Len(queue) ELSE Min(cand) - 1
    IN  {queue[i] : i \in {j \in 1..last : abandoned[queue[j]] > 0}}

(* Mutants: any chain will do; only a caller for one message is served. *)
AcceptableMut(ch, msgid, one)  == ch # <<>>
AcceptableMut2(ch, msgid, one) == one \/ msgid = RES_UNSOLICITED

(* The chain at which the walk stops is accepted when one message is       *)
(* enough, or when it has a message that ends the operation.               *)
Acceptable(ch, msgid, one) ==
    one \/ msgid = RES_UNSOLICITED \/ \E i \in DOMAIN ch : ~NonFinal(ch[i])

Discard(queue, ids) ==
    IF ids = {} THEN queue ELSE SelectSeq(queue, LAMBDA id : id \notin ids)

(* Unlink the node of one operation. *)
Unlinked(queue, id) ==
    IF Contains(queue, id)
    THEN RemoveAt(queue, CHOOSE i \in DOMAIN queue : queue[i] = id)
    ELSE queue

(* What the walk accepts: the id of the chain, or 0. *)
ChkResponseList(queue, chain, abandoned, msgid, one) ==
    LET cand == Candidates(queue, abandoned, msgid)
        id   == queue[Min(cand)]
    IN  IF cand # {} /\ Acceptable(chain[id], msgid, one) THEN id ELSE 0

(* Mutant: the rest of the chain is lost when one message is taken. *)
LeftMut(ch, one) == <<>>

(* The messages taken from a chain: the first, or all of them. *)
Taken(ch, one) == IF one THEN <<Head(ch)>> ELSE ch
Left(ch, one)  == IF one THEN Tail(ch) ELSE <<>>

-----------------------------------------------------------------------------
(* try_read1msg: a new message is chained behind the non-final messages of *)
(* its operation; a message that followed them is overwritten.             *)
Chained(ch, m) ==
    LET cut == {i \in 2..Len(ch) : ~NonFinal(ch[i])}
    IN  Append(IF cut = {} THEN ch ELSE SubSeq(ch, 1, Min(cut) - 1), m)

(* Mutant: every message gets a node of its own. *)
QueuedMut(queue, id) == <<id>> \o queue

(* An operation that is not in the list goes to its front. *)
Queued(queue, id) == IF Contains(queue, id) THEN queue ELSE <<id>> \o queue

-----------------------------------------------------------------------------
(* ldap_msgdelete: returns 0 (TRUE here) unless the operation was not in   *)
(* the list or the last message freed was a search entry.                  *)
MsgDeleted(ch) == ch # <<>> /\ ch[Len(ch)].type # "entry"
=============================================================================
