# Verification models of the LDAP SDK

TLA+ models of the C code under `src/libraries` (libldap, liblber, libldap_r and their
helpers), checked with TLC on small instances, with proofs checked by TLAPS for every
value of the constants. `PROJECT.json` lists the runs, the source lines each definition
stands for, the hazards of the code and the theorems; this file says how to read them.

1. [The system](#1-the-system)
2. [What is modelled, and where](#2-what-is-modelled-and-where)
3. [The runs](#3-the-runs)
4. [The proofs](#4-the-proofs)
5. [Code against documentation](#5-code-against-documentation)
6. [What is left out](#6-what-is-left-out)
7. [Plan](#7-plan)

## 1. The system

The SDK is the OpenLDAP 2.0 client library ported to OS/2. An application calls
**libldap**; an operation is encoded with **liblber**, written to a server connection,
and answered asynchronously by messages that `ldap_result` reads, sorts and hands out.
**libldap_r** adds threads: wrappers of the native ones, a reader/writer lock and a
thread pool. **libavl**, **libldif**, **libldbm** and **liblutil** are independent
helpers.

| Component | State it keeps | Operations | What makes it correct |
|---|---|---|---|
| Request/result engine (`result.c`, `request.c`, `abandon.c`, `unbind.c`) | `ld_requests`, `ld_responses` (one chain per operation), `ld_abandoned`, `ld_conns` with reference counts, the message id counter | send a request, `ldap_result` (one/all, one operation/any, timeout), `ldap_abandon`, `ldap_msgdelete`, unbind | every response is handed out once, in order, to the operation it belongs to; abandoned operations stay silent; connections are released once |
| Referral chasing (`request.c`, `result.c`) | a tree of requests (`lr_parent`, `lr_child`), `lr_outrefcnt`, `lr_parentcnt`, the connection table, `lconn_rebind_queue` | chase V2/V3 referrals and references, nested binds, merge error codes | a parent completes when its children have; no loop beyond the hop limit; requests and connections are freed once |
| Connecting (`open.c`, `os-ip.c`, `os-local.c`, `tls.c`) | a socket, its blocking mode, the layers of its Sockbuf | the walk over servers and addresses, the non-blocking connect with a timeout, the start of TLS | the first address that answers is used, the wait ends, no socket is lost or closed twice |
| BER input and output (`io.c`, `sockbuf.c`, the SASL layer of `cyrus.c`) | a partly read element (`ber_tag`, `ber_len`, `ber_rwptr`), the buffers of the layers | `ber_get_next` over partial reads, `ber_flush` over partial writes, `ber_sockbuf_ctrl(DATA_READY)` | elements arrive whole and in order, whatever a system call moves; nothing stays in a buffer nobody reads |
| BER encoding and decoding (`encode.c`, `decode.c`) | a buffer, the stack of open sequences | tags, lengths, values; `ber_printf`, `ber_scanf` | what is put is got back; what is cut off is refused |
| Encoders of operations (`search.c`, `add.c`, `modify.c`, `delete.c`, `compare.c`, `modrdn.c`, `extended.c`, `sbind.c`, `sasl.c`) | a BER element | build a request; the synchronous forms, which wait for the result | the element is the operation that was asked for, or nothing is sent |
| Result parsing (`error.c`, `references.c`, `getentry.c`, `getattr.c`, `getvalues.c`, `getdn.c`, `messages.c`, `addentry.c`) | chains of messages | walk a chain, parse a result, read an entry | what the server says is what is given back |
| Controls (`controls.c`, `sortctrl.c`, `vlvctrl.c`, `sort.c`) | arrays of controls | encode and parse them; sort keys and virtual lists; sort entries | criticality and value survive; sorted entries are in order |
| Bind and SASL (`bind.c`, `sbind.c`, `sasl.c`, `kbind.c`, `cyrus.c`) | the SASL context of a connection | bind, the multi-step exchange | each step answers the last challenge; a failure is reported |
| Client cache (`cache.c`) | hash tables of cached results and of requests, `lc_memused` | enable, disable, flush, uncache, add request, add result, check, reduce | an answer belongs to its request and is not stale; memory is accounted for |
| Options and initialisation (`options.c`, `init.c`, `open.c`, `unbind.c`) | a global structure, one copy per session, allocated items | read files and environment, set, get, copy, free | a copy shares nothing that is freed; a call changes what it names |
| Names, URLs, strings (`getdn.c`, `url.c`, `charray.c`, `dnssrv.c`, `utf-8.c`) | none | split, convert, unescape | agree with what they stand for, respect the ends of their input |
| Schema parser (`schema.c`) | a position in a text | parse and print four kinds of definition | a definition read is the one that was written |
| Filter and template files (`getfilter.c`, `srchpref.c`, `disptmpl.c`, `friendly.c`, `dsparse.c`) | lists read from files | read, look up, build filters | a file read is the one that was written |
| Reader/writer lock (`rdwr.c`) | four counters, two condition variables, one mutex | rlock, wlock, try variants, unlocks, destroy | exclusion, no lost wakeup, no destruction under a user |
| Thread pool (`tpool.c`) | a pending list, counts of pending tasks, open, active and starting threads, the limits, the state | submit, worker loop, maxthreads, destroy, backload | each accepted task runs once, in order; no idle thread beside a pending task; the pool is freed when unused |
| Thread primitives (`thr_*.c`) | native objects; for LWP a table of stacks and of sleepers | create, join, yield, mutex, condition variable | what the two components above assume of them |
| AVL trees (`avl.c`) | a tree with balance factors, a list for a walk | insert, delete, find, apply, first/next | order and balance |
| LDIF and base 64 (`line64.c`, `fetch.c`, `base64.c`) | none | fold and encode a value, read it back | round trip |
| Entry layout, database wrapper, digests, OS/2 copies | see `PROJECT.json` | | glue, layout, data transformations |

**How they interact.** libldap itself is single threaded: nothing in it runs but inside
a call of the application, and only `ldap_result` reads. Its concurrency is that of the
application's calls with the servers and the network: responses of several operations
interleave, arrive after a timeout or after an abandon, or stop with the connection. An
encoder draws a message id and calls `ldap_send_initial_request`, which asks the cache
first; `ldap_result` calls `chkResponseList`, then `wait4msg`, which selects over the
connections and calls `try_read1msg`; that gives each response to the cache and may call
`ldap_chase_v3referrals`, which sends new requests, opens connections and binds them by
a nested `ldap_result`. The thread pool calls the thread primitives; its tasks may call
it back. Of libldap_r, libldap uses only the mutexes, around the resolver and for Cyrus
SASL.

**What is hard.** The order in which responses are queued, purged and taken out (one at
a time, as a chain, by id or by any); responses under way when their operation is
abandoned; reference counts released on four different paths; a timeout that races a
response; a connection that fails between two of the steps that set it up; a read or a
write cut short anywhere under two layers that buffer; an answer from a cache that was
pruned while it was collected; copies of structures that own what they point to; in
libldap_r, submissions that give up the mutex in the middle, wakeups that reach another
thread than the one meant, and `destroy` against everything else. Of the codecs:
boundaries of widths, optional elements, escapes undone once, and input that ends too
early. The list, with the lines where each bites, is `hazards` in `PROJECT.json`.

## 2. What is modelled, and where

| Module | Role |
|---|---|
| `ResponseList` | pure operators on `ld_responses` and its chains: `chkResponseList`, the purge of abandoned ids, queueing, `ldap_msgdelete` |
| `LdapResult` | the session: one action per handler, built on `ResponseList`; `MCLdapResult`, `LdapResultProof` |
| `ResponseStream` | its promise: a stream of responses per operation |
| `LdapReferrals` | a session that chases referrals and references: the tree of requests, the connection table; `MCLdapReferrals`, `ReferralsProof`, `ChaseProof` |
| `Connect` | a connection from the choice of its server to its close |
| `BerIo` | elements over the layers of a Sockbuf |
| `Transport` | composes `Connect` and `BerIo`; `MCTransport`, `TransportProof` |
| `ClientCache` | the cache of a session; `MCClientCache`, `CacheProof` |
| `Options` | the global options, sessions and the blocks they own; `MCOptions`, `OptionsProof` |
| `OptionTable` | its promise: a table of values |
| `AvlTree` | the tree |
| `SortedSet` | its promise: a set walked through in order |
| `ThreadCond` | condition variables: POSIX ones and the NT events of `thr_nt.c` |
| `Rdwr` | the reader/writer lock, with `ReadWriteLock` as its promise; `RdwrProof` |
| `ThreadPool` | the thread pool, with `TaskQueue` as its promise; `MCThreadPool`, `ThreadPoolProof` |
| `BerCode` | tags, lengths, values, `ber_printf` and `ber_scanf` by their formats |
| `Requests`, `Filter` | every request, over `BerCode`; the encoder of filter strings |
| `Results` | the parsers of results, entries and references, the walks over chains, sorting |
| `Controls` | sort keys, virtual lists and the responses to them |
| `SyncCalls` | the calls that wait, the SASL exchange |
| `Messages` | requests and results against `LDAPMessage` of the protocol |
| `Names`, `Url`, `Utf8` | names and lists of strings, the URL parser, UTF-8 |
| `Ldif` | base 64, LDIF lines and records |
| `Schema` | the lexer, parsers and printers of `schema.c` |
| `TemplateFiles` | the readers of the five kinds of files and what is built from them; the texts of such files, against what is read |
| `Codecs` | composes the modules of pure functions; `MCCodecs` |

### LdapResult

| Model | Code |
|---|---|
| `requests`, `refcnt` | `ld_requests`, `lconn_refcnt` of the default connection |
| `queue`, `chain` | the order of `ld_responses`; the messages chained at each node (`lm_chain`) |
| `abandoned` | how often each id stands in `ld_abandoned` |
| `call` | the call of `ldap_result` that is in progress, and whether it is in `select` |
| `wire`, `server` | the bytes between server and client, message by message; whether the connection still works |
| `ops`, `sent`, `finished`, `delivered`, `aborted` | history: what the application asked for, what the server sent, what the application got |

`Send` is an encoder with `ldap_send_initial_request`; `ResultCall`, `Check`, `Read`,
`ReadError`, `Timeout` are `ldap_result`, the look through the list at the top of each
round of `wait4msg`, `try_read1msg` with a message and at the end of file, and the end
of `select` without one; `Abandon` and `Unbind` are `ldap_abandon` and `ldap_unbind`.
`Read` covers all of `try_read1msg`: tossing (`Toss`), completing and releasing the
request (`Release`), handing over the message (`HandOver`) or the chain it ends
(`HandChain`), queueing it (`Enqueue`). A message is its id, its type and its position
in the operation's responses; that is all the list code looks at. What `ldap_result`
does between two reads is one step because nothing else runs in the library meanwhile;
the server and the network (`ServerReply`, `ServerFinal`, `ServerNotice`, `ServerCrash`)
move between any two.

A message id is drawn from `1..MaxMsgid`, so every abandon that writes a request uses
one of them up, as in the code.

### LdapReferrals

`LdapResult` looks closely at the responses of a session with one connection;
`LdapReferrals` looks at what a session with many connections does to its requests, and
of a message it keeps only that it is a result, a bind result, a referral or a
reference. The two meet in `Deliver` and `unread`: what `LdapReferrals` makes for the
application is what `LdapResult` queues and hands out.

| Model | Code |
|---|---|
| `req` | `ld_requests`: of each request `lr_status`, `lr_outrefcnt`, `lr_parentcnt`, `lr_parent`, `lr_origid`, `lr_conn` |
| `conn` | `ld_conns`: `lconn_refcnt`, `lconn_rebind_inprogress`, `lconn_rebind_queue`, and whether the peer is gone |
| `stack` | the calls of `ldap_chase_v3referrals` (`v3`) or `ldap_chase_referrals` in progress, the innermost first, each with its list of URLs and the one it is at |
| `abandoned`, `unread` | `ld_abandoned`; the operations with messages in `ld_responses` |
| `asked` | what each server has received and not answered; an answer is chosen when it is read |
| `session` | "open", "closed", or "undefined": the code has gone on to use freed memory |
| `finals`, `strayed`, `left`, `moved`, `moved3`, `styles`, `ops`, `aborted` | history: among them the requests that ended in a referral, those for which it was one of LDAPv3, and the kinds of referrals received |

`ReadRefs` is `try_read1msg` up to its call of the chase. The chase then goes URL by
URL: `SendOn` on a connection that is there, `QueueOn` while that is being bound,
`Reconnect` (connect, count the bind in the parent, send it and wait for it in a nested
`ldap_result`), `ConnectFails`; `Bound` and `Refused` are the returns of
`ldap_new_connection`, and `Pull` takes up a list that was queued meanwhile. While a
chase waits, every reading action is enabled, which may put another chase on the stack;
that is the interleaving this module is for. `Chased`, `Passed` and `Unfollowed` are the
three ways `try_read1msg` goes on, and `Finish` is its second half: it counts down along
`lr_parent`, looks whether the whole tree is complete, frees it, and releases the
connection.

There are two kinds of referrals. Those of LDAPv3 stand in their own elements and are
chased by `ldap_chase_v3referrals`: every child becomes a child of the operation
(`Parent`), and a connection that is being bound is respected (`MustQueue`). Those of
LDAPv2 stand in the error string of a result and are chased by `ldap_chase_referrals`: a
child hangs under the request that was referred, and nothing is queued or taken up. A
session of version 2 has only the second kind, one of version 3 both, message by message
(`result.c:530`), so a tree may mix them (`ReadRefs`).

Two places use freed memory: after the write of a child has failed, and at an unbind
with children on their parents' lists (`ldap_free_request` leaves them there). The model
stops (`session = "undefined"`), and no property is stated about what follows. In a
chain of LDAPv2 referrals the same function decrements a count in a request it has
just freed; the model takes that to have no effect.

### Connect, BerIo and Transport

| Model | Code |
|---|---|
| `setup` | the URL list, and the build: `HAVE_GETADDRINFO`, `src/src/os-ip.c`, whether the connection is the session's default one |
| `at`, `srv`, `addr`, `s` | where `ldap_new_connection` is, the server and address it tries, the socket it connects |
| `open`, `nonblock` | the sockets of the process, those with `O_NONBLOCK` |
| `fd`, `layers` | `sb_fd`, and the stack `sb_iod` with the socket each layer was set up on |
| `lost`, `again` | history: sockets that nobody will close, and why; whether a descriptor was closed a second time |
| `out`, `pkt`, `up` | the rest of a request to write, the SASL layer's `buf_out`, what has reached the server |
| `down`, `ahead`, `sec`, `plain` | octets under way, the buffer of the readahead layer, `sec_buf_in` and `buf_in` of the SASL layer |
| `ber`, `call` | the element that `ber_get_next` is reading (`ber_tag`, `ber_len`, `ber_rwptr`), the layer read in progress |
| `torn` | history: whether the length of a SASL packet came in parts |

A step of `Connect` is a system call with what the code does until the next one:
`Succeed` is `ldap_pvt_connect` returning, with the layers of
`ldap_int_open_connection`, `Abort` its ways to fail, `GiveUp` the end of the server
list. TLS is one step per outcome of the handshake. In `BerIo`, the writes and reads move
any part of what there is; a step of the reader is one round of `ber_get_next`'s states.
A write that fails, also because a socket that does not block takes no more, makes
`ldap_send_server_request` give its request up with what was written of it on the wire
(`WouldBlock`, `GiveUp`). The four octets of a SASL packet's length are all read to the
start of the buffer: when they come in parts, the later ones overwrite the earlier ones,
and what stands in the rest is what was there before (`Store`, `Stale`).
`Transport` adds what neither module has alone: the exchange runs over the socket that
was connected, with the blocking mode it was left in (`Mode`), and `ldap_unbind` closes
it wherever the exchange stands. The build for OS/2 (`Os2`) has another connect, which
waits whatever the system says and leaves the socket non-blocking.

### ClientCache

| Model | Code |
|---|---|
| `lc` | `*ld_cache`: enabled, timeout, `lc_maxmem`, `lc_memused`, options |
| `lc_requests`, `lc_buckets` | the list of requests under way with the responses collected for each; the buckets of answered ones |
| `reduce` | `remove_threshold` inside `check_cache_memused` |
| `ops` | the server: what it was asked and said, and how long ago |
| `hit`, `strays` | history: the last answer, and sizes taken off the count that were never put on |

Time is an age per entry, up to one more than the longest timeout. `Ask` is an encoder
with `ldap_check_cache` and `ldap_add_request_to_cache`, `Entry` and `Final` are
`ldap_add_result_to_cache`; requests are compared as `ldap_check_cache` does, by type and,
with `request_cmp`, by their bytes; the DN and the length that the model has beside them
are read out of these (`RequestAssumption`). A message is taken out of a list with
`Only`, which is defined by the places that stay, because the prover has no facts about
`SelectSeq`. A size is the number of `Pieces` of a list (each message and each response
chained to it), which `msg_size` counts in octets; `CountAssumption` says that what a
session can collect can be counted in `lc_memused`. Subtractions still wrap.

### Options

A field holds its value or points to a block of `heap`; a freed block is given out
again, so that a pointer left behind is a pointer to somebody else's block. `SetOption`,
`GetOption`, `Create` (with `ldap_init`, `ldap_initialize`, `ldap_open`) and `Unbind`
are the calls. `lost` has the blocks that nobody frees: the controls of a session that
ends, and what `ldap_url_parsehosts` has parsed of a list with an error in it (`Leak`).
The first call fills the global structure from the files and the
environment (`Initialized`): these are one sequence of `Settings`, applied one by one
(`Read`). `OptionTable` has no pointers: a row per structure, which a
call changes in one place.

### AvlTree

Left and right are written once, for a side. `Insert`, `Delete` and `GetFirst`/`GetNext`
are actions; the searches and walks are operators, compared with the set of elements
after every sequence of the actions.

### The pure functions

Strings are sequences: of octets where the code looks at octets (BER, UTF-8, base 64,
LDIF), of tokens where it looks at characters that mean something (names, URLs, filters,
schema, files), a token being one such character or a run of others. A conversion of
numbers or case is a table of the values that occur. Each module has the functions as
the code has them, error paths included; `Codecs` and `Messages` have what the input
stands for, written from the format's definition, and the comparison. A behaviour of
`Codecs` picks one item of `Items`; the items are in `MCCodecs`, at the boundaries of
each format.

### Rdwr

One action per critical section of the lock's mutex. `RlockWoken` and `WlockWoken` are
one round of the wait loops. A thread whose condition variable was signalled is "woken"
(no longer in `asleep`) but takes the mutex in a step of its own, so that another thread
can be faster: the case the loops are for. `Spurious` is a return of `pthread_cond_wait`
without a signal. The try variants are the steps that do not wait. With `EventCond` the
condition variables are NT auto-reset events, and `Broadcast` wakes one thread.

`rdwr.c` is compiled only where the native library has no lock of its own
(`LDAP_THREAD_HAVE_RDWR`).

### ThreadPool

One action per critical section of `ltp_mutex`. A submission that needs a thread is
three steps: it gives up the mutex (`Submit`), creates the thread (`Created` or
`CreateFailed`), takes the mutex again (`Started`, `CreateFailed`). A worker goes from
`Look` (having the mutex: take a task, sleep or leave) to `Done`. `thread[w]` says where
it is; `open_count`, `active_count`, `starting`, `pending_count` are the code's own
counters, so that their agreement with the threads is something to check. A context is
known by its address, which `malloc` may give out again, because the back-out of a
submission looks for it by address. `Destroy` is the part of
`ldap_pvt_thread_pool_destroy` that sets the state and signals, `Free` the end of its
wait and the release of the pool.

## 3. The runs

Each run checks only what its instance can tell; `mutants` in `PROJECT.json` shows for
each property a change of the code that it catches.

| Run | Instance | Checks | Distinct states |
|---|---|---|---|
| `result` | version 3, 2 message ids, up to 2 non-final responses per operation, searches and other operations, calls for id 1 or any | `StreamIntact`, `QueueExact`, `AbandonedOutOfReach`, `AbandonedQuiet`, `AllIsWhole`, `TimeoutMissesNothing` | 2.6 million |
| `result_v2` | version 2, fairness | `StreamSpec` (the session implements `ResponseStream`), `WaitEnds` | 25 thousand |
| `referrals` | versions 2 and 3, 3 servers, 2 operations, 2 referrals or references, of LDAPv3 or LDAPv2, with one or two URLs, hop limit 2, one fault, fairness | `CountExact`, `TreeHeld`, `ConnsHeld`, `NoneForgotten`, `OneFinal`, `OperationsEnd` | 231 thousand |
| `referral_hops` | one operation, a referral of a referral | `ReferralsEnd`, which the code does not keep (section 5) | |
| `transport` | three lists of servers (two addresses, local paths, TLS), the last also as built for OS/2; one request, or two where the first may be given up, and replies of four shapes, cut anywhere; plain and SASL, blocking or not, fairness | `SocketsExact`, `StreamsExact`, `ConnectEnds`, `RepliesRead` | 41 thousand |
| `cache` | a search and a compare in one bucket, 3 message ids, no limit and one that two answers exceed, fairness | `MemusedExact`, `AnswersTrue`, `ReduceEnds` | 614 thousand |
| `options` | three configurations, two sessions, four calls | `BlocksExact`, `OptionsSpec` (implements `OptionTable`) | 110 thousand |
| `avl` | eight keys, one of them with a duplicate | `TreeExact`, `SortedSpec` (implements `SortedSet`) | 85 thousand |
| `codecs` | 8 thousand items of 19 kinds | `RequestsExact`, `ResultsExact`, `ReadsBack`, `SchemaExact` | 8 thousand |
| `rdwr` | 4 threads, POSIX, fairness | `CountsExact`, `NoneForgotten`, `DestroyedUnused`, `LockSpec` (implements `ReadWriteLock`), `EveryWaiterServed` | 1 thousand |
| `pool` | 1 application thread, 2 workers, 3 tasks, limits 1 and 2, fairness, threads can be created | `QueueSpec` (implements `TaskQueue`), `EveryTaskEnds`, `DestroyEnds` | 48 thousand |
| `pool_fail` | 2 application threads, 3 workers, 3 tasks, at most 2 pending, limits 0, 1, 2, creation may fail | `CountsExact`, `NoIdleBacklog`, `FreedUnused` | 6 thousand |

**The session** (`result`). `StreamIntact`: what was handed out, what is queued and what
is on the wire are together the server's responses, for every mix of calls; of an
operation with partial responses it is the first of them, never less.
`QueueExact`: one node per operation with queued responses. `AbandonedOutOfReach` and
`AbandonedQuiet`: an abandoned id has no request and no queued response, and nothing of
it is handed out. `AllIsWhole`: a caller for all responses gets them all.
`TimeoutMissesNothing`: a call that returns 0 leaves nothing acceptable behind.

*Bounds.* Two ids give an operation and another one, or an operation and its abandon
request; two responses before the final one give chains of three, which is where a node
has a successor and a predecessor in its chain. Purging more than one operation needs
three ids; that an abandoned id never is in the list is proved for any number of them
(`AbandonedTheorem`). *Fairness* (`result_v2`). The loop of `wait4msg` runs until it
returns (`Check`, `Read`, `ReadError` are weakly fair: the call is executing); a server
answers the requests it has unless its connection fails. No fairness on the application,
on timeouts or on failures.

**The tree** (`referrals`). `CountExact`: `lr_outrefcnt` is the number of children
outstanding plus the binds in progress for children to come. `TreeHeld`: an operation
goes with all its children and never under a chase that waits. `OneFinal` and
`OperationsEnd`: the application is told of an operation's end once, and it is told.
`ConnsHeld`: no connection is closed under a request that waits on it, and its count is
that of its users, so that it is closed with the last one. `NoneForgotten`: no queued
list stays behind.

The conditions in these properties are where the code really stops keeping them, each
found as a counterexample of the unconditional form: a request that ends in a chased
referral never releases its connection, and an abandon releases none for a request that
is chasing (so the count of `ConnsHeld` is stated before either happens); a bind that
fails closes its connection under requests that LDAPv2 referrals sent there meanwhile
(`ConnsHeld`; such a request hangs, `CutOff`); of three lists one is left behind when the
chase that would have pulled it takes another after a fault, and the lists queued on a
connection that is bound for an LDAPv2 referral are all left there, so that their
operations hang (`NoneForgotten`, `left`); an LDAPv3 referral that cannot be followed is
passed on as a result while other children are outstanding (`OneFinal`), which takes a
fault, a hop limit that is reached (with referrals of LDAPv3 alone that is a limit of 1,
because every child has the count 1; the run does not have that limit: the case was
found by its proof, and TLC shows it with `HopLimit = 1` and `MaxRefs = 4`), or both
kinds of referrals in one tree, where counts grow; a bind that fails after everything
else has completed leaves the operation hanging, because the count goes down without
anybody looking (`Hung`, in `OperationsEnd`); and two of section 5. `styles` keeps the
kinds of referrals that were received, so that the conditions that are about one kind
leave sessions of the other alone, whatever version the session has. The
kinds of the faults that occurred are kept, so that a property gives way only to the
kind that breaks it: failed connects leave the counts of the connections exact, and
operations end in spite of failed connects and of failed binds, other than those of
`Hung`.

*Bounds.* Two operations whose lists share a server give queueing during a bind, also
across operations; two references give a second level of the tree and nested chases; a
list of two URLs and one fault give the retry of the next URL. Ten ids are enough for
every behaviour of this instance: otherwise a chase would stop short and `OperationsEnd`
would fail. The invariants were also checked once with three
references and no fault (522 thousand states) and with two faults (992 thousand).
*Fairness*: the library runs until it reads, the application keeps calling
`ldap_result`, and servers answer with results in the end (`Fairness`); the servers owe
no referral, and the network no fault.

**The connection** (`transport`). `SocketsExact`: every open socket is the one being
connected, the one of the Sockbuf, or lost for one of two reasons the code has (a path
that is too long; a server whose TLS failed and whose descriptor is overwritten), no
descriptor is closed twice unless a server's TLS has failed, and the socket that is used
carries layers of its own and, outside OS/2, the blocking mode it should have.
`StreamsExact`: the elements read are those that were sent, and the server gets each
request octet for octet, of one that was given up its first octets and behind them the
next request. `ConnectEnds`: the attempt ends when a timeout is configured.
`RepliesRead`: a reply does not wait in a buffer of a layer while the caller waits in
`select`, unless the length of a SASL packet came in parts.

*Bounds.* The lists give a second address, a second server, a failure after each step,
and the retry of the session's default connection. One request and two replies suffice
for a cut at each octet of an element and between two, with tags and lengths of one and
of several octets, one that is refused, and a readahead buffer shorter than most of
them. Requests go over one of the setups (`Exchanging`): the others differ in how the
socket came to be. SASL is checked on sockets that block and not with the build for
OS/2, which has no Cyrus SASL. A packet whose length came in parts is followed until the
code has read what it takes for the packet. *Fairness*: the code runs; with a timeout
`select` returns (`WF` of the steps and, if `Timed`, of the waits). The application
keeps waiting for replies, and what is under way arrives although waits time out before
it (`SF` of `Select` and of reads that get something).

**The cache** (`cache`). `MemusedExact`: `lc_memused` is what the buckets hold, and
outside the loop that reduces it within two thirds of the limit, or nothing is left to
remove. `AnswersTrue`: what is answered from
the cache is the whole answer the server gave to an equal request within the timeout,
not flushed or uncached since. `ReduceEnds`: the loop ends. *Bounds.* Both requests hash
to the same bucket; the third id repeats one of them, answered, under way or expired;
two answers together exceed the limit; ages go one beyond the timeout; the width of
`lc_memused` is small enough to wrap. *Fairness*: the loop of `check_cache_memused` runs
and the clock moves. Both are needed: the threshold becomes 0 after one round, and
entries of the current second are never older than that, so the loop spins until the
second is over.

**The options** (`options`). `BlocksExact`: every pointer of a live structure has a
block of its own, none is used after it was freed, and every block is held by a pointer,
but for those that nobody frees: the controls of sessions that ended and what was parsed
of lists of hosts with an error in them. `OptionsSpec`:
structures are rows of values. *Bounds.* Four calls are enough to set an option, open
two sessions and end one, or to set an option twice around a session. `GlobalTimeouts`
is off: with it `BlocksExact` fails (section 5).

**The tree** (`avl`). Eight keys reach every rotation below other nodes, in height 4.
The tree after a sequence of calls is compared with the set those calls leave.

**The codecs** (`codecs`). `RequestsExact`: every request, with every combination of
arguments, versions and controls, has the tree of elements of its operation, or is
refused for one of the listed reasons; a filter's string is encoded as the filter it
says, with its special characters in either escape. `ResultsExact`: what a server says
in a message is what the parsers give back, wherever it stands in a chain, what the
synchronous calls return and leave freed, and what a sort leaves in order. `ReadsBack`
and `SchemaExact`: what is written is read back, in any order of its fields and any
blanks. What is cut off is refused where that is compared: definitions of the schema,
BER, base 64, and files of preferences and templates; of a URL only a filter of which
nothing is left is. *Bounds.* Values at each change of width
(127/128, 255/256, 2^15, 2^31), empty ones, absent ones, and ones made of the characters
that have to be escaped; lists of none, one and several. The four properties are about
the item a step picks, so each item is looked at once.

**The lock** (`rdwr`). Four threads give two waiting readers and two waiting writers at
a time. *Fairness*: threads that can run do run, and holders release.
`EveryWaiterServed` is stated for the case that newcomers stop: the file's own comment
says that writers wait for as long as readers keep coming.

**The pool** (`pool`, `pool_fail`). Three tasks let a task submit another while a third
is pending; two limits let the limit fall below the number of threads. `pool` keeps
apart the case in which threads cannot be created, in which the promise of the comments
does not hold (section 5); `pool_fail` shows what does hold in that case. *Fairness*:
every thread that can run does, tasks return, a created thread is scheduled, `destroy`
gets the mutex when its condition holds. `EveryTaskEnds` is no consequence of the
counts: it needs that the signal of a submission reaches a thread that looks at the
list.

## 4. The proofs

All are by induction over the steps of `Spec`, without fairness, and hold for every
value of the constants that satisfies the named assumptions, in particular any finite
number of threads, tasks, ids and responses and both kinds of condition variables.

* `LdapResultProof`: `TypeCorrect`, `QueueTheorem`, `AbandonedTheorem`, `RefcntTheorem`,
  `AbandonedQuietTheorem`. The invariant adds to the properties that requests, queued
  chains and messages on the wire belong to ids that were drawn, because an id that is
  drawn later must find no trace of it. `RefcntTheorem` (the connection is held once per
  request) is part of the invariant and has no run of its own. The lemmas about
  `ResponseList` (what taking an element out of the list leaves, what a purge discards)
  are stated for all lists.
* `LdapResultProof`, second part: `StreamTheorem`, `AllIsWholeTheorem`,
  `TimeoutTheorem`, `StreamSpecTheorem`. The invariant `SInv` follows each response by
  its position in the operation's stream: along the wire and along each chain the
  positions of an operation rise, and delivered, queued and coming ones follow each other
  without a gap (of an operation that takes partial responses, up to the first).
  `StreamSpecTheorem` maps the session to `ResponseStream` with `Gone` and `Box` as the
  mapping and has the assumption `Version = 2`, as its run: in version 3 an abandon that
  only drops queued responses (section 5) leaves an operation that goes on, which the
  promise does not allow.
* `RdwrProof`: `TypeCorrect`, `CountsTheorem`, `ExclusionTheorem`, `DestroyTheorem`,
  `NoWakeupLost`, `ReadersFirst`, `Refinement`. The invariant is the exactness of the
  four counters together with `Sleepers` (who sleeps is at the corresponding place).
  `NoWakeupLost` and `ReadersFirst` need `~EventCond`: with the events of NT the first
  does not hold (section 5).
* `ThreadPoolProof`: `TypeCorrect`, `CountsTheorem`, `FreedTheorem`, `PendingTheorem`,
  `BacklogTheorem`, `QueueTheorem`. `destroy` looks at one number; that nobody uses the
  pool it frees follows from the exactness of that number, from `InTask` (a worker
  submits only from inside a task, so it is open) and from `ClientsOut` (the assumption
  about the application). `NoIdleBacklog` is strengthened by `DestroyWakes`: only when
  nobody sleeps any more may a thread leave tasks behind. `PendingTheorem` and
  `QueueTheorem` (the refinement of `TaskQueue`) have the assumption that threads can be
  created, without which neither the count nor the promise holds (section 5).
* `TransportProof`: `SocketsTheorem`. `Accounted` alone is not inductive: a close must
  not hit a socket that is something else, so the invariant has where a socket is being
  connected (`Stage`), which one does not block (`Blocking`), and which layers a Sockbuf
  has that has lost no descriptor (`Layers`), with one layer of a socket at most, which is
  why its descriptor is closed once (`Tidy`). It holds whatever is exchanged over the
  connection, because the exchange changes none of this. Of the build for OS/2, whose
  connect leaves `O_NONBLOCK`, it says all but the blocking mode.

* `ReferralsProof`: `TypeCorrect`, `CountTheorem`, `TreeTheorem`, in both versions, with
  any mixture of LDAPv3 and LDAPv2 referrals, any faults and any lists of URLs.
  `CountExact` is not inductive alone. The invariant `Core` adds what the counts depend
  on: a request that is not there is blank, and its id is not drawn again (`Blank`,
  `Drawn`, `NewIds`); ids grow from parent to child and every line of parents ends at
  the operation (`Tree`); all chases but the innermost wait for a bind, and each is in
  the count of what it sends for (`Nested`, `LrHeld`, `Counts`); a request that is
  chased as a whole has had its answer and gets no second one (`Finals`, `Open`); a
  request below the operation has children only once the LDAPv2 referral it ends with is
  chased (`Grown`, `Followed`), and one that ends in an LDAPv3 referral has none, since
  they go to the operation (`Barren`): so the walk up the parents never passes a request
  that stays outstanding for ever. The longest steps are `EndedCount`, by which the walk
  up the parents in `try_read1msg` keeps every count on its way exact, and
  `ReconnectStep`, in which a bind counts for a child that does not exist yet. The
  recursive function `Above` is first shown to be what it says (`AboveIs`), from ids
  that grow, and the least request that the walk reaches to exist (`Least`).
* `ChaseProof`, on top of these: `QueuedTheorem`, `OnceTheorem` and `ConnsTheorem`.
  `Smooth` says of a session without faults that a connection is being bound only while
  a chase waits for it, and that a queued list has its chase to come: one that waits
  there or the innermost, which is about to send there, unless it was left by the chase
  of an LDAPv2 referral (`LeftIn`). The theorems are stated by the kinds of referrals
  received, and `Styled` ties `styles` to the chases in progress and the requests that
  ended. `Once` needs `Hops`: with LDAPv3 referrals alone an operation has the hop count
  0 and every child 1, so that with a limit of 0 nothing is followed and above 1
  everything is. With 1 an operation is told of once for every child that is itself
  referred, which is why `OneFinal` excludes that limit; with LDAPv2 referrals alone
  nothing is passed on. `ConnsTheorem` (`ConnsHeld`, with any faults) counts the users
  of a connection as the code lets them go (`Using`: requests that are neither complete
  nor abandoned, a bind only while its answer can come; `Held`: the chase that binds
  it). `Weighed` says that `lconn_refcnt` is at least their number, and equal while
  nothing was referred or abandoned. Neither is inductive without `Sole` (one chase at
  most binds a connection), `Reserved` (without LDAPv2 referrals a connection that is
  being bound is used by its bind only, because others queue there: closing it after a
  failed bind takes it from nobody), `Faultless` (a bind fails only after a fault) and
  `Gone` (what was abandoned belongs to an operation that is over, and no chase works
  for it).

* `CacheProof`: `FaithfulTheorem` and `AnswersTheorem` (`AnswersTrue`), with the
  assumption `Pauses = FALSE`, as the run: a cache that is disabled with a request under
  way and enabled again answers from an incomplete chain (section 5). `Faithful` follows
  what an answer will be made of: nothing waits in a cache that is disabled (`IdleOK`);
  what a request under way has collected is what the server has said so far, each of
  another operation that runs and that nothing has taken back (`WaitingOK`); and a kept
  answer is that of an operation that has ended, of the same age, until it is older than
  every timeout (`SaidOK`). That an uncache call takes an operation back exactly when it
  takes its message out holds because whether a DN is in a message depends on its
  request and chain only, which the two share. The lemmas about `Pick` and `RemoveAt`
  (what is left was there, and at as many places) stand for all lists; that the place
  `At` chooses exists is shown with the least number up to which enough are counted.
* `CacheProof`, second part: `MemusedTheorem` (`MemusedExact`) and `LimitTheorem`, also
  with caches that are disabled and enabled again, for any timeouts and limits. The
  invariant `Counted` says that the count is exact (`Exact`) and why no sum leaves its
  range: an operation has at most `MaxEntries` responses before its last (`ShortOps`), a
  request under way has collected no more than its server has said (`ShortWaits`), and no
  two messages of the buckets and no request under way share an id (`ShortSaid`). So each
  id accounts for a bounded number of pieces, and `CountAssumption` bounds their sum. That
  a removal subtracts just what leaves rests on lemmas about lists: what `Pick` keeps and
  what it leaves out share no piece and together are the list (`PickedOut`, `TakenOut`),
  so their sizes add up, by cardinalities of disjoint sets (`UnitsAdd`). The two parts of a
  step, the bucket and the count, meet in arithmetic modulo `Width`. `LimitTheorem` says
  that, without stray subtractions, the count outside the loop is within two thirds of
  the limit, if two thirds of any limit above `sizeof( LDAPCache )` are at least that
  size; section 5 says what happens between.

* `OptionsProof`: `BlocksTheorem` (`BlocksExact`), for any configuration, any number of
  sessions and calls, with the assumption `GlobalTimeouts = FALSE` that the property needs
  (section 5). Between two steps of a call the structures are not in order: the old
  block of a field is gone and its pointer still there. `Sound` therefore leaves some
  fields of one structure out of account: releasing the block of a field adds the field
  (`ReleaseSound`), storing another block takes it back (`StoreSound`), and a session
  whose fields are all left out can be dropped (`FreedSound`). So what the calls share is
  proved once, and each call is a chain of these. `Quiet` says that the global structure
  has no timeouts and nothing that belongs to a session, so that a new session copies no
  pointer but those of its own list of servers. What a configuration leaves is `Sound` by
  induction on the number of settings read (`ReadIs`, `RunsSound`).
* `OptionsProof`, second part: `OptionsSpecTheorem` (the structures implement
  `OptionTable`), with the same assumption. Each step of a call changes what is seen of
  one field and of no other (`Changed`), because no two pointers share a block; so a
  call is one change of a row (`SetsStep`), or the copy of the global row with the port
  and servers of the new session (`OpensStep`). Before the first call, the table is what
  the configuration says: `RunField` shows, by induction on the settings read, that a
  field has the value of the last setting that is for it, and `PortIs` that a list of
  hosts was read with the port set before it.

*Only model-checked*: what needs fairness (`WaitEnds`, `EveryWaiterServed`,
`EveryTaskEnds`, `DestroyEnds`, `OperationsEnd`, `ConnectEnds`, `RepliesRead`,
`ReduceEnds`), which the prover does not reach; what folds and recursive definitions
compute (`StreamsExact`, `AvlTree`, and all modules under `Codecs`), which needs
induction over data.

## 5. Code against documentation

`referral_hops` is a run whose counterexample is the evidence. A version 3 child counts
in the operation (`request.c:721`), but a child that is itself referred leaves
`try_read1msg` without counting down (`result.c:571`): the count of outstanding
referrals (`ldap-int.h:198`) stays above zero, and the operation never ends. The hop
limit does not help: every child's `lr_parentcnt` is 1.

The others are modelled as the code has them, and the properties that would contradict
them are stated with the condition named:

*In the sessions*

* `ldap_abandon` of an operation with queued responses deletes those and, unless the
  last of them is a search entry, returns success without abandoning (`abandon.c:132`,
  `result.c:908`): a search whose queue ends in a reference goes on and is delivered.
  The manual page says it will not be. (`AbandonedQuiet` is about ids that were really
  abandoned.)
* A list that was queued during a bind is followed for the operation that did the bind,
  not for the one it belongs to (`request.c:755`). The comment at `request.c:652` thinks
  of two references of one search. An operation whose own referral was queued that way
  never ends (`strayed` in `OperationsEnd`).
* A referral in the error string of a result is chased in a session of version 3 too, by
  `ldap_chase_referrals`, which does not look whether the connection is being bound
  (`request.c:880`): the request goes out before the bind that `request.c:733` protects,
  and when that fails its connection is closed under the request (`request.c:328`,
  `Refused`). A connection that it binds itself never takes up what is queued there.
  (`MustQueue`, `CutOff`, `left`.)
* Everything that is not a search entry or an unchased reference completes its request
  (`result.c:530`, `Completes`), an extended partial response too, and what follows it
  is tossed; the comment at `result.c:79` says that partial responses may be returned
  for any request.
* With `LDAP_RES_ANY` and all messages wanted, the walk stops at the first operation in
  the list even when that is incomplete (`result.c:177`, `Candidates`), although a
  complete one may stand behind it; `result.c:71` says that any message will be
  accepted.
* A message with id 0 has no request and is tossed (`result.c:415`, `Toss`), though
  `result.c:72` says that a caller for `LDAP_RES_UNSOLICITED` gets it.

*In libldap_r*

* On NT a broadcast wakes one thread; a leaving writer leaves the other readers asleep
  on a free lock (`EventCond`). The comment at `tpool.c:305` knows of the broadcast.
* The back-out of a submission increments the count it means to decrement
  (`tpool.c:222`).
* Two submissions whose threads cannot be created take each other's for an existing
  thread (`tpool.c:214`); one task is accepted and nobody is there to run it.
  `tpool.c:228` says that there is another open thread.
* The back-out takes whatever context has the address of its own off the list, also when
  that has been run and freed and the address given to another submission
  (`tpool.c:217`).

*In the transport*

* A server whose TLS fails leaves its socket in the Sockbuf, where the next server's
  overwrites it (`open.c:335`); if it was the last, the session's next request finds a
  descriptor and takes `ld_defconn`, which is NULL (`request.c:88`): `Retry` goes to
  "undefined". A TLS layer that a failure leaves is used again on the next socket, and
  each further server adds its own layer of a socket, each of which closes the descriptor
  when the Sockbuf is freed (`sockbuf.c:362`, `again`). A path that is too long leaks its
  socket (`os-local.c:206`).
* On OS/2 the connect leaves the socket non-blocking after its wait
  (`src/src/os-ip.c:271`), though nobody asked for that.
* A write that would block is taken for a dead server (`request.c:203`; going on later is
  there, under "notyet"): the request is freed and the caller told
  `LDAP_SERVER_DOWN`, but its first octets are on the wire, and the server takes the next
  request for the rest of it (`WouldBlock`).
* The parts of a SASL packet's length are all read to the start of the buffer
  (`cyrus.c:200`), so a length that comes in parts is wrong, and the connection fails or
  waits for octets that never come (`torn` in `RepliesRead`).
* A SASL packet that is written in part: the layer says that nothing was taken, which is
  taken for a failure as above, and the rest of the packet stays to go out before the
  next request (`cyrus.c:277`). That needs a socket that does not block, which `MCModes`
  has only without SASL. There `sb_sasl_read` also loses octets it has copied when the
  next packet is not complete.
* A caller that blocks in a read outlasts its timeout, and the remaining time is kept in
  whole seconds (`result.c:315`).
* The further octets of a long tag are all read to the same place (`io.c:479`);
  `StreamsExact` compares tags of one octet, and bodies always.

*In the cache*: disabled with a request under way and enabled again, it takes the rest
of the responses for the whole (`cache.c:255`, `cache.c:387`;
`doc/man/man3/ldap_cache.3:79` says that new requests are not cached and the contents
are kept). `Pauses` allows it; `AnswersTrue` is checked without. Requests that are
uncached while under way are subtracted from a count they were never in (`cache.c:183`,
`strays`). With an `lc_maxmem` above `sizeof( LDAPCache )` but below one and a half times
that, the loop of `check_cache_memused` goes on when nothing is left to remove
(`cache.c:636`), and never ends: the comment above it says that it reduces the cache to
two thirds of the limit. `ReduceEnds` is checked, and `LimitTheorem` stated, for limits
whose two thirds leave room for the empty cache.

*In the options*

* The session's copy of the global structure keeps the pointers of the two timeouts
  (`open.c:144` names the items that must not be shared): every session that ends frees
  them again (`GlobalTimeouts`). The controls of a session are never freed.
* A line of a file is read in pieces of 127 characters, and the next piece, also of a
  comment, is taken for a line (`init.c:128`). An empty list of hosts makes
  `ldap_create` fail. What was parsed of a list of hosts before an error is never freed
  (`url.c:735`, `options.c:491`; what was of a list of URLs is, `url.c:679`): `Leak`.
  NULL for a list of hosts is refused, though the lines below handle it
  (`options.c:431`).

*In the encoders and parsers*, each as the model has it:

* the criticality of a response control is inverted when read (`controls.c:196`), which
  `Messages` leaves out of its comparison (`Named`); a last control without a value is
  taken for an error;
* `ldap_search_ext_s` does not look at the result behind a chain that begins with a
  reference, and does not abandon after a timeout, which `ldap_search_st` does;
  `ldap_extended_operation_s` refuses a chain that begins with a partial response;
  `ldap_delete_ext_s` returns `ld_errno`; `ldap_sasl_bind` returns -1 for an encoding
  error;
* the walk of `ldap_get_values` does not know where the attributes end;
  `ldap_sort_entries` counts entries but takes messages from the head;
* `ldap_syntax2str` does not print names, and a definition with neither OID nor fields,
  where an OID may be missing, takes its closing parenthesis for one (`schema.c`);
* a newline is counted as a separator of sort keys but does not separate
  (`sortctrl.c:107`);
* a filter may be empty, `!` may have two filters, and two filters may stand side by
  side (`search.c`);
* of a file, the last line is not returned without a newline and a carriage return stays
  in the last token (`dsparse.c:125`); patterns of filter files are compiled as basic
  expressions when read and as extended when used (`getfilter.c:124`); "%v" takes any
  digit, also for words that are not there (`getfilter.c:372`); of a quoted friendly
  name only what follows the closing quote is kept (`friendly.c:68`);
* SRV ports above 32767 are printed as negative numbers (`dnssrv.c:277`) and priorities
  are ignored; the lists of hosts and URLs are written without escapes (`url.c`); base
  64 in `ldif_parse_line` may begin with "=".

## 6. What is left out

* *In the sessions*: the merging of error codes and referral texts (`merge_error_info`);
  a rebind procedure of the application; several ready connections in one round of
  `wait4msg`; allocation failures; time (a timeout may strike whenever nothing
  acceptable is queued). A server is assumed to send responses only to requests, in
  order, the final one last. `LdapResult` and `LdapReferrals` have no cache: it answers
  before a request is sent, and what it answers is queued as if it had arrived.
* *In the transport*: the select sets, Kerberos name lookup, the datagram and debugging
  layers; of TLS everything but the layer and the outcomes of the handshake, and of SASL
  the negotiation of a layer.
* *In the cache*: the spreading of requests over buckets, other than that two share one.
* *In the options*: those of TLS and SASL; of `LDAP_OPT_API_INFO` only that it cannot be
  set.
* *In the codecs*: characters that mean nothing to a function are not told apart;
  regular expressions are a table (`Extended`, `Basic`), and so are `strtol` and case
  folding; the fetching of URLs in LDIF is a table of files; memory is left out, except
  in `SyncCalls` (who frees a chain).
* *In libldap_r*: failures of mutex and condition variable calls; `SignalObjectAndWait`
  of NT is taken to be atomic, as its documentation says; an application that destroys a
  pool while one of its own threads is inside `submit`, or a lock that it still uses.
  The scheduler for LWP threads (`thr_lwp.c`) is not modelled.
* Not modelled, with the reason in `PROJECT.json`: the layout of entries (`tmplout.c`:
  wording and HTML), OpenSSL's contexts and certificates (`tls.c`), the database wrapper
  (`ldbm.c`: one library call per function), digests and password checks (`liblutil`),
  the reentrant wrappers (`util-int.c`), the copies for OS/2 of files that are modelled,
  and the test programs.

## 7. Plan

What is left to model: `merge_error_info`, which decides what the application learns of
several failures; several ready connections in one round of `wait4msg`; the sleeper table
and stacks of `thr_lwp.c`.
