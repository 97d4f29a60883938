# TLA+ specifications of libzmq and its data server

This directory holds a formal model of libzmq 4.1 as it is in `src/libzmq/src`,
and of the data server built on it in `src/zguide/examples/gDataServer`: TLA+
modules for their components, TLC configurations that check them on small
instances, and TLAPS proofs for the parts everything else stands on. File names
without a path are in `src/libzmq/src`. `PROJECT.json` maps every definition to
the lines it models.

Contents: 1 the system, 2 modules and code, 3 runs, 4 proofs, 5 what the checks
found, 6 what is not modelled, 7 plan.

## 1. The system

An application uses *sockets*, each from one thread at a time. A socket
exchanges messages with *sessions*, which live in I/O threads and feed
*engines* (one per network connection), or with other sockets directly
(inproc). Threads share no locks on the data path. They share lock-free queues
for messages, and everything else is a *command* in the mailbox of the thread
that owns the destination object.

| Component | State | Operations | Hard behaviours |
|---|---|---|---|
| `ypipe_t` | pointers w, f (writer), r (reader), shared c | write, unwrite, flush, check_read, read | compare-and-swap races, sleeping reader, incomplete items |
| `ypipe_conflate_t`, `dbuffer_t` | two buffers, a lock | write that may not get the lock, check_read, probe, read | what happens between check and read, the last item |
| `mailbox_t`, `signaler_t` | command pipe, mutex, active flag, eventfd | send, recv with timeout, destruction | signal sent after unlock, interrupted waits, destruction during send |
| `msg_t`, `metadata_t` | content, flags, two reference counters | init, copy, move, close, add and remove references | copies and closes of one content in several threads |
| `pipe_t` | per end: state, two ypipes, activity flags, water marks | read, write, rollback, flush, hiccup, terminate, five commands | both ends terminate at once, delimiter against command, hiccup replaces a ypipe |
| `lb_t`, `fq_t`, `dist_t` on `array_t` | array of pipes, boundaries, cursor, more | send or recv one part, attach, activated, pipe_terminated | pipes come and go between two parts of one message |
| `own_t`, `object_t` | owned set, sent and processed seqnum, term_acks | launch_child, term_child, terminate, process_* | requests cross, late commands to objects being deleted |
| `ctx_t`, `reaper_t` | sockets, endpoints, pending connections, flags | create_socket, terminate, shutdown, inproc tables, reap | all of it in concurrent threads, EINTR, no free slot |
| `session_base_t`, connecters | pipe, terminating_pipes, engine, pending, linger timer | attach, engine_error, reconnect, process_term, timer | connection lost during linger, reconnect while closing |
| `stream_engine_t` | handshake and decoder state, input stopped | in_event, out_event, restart_*, error | back-pressure in the middle of a batch |
| codecs v1, v2 | step, buffers | encode, decode | chunk boundaries, length fields |
| mechanisms NULL, PLAIN, CURVE; ZAP | handshake state | next and process handshake command, zap reply | replies late, out of order or missing |
| REQ, REP, ROUTER, DEALER | current pipe, identities, prefetched message | xsend, xrecv, attach, terminated | peer lost between request and reply, duplicate replies |
| XPUB, XSUB, `trie_t`, `mtrie_t` | subscriptions, pending notifications | subscribe, unsubscribe, match, send | subscriptions dropped at the water mark, pipe lost during a walk |
| data server: broker, workers, clients | three tables of workers, queued requests, liveness | READY, request, reply, heartbeat, disconnect, retry | late replies, restarts, requests for workers that are gone |

What must hold, in one line each: nothing published is lost, repeated, reordered
or torn; a sleeping thread with work is woken; a message goes to one peer as a
whole and its content is freed once; nobody refers to a deleted object; every
assertion in the code holds; flow control bounds queues and never blocks for
good; a reply answers the request that was made; a subscriber gets what it
subscribed to; `zmq_ctx_term` returns once the sockets are closed, up to the
linger period.

## 2. Modules and how they correspond to the code

```
BatchQueue <--implements-- YPipe --steps of--> Mailbox
     |                                             |
     +--- ypipe of ---> Pipe <--- mailbox of ------+
                         |                         |
      Msg                +-> Session          Own, Context
       |                 |      |
   OutPipes, PipeArray <-+      +-> Engine --bytes--> Codec
   LoadBalancer, FairQueue, Dist
       |                            Conflate: a Pipe on a dbuffer_t
       +-> ReqRep, PubSub (Trie, Subscriptions)
               |
               +-> DataServer
```

An arrow that leaves a module goes to one that relies on what it shows.

- **BatchQueue**: what `ypipe_t` promises its users. A FIFO with batches,
  unfinished items that are never published, and a sleeping reader.
- **YPipe** (`ypipe.hpp`): pointers are positions. An action is one access to
  `c` together with the thread-private accesses that follow it. The failed CAS
  of `flush` and the store after it are two steps. It implements BatchQueue.
- **Conflate** (`ypipe_conflate.hpp`, `dbuffer.hpp`, under `pipe.cpp`): a pipe
  with the conflate option. Items are numbered as they are written, the last
  one is the delimiter. The reader's calls are split at the lock; the writer's
  time with the lock is one step, since the reader can only wait for it.
- **Mailbox** (`mailbox.cpp`, `signaler.cpp`): the command pipe *is* YPipe. Each
  step of a sender or the receiver performs a step of an instance of YPipe on
  the same variables. `send` is write, flush, unlock and signal; `recv` is the
  active path, the wait (with timeout and EINTR) and the read after the signal.
  The eventfd is external, as `signaler.cpp` uses it.
- **Msg** (`msg.cpp`, `metadata.cpp`, with `dist_t::distribute` and
  `socket_base_t::send` around them): messages are slots that belong to a
  thread, or to a pipe between two. Each method is split at its operations on
  the counter of a content and on that of metadata.
- **Pipe** (`pipe.cpp`): both ends, each in its own thread. Ypipes are
  BatchQueues in a heap, so that deletion and hiccups are visible; mailboxes are
  FIFOs. Every method and command handler is an action. What the owners may do
  (delays, readers, hiccups, message kinds, water marks) is fixed per behaviour
  in `setup`. In some setups the pipe is that of an inproc `connect` before the
  `bind`: `connect_inproc_sockets` reads the identity away and sets the final
  water marks, in the binder's thread, while the connecter writes.
- **PipeArray** (`array.hpp`), **OutPipes** (`pipe_t` as its writer sees it),
  **LoadBalancer** (`lb.cpp`), **FairQueue** (`fq.cpp`), **Dist** (`dist.cpp`,
  with `xpub_t::xsend` and `xsub_t::send_subscription` as its callers). The
  handlers of pipe commands run between any two calls of the user, also between
  two parts of a message. **MCSchedulers** picks one of these, or Msg, at the
  start of a behaviour.
- **Own** (`own.cpp`, `object.cpp`): a tree of objects over several threads.
  `launch_child` is two steps, because its two commands go to two mailboxes.
  An object's address is reused after its deletion.
- **Context** (`ctx.cpp`, `reaper.cpp`, the life cycle part of
  `socket_base.cpp`): each application socket has a thread; what a mutex
  protects is one step; `connect` and `bind` are several. A thread runs
  `terminate ()`, another `shutdown ()`, and the reaper has its own. Objects
  below a socket are left to Own.
- **Session** (`session_base.cpp` with the parts of `pipe.cpp`, `own.cpp` and
  `socket_base.cpp` it interacts with): socket, session and connecters in three
  threads. Methods are operators on the whole state `w`, since they call each
  other; the actions apply one of them per command, event or call. It assumes
  from Pipe that readers are woken, and from Own that launching is atomic.
- **Engine** (`stream_engine.cpp`, `null_mechanism.cpp`, `plain_*.cpp`,
  `curve_*.cpp`): two engines with their sessions' pipes, or one and a scripted
  older peer, over a stream of units. An engine is a record `w` and the handlers
  are operators on it, as in Session. ZAP replies come at once, at any later
  time, or never. The pipe to the socket counts what is written and read as
  `pipe.cpp` does: identities on neither side, credentials only when written.
- **Codec** (`encoder.hpp`, `decoder.hpp`, `v1_*.cpp`, `v2_*.cpp` and the
  buffers of the engine): the same stream in bytes, cut anywhere.
- **ReqRep** (`req.cpp`, `rep.cpp`, `router.cpp`, `dealer.cpp`): REQ, REP,
  ROUTER and DEALER sockets over connections that break. The client keeps its
  pipe over a reconnection, the server gets a new one; which pipe `lb_t` and
  `fq_t` pick is any choice, LoadBalancer and FairQueue being checked on their own.
- **Trie** (`trie.cpp`, `mtrie.cpp`) as operators on nodes with their tables,
  **Subscriptions** (a sequence of operations on them against the bag of
  topics), and **PubSub** (`xpub.cpp`, `xsub.cpp`, `pub.cpp`, `sub.cpp`): a
  publisher and subscribers; `dist_t` is a set of pipes here, and credit is
  processed at once.
- **DataServer** (`mdbroker_GDS.cpp`, `mdcliapi.hpp`, `mdclient_GDS.cpp`,
  `mdwrkapi_GDS.hpp`, `mdworker_GDS.cpp`): broker, workers and clients over
  sockets that lose what is in them when they are replaced. A socket is a
  number. Its identity is drawn after `srand (time (NULL))`, so that sockets made
  in one second get the same one, and the broker's ROUTER ignores all but the
  first; time passes in heartbeat intervals (`Tick`).
- **MCPipe**, **MCSchedulers**, **MCPatterns**, **MCEngine** run several
  modules in one: a behaviour is that of one of them, chosen by `use`, and the
  variables of the others keep their initial values.

Mutants (definitions marked *(mutant)*) are deliberately wrong variants of the
definition below them. They show that a property can fail: with the mutant in
place of the original, TLC finds the property violated.

## 3. Runs

`tlc -config X.cfg M` for the module and configuration named in `PROJECT.json`.

| Run | What it asks | Instance | States |
|---|---|---|---|
| pipe | pipe: no dangling or leaked ypipe, handlers' assertions, no lost wakeup, flow control bounded and released, streams intact, pending messages read, termination completes. Queue: pointers stay live, a sleeping reader has drained it, items are not split, every step is a step of BatchQueue. Mailbox: sleeps and wakeups match, commands arrive once, in order, and all of them. Conflating pipe: the newest item is offered, once, to a reader that is awake or about to be | both ends close, a session hiccups, a stream of two-part messages of all kinds; water marks 1, 3 and 5 filled and refilled, with and without a credential; a late bind that raises water marks of 1 and 2 to 3 or 5, or takes the limit away. Two payloads, terminator up to position 5; two senders of three commands each; three messages and the delimiter | 147 thousand |
| schedulers | regions of the array match the pipes, messages whole, round robin, `last_in` valid, `dist_t` leaves nobody out; a content is freed once, by its last holder | three pipes (symmetric), two parts, high water mark 1 or 2; two threads with one and two messages, one content, one engine | 285 thousand |
| own | no command to a deleted object, a request means its sender, owners outlive the owned, assertions, the tree is torn down | a socket and two addresses below it in two I/O threads; three launches and one request, or two of each | 533 thousand |
| context | deleted sockets are forgotten, no connection waits for a bound address, every socket is told of termination, done means done, `zmq_ctx_term` returns | two application sockets, two PAIR sockets for pending connections, four budgets | 391 thousand |
| session | nothing dangles, assertions, infinite linger honoured, a closed socket gets rid of its session | two connecters, up to two messages of one or two parts, twelve option sets | 543 thousand |
| patterns | a reply goes to who asked and answers the last request, every request is answered unless the network or a full pipe lost it; tries equal the bag of topics, the publisher tells its user and sends exactly what it should, subscriptions converge; data server: tables agree, no request is in two places, what reaches a client answers the last request of its socket, every worker is available again and the client is done | REQ and REP in seven setups with one or two broken connections (none with a DEALER), water mark 1, two requests of two parts; two subscribers, two topics, water marks 2; tries over eleven topics with at most four wanted; one or two workers, one client, four kinds of call, eight setups of what goes wrong, liveness 2 and retries 2 (3 in the code) | 351 thousand |
| engine | streams intact, assertions of the handlers, nothing before authentication, the connection ends up working or closed; the decoder returns what was encoded | thirteen setups of peers, mechanisms and trouble, two units on the wire, batches of two, water marks 1 to 3; three messages of 0 to 8 bytes for batches of 5 and size fields of 2 | 287 thousand |
| pipe_hiccup_term, pipe_late_bind, conflate_termination, context_shutdown, data_server_stale | one statement of the code or its documentation each, which TLC refutes (section 5) | | |

**Bounds.** Each is named in its module and only limits how often something
happens, never the order. They are chosen so that the races occur: the queue
wraps through several sleeps; each sender can overtake the other; a pipe can be
terminated twice by each owner with messages pending both ways; a third pipe can
be swapped into the place of the second while the first is current; an address
is reused; two connections pend while a bind and a termination run; an engine
fails and is replaced once; a connection breaks with a request or half a reply
on it; a message is longer than a batch, and its size needs the long form; a
worker expires while its reply is on its way; credit comes in steps of one, two
and three, and both branches of `compute_lwm` are taken (`MaxWmDelta` is 2, 1024
in the code). Where a bound could hide a case
(more than one reconnection, three-deep reuse) the module is parameterised and
the bound can be raised at the price of time.

**Deadlock** is not checked where the system may stop by design: a mailbox that
is destroyed, a pipe that is closed, a context that is terminated, an
application that does nothing more. What must not stop is stated as a liveness
property there.

**Fairness.** Weak fairness, for steps that a running thread takes by itself:
an I/O thread processes its mailbox (`io_thread_t::in_event`), a call that has
started goes on, the reaper runs, an engine with an attached pipe sends what
there is, a set timer fires. In Own, ReqRep, PubSub, Engine and Codec, whose
behaviours are finite, the same is stated as `[]<>AtRest` or `[]<>Idle`: what has
work to do comes to rest. Nothing is assumed of the network: connections need
not be made and may fail at any time, as often as the bound allows. Beyond that:

- mailbox: strong fairness of receiving a raised signal, since a wait may be
  interrupted but not each time;
- pipe: the property about termination assumes readers only where it names them
  (`Readers`); a reader that never calls is a socket nobody uses;
- context: the application closes a socket that has answered ETERM; `terminate ()`
  waits for the reaper to close all the sockets, and only `zmq_close` hands it
  one;
- data server: time passes (`[]<><<Tick>>_vars` in DataServer; in MCPatterns the
  same, as the broker's becoming due and being served again and again), and
  between two ticks everything that can be delivered is, but for a bounded number
  of times.

**Premises of the liveness properties.** `TerminationCompletesIfRead` requires
readers on both ends and no hiccup (with one it is false: pipe_hiccup_term).
`HangsOnlyForPending` names the one reason for which `zmq_ctx_term` waits for
ever: a connection pended after `terminate ()` has copied the table.
`HangsOnlyForMessages` allows a wait with infinite linger and messages left, and
leaves out behaviours that abort and a disconnected ZMQ_IMMEDIATE session; both
are described in section 5. `EveryRequestAnswered` leaves out a client's latest
request in three cases: its connection broke after the request had left the REQ's
pipe; an earlier reply filled the reply pipe when the REP read it; or just before
it the REP had discarded a malformed request whose own reply pipe was full or gone
(`rep.cpp:88`, section 5). A discarded request of a client whose pipe is there
must leave the REP as it was. `ServiceRestored` counts a client
whose process an assertion has ended as done. `FlowControl` names the two cases in
which a writer stays without room, see section 5.

## 4. Proofs

`tlapm X_proofs.tla` checks each of the eight proof modules. A theorem holds for
every value of the constants that satisfies the named assumption of the module it
is about; none of them bounds the number of threads, sockets, messages or calls.

| Theorem | Says | Assumption |
|---|---|---|
| YPipe_proofs: `PointersStayLive`, `SleepIsSound`, `ItemsStayWhole` | the invariants of run pipe about `ypipe_t` | none |
| YPipe_proofs: `Refinement` | `ypipe_t` implements BatchQueue | none |
| Mailbox_proofs: `SleepsAndWakeupsMatch`, `ReceivedInOrder` | no wakeup lost or doubled, commands of a sender once and in order | `MaxSends`, `MaxCommands` in Nat |
| Conflate_proofs: `OffersTheNewest` | the conflating pipe offers the newest item, once, to a reader that is awake or about to be | `MaxMessages \in Nat` |
| MsgCounts_proofs: `CountersExact`, `MsgSafety` | reference counts equal references; freed once, by the last | `MsgAssumption` |
| PipeShared_proofs: `PipeSharedSafely` | no dangling, leaked or doubly used ypipe, no unexpected command, no lost wakeup | `PipeAssumption` |
| Context_proofs: `TerminatesWhenDone`, `NobodyWaitsForBound`, `DeletedAreForgotten` | the three safety invariants of run context | `ContextAssumption` |

**How they are built.** One lemma per action shows that it keeps the inductive
invariant, with one step per conjunct the action can disturb; the theorem joins
them with PTL. Facts about finite sets come from FiniteSetTheorems. Its many
theorems slow the provers down when all of them are in the context, so lemmas
assume the few they need as one named formula, `CardFacts` (module FiniteFacts),
and the last section of the module proves it from an instance of the library.
`LeastFact` (a set of numbers has a least one) is treated likewise. The theorems
themselves assume nothing of this kind.

**YPipe_proofs.** None of `PointersLive`, `AsleepMeansDrained` and `NeverSplit` is
inductive alone; their conjunction with `TypeOK`, `Inv`, is. That `c` is `w` or
NULL needs that the plain store after a failed CAS overwrites NULL, which is
AsleepMeansDrained; this in turn needs front <= w when `check_read` finds
`c = front`; NeverSplit is about the item before `w`, `f` and `r`, and a flush
moves `w` to `f`, `check_read` moves `r` to `c = w`. The refinement reads the
published items off positions `front .. w - 1`, the unpublished ones off
`w .. back - 1`, and `asleep` as `c = NULL`. Lemmas about `Cut` (the items between
two positions) turn arithmetic on positions into operations on sequences. Both
kinds of flush are the abstract `Flush`, at the step that moves `c`; a failed CAS
stutters; `check_read` is `Sleep` or stutters.

**Mailbox_proofs.** Its steps are steps of YPipe, so the lemmas of YPipe_proofs
hold for the command pipe through INSTANCE. The invariant adds that one thread at
most holds the mutex, that the receiver is awake, asleep with no signal, or being
woken by exactly one sender or signal, that what was sent and not received is
what the pipe holds, in the order of sending, and that after the destruction
nobody is left in `send`.

**Conflate_proofs.** `ConflateInv` gives, for each point of the reader's calls,
what the two buffers hold in terms of the numbers of the items written.

**Msg_proofs, MsgCounts_proofs.** `MsgInv`: the counter of a content is the number
of message slots that refer to it, plus what `add_refs` has taken in advance and
not yet handed out, minus what a step in progress has still to take off; and the
same for metadata with its engine. The first module shows what the counted sets
become in each action, the second that the counters follow. Freed once by the
last holder is a consequence: a counter at zero has no references.

**Pipe_proofs, PipeShared_proofs.** `SharedInv`: for the pair of states of the two
ends, which commands can be on their way (`Handshake`), in which order
(`InSequence`), which ypipes a hiccup has replaced (`Replaced`) and that the
replaced ones are there until the command that brings the new one is processed
(`Kept`). The lost wakeup needs `Sleeping` on top: a reader asleep on its ypipe
means an empty one or an `activate_read` on its way to this end.

**Context_proofs.** `ContextInv` ties the reaper's mailbox to the life of the
sockets: each is handed over once (`ReapsClosed`), stop is sent once, when the
list is empty for good (`StopsOnce`), and done is reported once (`ReportsOnce`).
`NoneWaitsForBound` is inductive, given the types. `CountsInv` adds what
`DeletedIsForgotten` needs: who is used is open, the pipe of a call is its
caller's newest and is not pending, and nobody knows a socket that does not exist
(`NewAreUnknown`); each action then moves a command from one of the three sums
(mailbox, calls, pending) to another. Only the sets that are counted need to be
finite, and that is part of the invariant; `Sockets` is arbitrary.

**Only model-checked**, and why:

- all liveness (fairness and ENABLED are beyond the prover);
- Trie, Subscriptions, PubSub, Codec, Engine and DataServer use RECURSIVE
  operators, without which they would not read like the code, and the prover has
  no arithmetic in such modules; what their recursions compute would need
  induction over data;
- `FlowControl`, `StreamIntact` and the other properties of Pipe, the arrays of pipes
  (PipeArray, LoadBalancer, FairQueue, Dist), Own, Session and ReqRep: within
  reach, not proved yet.


## 5. What the checks found

Most properties hold. Where the code disagrees with its own comments or
assertions, a violation run shows it:

- **pipe_hiccup_term** (`pipe.cpp:268`). A session hiccups while its socket
  terminates the pipe. The delimiter was written into the ypipe the hiccup
  throws away, and an end waiting for it waits for ever.
- **pipe_late_bind** (`ctx.cpp:529`). A socket that connects by inproc before the
  bind may fill the pipe. The bind changes the water marks of both ends and
  nothing else: `out_active` stays false, and a binder without a limit leaves a
  reader with LWM 0, which sends no credit. The pipe is unlimited and empty, and
  its writer stopped for good. With a limit, a writer can likewise stay stopped
  until the reader gets a multiple of the new LWM, which the messages left in the
  pipe need not reach (`StoppedUnbound`, an exception of `FlowControl`).
- **context_shutdown** (`ctx.cpp:119`). `zmq_ctx_shutdown` and then
  `zmq_ctx_term`, with an inproc connection pending: `create_socket` refuses and
  `terminate ()` uses the NULL it returned.
- **conflate_termination** (`dbuffer.hpp:77`). The writer gives up the swap while
  the reader looks; for the delimiter there is no later write to make up for it.
  In the same way the last message of a conflating pipe can be the one that is
  never seen.
- **data_server_stale** (`mdcliapi.hpp:175`). A client that has given up keeps its
  REQ socket. The next call's request is refused with EFSM, which nobody looks at;
  the late reply to the call before is returned as its answer.

Others have a property and a configuration, and can be reproduced with
`tlc -config X.cfg M`:

- `CursorFollowsPipe` (MCSchedulersSwitch.cfg, `lb.cpp:58`). With pipes A, B, C
  and a message going to C, the removal of B moves C to B's index and sets
  `current` to 0: the rest of the message goes to A.
- `HalfReadIsRead` (MCSessionHalf.cfg, `session_base.cpp:197`). A socket with
  linger zero closes in the middle of sending a message. The session lets go of
  its pipe, the engine fails before the pipe's acknowledgement, and
  `clean_pipes` asserts that it can read the rest.
- `EndpointHasItsPipe` (MCSessionEndpoint.cfg, `socket_base.cpp:770`). A protocol
  error ends a session and its pipe. `endpoints` still holds the pipe when
  `zmq_disconnect` comes.
- `OldSubscribersHeard` (MCEngineOld.cfg, `stream_engine.cpp:692`). What a
  ZMTP 1.0 peer implies is written to the socket with its first message; a
  subscriber sends none and is never subscribed.
- `HandshakeTimesOut` (MCEngineTimed.cfg, `stream_engine.cpp:661`). The handshake
  timer is stopped before the mechanism's handshake and its ZAP request, so a
  handler that never answers holds the connection for ever.
- `NoClientAborts` (MCPatternsLock.cfg, `mdcliapi.hpp:158`). The reply to a
  locked call names "Map" where the request named "Map.<uuid>", and the client
  asserts that they are equal.

Met while modelling, without a run of their own; the properties that hold are
stated so as to leave them out, and say so:

- `lb.cpp:100`: when the current pipe leaves state active in the middle of a
  message, the next part makes `zmq_assert (!more)` fail (LoadBalancer reaches
  `aborted`), although `has_out` says that the rest can definitely be written.
- `fq.cpp:107`: the same for a half-read message after `zmq_disconnect`; if the
  pipe is removed first, the rest is read from another pipe.
- `xsub.cpp:226`: subscriptions that do not fit stop a pipe that `dist_t` counts
  as eligible; its next credit activates a pipe that is not passive (Dist
  reaches `stray`).
- `own.cpp:76`: a child that runs and asks for its termination before its owner
  has processed `own` is not found, and stays until its owner ends.
- `ctx.cpp:117`: pending connections are copied before any socket is told, so
  one that is made later keeps `zmq_ctx_term` waiting (the second disjunct of
  `HangsOnlyForPending`).
- `session_base.cpp:298`: `zap_connect` counts a command it does not send when
  the peer is neither REP nor ROUTER.
- `session_base.cpp:456`: with ZMQ_IMMEDIATE, a connection lost during linger
  sets `pipe` to NULL and leaves the timer, whose handler asserts `pipe`.
- `session_base.cpp:339`: with ZMQ_IMMEDIATE, an engine attached after
  `zmq_disconnect` while the session is pending gets a new pipe, for which
  nobody asks the session to wait or to end.
- `pipe.cpp:268`: messages dropped by a hiccup stay counted in `msgs_written`,
  so the writer has less credit than its water mark until it is deleted; a
  hiccup between two parts of a message tears it.
- `pipe.cpp:205`: credentials count as written and never as read. With a water
  mark of 1 a credential fills the pipe for good (`CredentialFills`, an exception
  of `FlowControl` and of `ConnectionSettles`: such a connection stays up and its
  server's socket gets no message).
- `msg.cpp:163`: moving or copying a message onto itself would free what it is
  to keep; Msg leaves it out, as no caller does it.
- Engine: the identity message is written with `errno_assert`, which fails if the
  pipe is closing; the NULL mechanism aborts if the ZAP handler goes between
  connect and send; `curve_server.cpp:564` writes the size of a `std::string` as
  the length of an ERROR reason.
- ReqRep: an uncorrelated REQ takes a duplicate reply for the answer to its next
  request (the property about replies says so for REPs that answer once). A REP
  that discards a malformed request whose reply pipe is full or gone keeps
  `more_out` set: the next request's identity is then taken for a later part of
  the dropped reply, and its reply goes nowhere (`rep.cpp:88`, `router.cpp:349`).
- PubSub: `check_hwm` calls a pipe full one message early, so that XPUB_NODROP
  with SNDHWM 1 never sends; PUB never drains `pending`; NODROP set after a pipe
  has become passive still drops; a send refused with EAGAIN leaves its pipes
  marked, and a retry reaches one that has unsubscribed since; a subscription lost at the water mark stays
  lost until the next reconnection.
- DataServer: sockets made in one second get one identity (`srand` with the time
  in seconds), and all but one of them are ignored until they reconnect; a socket
  can also get what was for the one that had its identity before, upon which its
  process ends in an assertion. Requests for an old
  UUID stay queued for ever; busy workers that are gone stay in `m_workers`;
  `mdbroker_GDS.cpp:310` compares where it should assign; `m_services.at` throws
  for an unknown service asked for through mmi.service.

## 6. What is not modelled, and why

Of the modelled components: the forked-child branch, option getters and setters,
monitor events and `choose_io_thread` (no effect on the protocols); the zap pipe
of a session; memory reuse inside `yqueue_t` (YPipe's positions are never
reused, PointersLive is what makes the reuse safe). Memory is sequentially
consistent: `atomic_ptr_t` and `atomic_counter_t` are locked instructions on the
platforms they have code for.

Not modelled yet: the GSSAPI mechanism (the shape of PLAIN, on a library outside
the repository), STREAM and PAIR sockets with the raw engine, retry timers of
connecters and the listeners, pollers and their retired handles, `zmq_poll`, the
proxy, and the SQL service in `perf/CConnectManager*`.

Not planned: OpenPGM and NORM transports (the protocol is in libraries outside
the repository), address parsing, socket options, cryptography, clocks and error
texts. The other directories of the repository are vendored libraries and
examples (CZMQ, FileMQ, libsodium, log4cplus, MessagePack, JSON, SQLite wrapper,
the rest of the guide): listed in `PROJECT.json`, outside the scope of this
project. They are the larger part of the sources, so the share of lines the map
covers is small over the whole repository and large over libzmq.

## 7. Plan

1. Theorems, in order of what rests on them: Own (`NoCommandToDeleted`, by
   counting commands on their way as for Context), Pipe (`StreamIntact`, on
   `SharedInv`), PipeArray and LoadBalancer (regions match pipes), Session.
2. **Poller** (timers and retired handles), **Proxy**, STREAM and PAIR sockets with
   the raw engine, connecters' retry timers and the listeners.
3. **SqlService** (`perf/CConnectManager*`) on ReqRep.
4. The other patterns of the guide that the data server could use (reliable
   queues, clone), on ReqRep and PubSub.
