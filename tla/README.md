# A verification of tunprox

tunprox carries IP packets over (multipath) DCCP connections: a kernel module
(`ldt-kmod`), a library and a tool on top of it (`ldt-tool`), and a vendored
general-purpose library (`ext/frlib`) below those. This directory models the
parts of it that are hard to test, checks them with TLC and proves the results
that matter most with TLAPS.

## The system

| part | source | state it keeps | operations |
|---|---|---|---|
| packet queue | `ldt-kmod/ldt_queue.c` | list of buffers, limit, policy | enqueue, dequeue, requeue, set policy / limit |
| (mp-)dccp tunnel | `ldt-kmod/ldt_mpdccp.c`, `ldt_prot1.c` | a word of bit flags, two sockets, five work items, a timer, the queue, the list of subflows | commands (bind, peer, serverstart, setqueue, remove), handlers (connect, listen, accept, xmit, delayed xmit), callbacks (data ready, listen ready, subflow report, timer) |
| tunnel interface | `ldt-kmod/ldt_tun.c`, `ldt_tunaddr.c` | registry of tunnel types, addresses | register, look up, bind, rebind, peer |
| network device | `ldt-kmod/ldt_dev.c`, `ldt_mod.c` | devices, the physical device below, reference counts | create, remove, new tunnel, notifier up/down, module exit |
| netlink interface, events | `ldt-kmod/ldt_netlink.c`, `ldt_event.c` | list of subscribers | one handler per command, subscribe, send event, socket released |
| locks, sysctl | `ldt-kmod/ldt_lock.c`, `ldt_sysctl.c` | a spinlock and its flavour; log level and debug level | lock, unlock; write a setting |
| libtunprox | `ldt-tool/lib` | the netlink connection | request/reply, wait for an event with a timeout |
| tool, connection manager | `ldt-tool/tool` | | command line, reconnect loop |
| frlib | `ext/frlib` | number pools, tree lists, a mutex between processes, threads, netlink sockets, a pool of events; texts, calendars, xml, mail | |

A command travels from the tool through the library and netlink to the device
and its tunnel; the tunnel notes it and queues a work item. The work item does
what may sleep and reports with an event, which netlink sends to all
subscribers; the library waits for it. Packets come from the network stack
through the device into the queue, and a work item sends them; a softirq hook
takes received packets off the socket and hands them to the stack.

What makes it hard: the tunnel's structure is shared between commands, work
items, softirq callbacks and a timer, and no lock protects it (`DOLOCK` is empty
because `DOUSELOCK` is never defined). The list's own lock covers single
primitives only. Flags are bits of shared bytes. A link may go down at any moment.
The list of subscribers is read without `rcu_read_lock` by senders that sleep.
The library sees answers and events of several origins on one socket that may
overflow.

For each part, what makes it correct:

* queue and transmit path: every packet is in one place, packets leave in order,
  a waiting packet has somebody who will send it, the queue is bounded;
* receive path: packets arrive in order, each buffer has one end, and nothing is
  left in the queue when a connection is handed over;
* connection: sockets are neither leaked nor used after release, the address in
  use is the one given last, a command is answered;
* device: a device lives as long as its users, its references balance, and the
  events tell the truth; netlink: a subscriber gets every event until it leaves,
  and none of its memory is used afterwards; registry: a set of types;
* library and manager: an answer belongs to the question, every call ends, and a
  lost connection is re-established;
* frlib: its lists, pools, locks and threads do what their headers say.

The hazards behind this list, each with its line, are in `PROJECT.json`.

## Modules

**TpQueue** is `ldt_queue.c` as operators over sequences; the oldest buffer is
the first element. The operators keep the source's names. `skb_peek_tail` and
`skb_unlink` stay apart because the code calls them without a common lock.

**LdtXmit** is the transmit path. State and code correspond as follows.

| variable | code |
|---|---|
| `queue`, `q_maxlen`, `policy` | `struct tp_queue` |
| `flags` | the byte of `isconnected`, `wasconnected`, `has_delayed_work` |
| `reg` | the copy of that byte a CPU has loaded and will store |
| `pending`, `pc`, `skb`, `cnt` | the two work items and their local variables |
| `ppc`, `pskb`, `oskb` | the producer inside `mpdccptun_do_enqueue` |
| `grace` | outcome of the comparison with `last_unconnect` |
| `gone`, `oops` | buffers freed or handed to the socket; a list pointer of an unlinked buffer was followed |
| `lastsent`, `highmax`, `overlap` | history, for the properties only |

The producer's steps are `XmitDrop` / `XmitAccept` (the check and the preparation
of the packet), `XmitEnqueue`, `XmitPeekOldest`, `XmitUnlinkOldest`, `XmitLink`
(`tpq_enqueue`), `XmitTest`, `XmitSchedule`. A work item's steps run from `Start`
through `Clear`, `Peek`, `Unlink`, one of `SendOk`, `SendAgain`, `SendFail`, to
`Requeue`, `Set`, `Arm` or `Again`. `EventLoad` / `EventStore` are the connection
side's writes to the flag byte. `Smp` chooses between one CPU without preemption
(a work item is interrupted only while it sleeps in `kernel_sendmsg`, and by the
producer in softirq) and full interleaving with split bit updates. The producer
is one process: the device has one transmit queue and the stack holds its lock.
`ldt_tun_prot1xmit` would be a second producer, but nothing in the repository calls
it.

The code frees a sent buffer only when `kernel_sendmsg` returned 0
(ldt_mpdccp.c:1352), so a sent buffer with content is never freed. `gone` counts
a buffer as out of the tunnel's hands in both cases; the leak is a listed hazard.

**LdtConn** is the life of the connection. One variable per flag, `sock` and
`active` for the two socket pointers, `state` / `local` / `attached` for what the
kernel knows about each socket (bound address, `sk_user_data`), `pending` / `pc` /
`hand` for the work items and the sockets in their local variables, and `crash`
for the first use of a NULL pointer (`null`), of a freed tunnel (`freed`) or of a
released socket (`stale`). Commands are atomic (they do not sleep); a handler is
split before and after it calls into the socket layer, so that commands and reports
come between `kernel_bind` and `bound`, and between the test of the socket,
`kernel_listen` and `listening`. `mpdccptun_remove` has two steps because closing a
socket sleeps. The timer fires (`TimerFires`) and its handler runs
(`conn_timer_handler`) in two steps: `del_timer` stops the first and not the second,
which `inTimer` says. Every call into the socket layer may fail. The list of subflows
is its length. `asked`, `owed` and `raced` are history: a peer command whose run has
not begun, a run whose event is still to be sent, and an address given while the last
`kernel_bind` was at work. `AnyPort` are the addresses without a port, which a server
refuses; the runs have none, since a server that refuses its address does nothing.

**LdtGrace** has the arithmetic of the minute of grace (`last_unconnect`, `jiffies`
modulo `Width`) that `LdtXmit` leaves as a choice; a loss may be reported again and
again, and `told`, `turns` and `lost` remember the last report, the wraps since and the
loss. **LdtSend** composes `LdtConn`
with the one thing of the transmit path that touches the sockets: `do_xmit_skb`
reads the pointer and sends, with everything of `LdtConn` in between.

**LdtRecv** is the receive path of an accepted connection: `rq` and `backlog` are
the socket's queues, `hook` is `sk_data_ready`, `owned` the socket's lock in the
hands of `accept_handler`. `Arrive` runs the hook for one datagram; `InstallHook`,
`Lock`, `Drain`, `Release` are `accept_handler` and `mpdccptun_dorcv_all`; `Outcomes`
is `mpdccptun_dorcv2` with `ldt_prot1_recv`, for each kind of datagram. Two of them have
no single end in the code: an empty one is not freed, a malformed message of
protocol 1 is freed twice; `Accounted` is about the others. A refused datagram
(`rx_errors`) ends the drain early and leaves the rest in the queue, so `NothingLeft` is
about handovers without one.

**LdtDev** is the device. Three contexts run in parallel: a netlink command, the
notifier under the rtnl lock, and the exit of the module. `refs` counts
`dev_hold` minus `dev_put`; each command is a lookup, the locked middle part and the
put; `ldt_free_dev` is split into `FreeBegin`, `FreeUnlist`, `FreeUnregister`, `FreeDone`,
the last of which waits for the references; the test of the state before it is a step of
its own (`FreeCheck`). `evif` / `evtun` remember what the last event said, or that it was
sent by the command `evsend`, which sends whatever its caller names. `Corrupt` is the use of a freed device, after which nothing happens.

**EventBus** states what the event service promises: everyone in the audience who is
subscribed throughout a delivery gets the event once. **LdtNl** is the code: entries
linked by `next` with a `valid` flag, walkers that hold no lock (a sender, the
release notifier, the command that adds a subscriber and collects the invalid
ones), one step per entry looked at. `Delivery` maps the valid entries to the
subscribers and what a walker has ahead of it to the ones still to be told; it
is a refinement until `Corrupt`, a walker in freed memory. `alone` says whether other
netlink families close sockets too; the initial state chooses.

**TypeRegistry** is a set of types with a lookup; **LdtTunReg** the doubly linked list
that implements it (`Implements`), including its `prev` pointers, and the use of an
entry after the mutex was released. Here and in `LdtNl` the entries a walk over a list
reaches are the least set that is closed under the pointers (`Reached`), so that the
proofs need no induction over the list.

**LdtAddr** is the structure of a tunnel's addresses under bind, rebind and peer.
**LdtLock** is `tp_lock` / `tp_unlock` on several CPUs with nested contexts.
**LdtSysctl** is the two settings that depend on each other. **LdtSettings** puts the
addresses and the sysctls together, as what a user sets and reads back.

**LdtLib** is the library against the kernel as far as it shows in messages: `rx` is the
receive queue, `congested` / `sk_err` its overflow, `pc` the function in which a call
stands, `subscribed`, `tpfd` and `autoopen` what the library and the kernel remember
between calls. `got`, `lost`, `estab`, `unsent` and the field `fresh` of a message are
history. A request may fail to be sent: most commands then return without
`ldt_mayclose`, so a socket that was opened for one call stays open, with `autoopen` set,
until the next command closes it; a subscription made meanwhile is lost with it. That is
why `MessagesSorted` ties `autoopen` to a running call only if nothing was left unsent.
Unloading the module sends the events of what it takes down and may never end (see
`UnloadEnds`); that no device is made behind the back of `ldt_remove_all` is assumed.
**Conman** extends it: the manager is the application that makes the calls.

**FrIpool**, **FrTlst**, **FrMutex**, **FrThread**, **FrFnl** and **FrEvpool** are the parts of
frlib that keep state. `FrIpool` keeps the set a pool should hold beside the array of
ranges, numbers wrap at `Limit`, and a realloc that fails loses the second part of a
split range and nothing else; `FrTlst` keeps positions and the height of the tree and not its inner
nodes, since an element keeps its path when the tree grows; `FrMutex` has the
semaphores, what the kernel would undo, and the two system calls of create and
unlock as two steps; `FrThread` has the list of threads, the handshake of a child
with its father, and its cleanup, and `use` says what the program makes of them: the
father sleeps on the condition variable (`asleep`) until it is signalled, wakes for no
reason or times out, and reads the answer after it has left the mutex (`look`); `FrFnl`
is `fnl_send2` and `fnl_recv2` with `fd_isready` over a socket that overflows and, once
it has, drops silently until its queue is empty (`congested`), with the flags
(`FNL_F_NOHDR`, which the library of tunprox uses, and the check of numbers) and the
traffic (errors, events, wrong lengths, a timeout) that `how` says; `FrEvpool` is the pool with its unlocked
test of `evpoolinit`. `FrTlst`'s rule that a removed position lowers `num` is what
`FrThread` and the users of `TLST_F_NONE` inherit.

Definitions marked *Variant* are plausible mistakes in the definition that
follows. They are used by no specification; each breaks the property that
`PROJECT.json` names for it. The MC modules are described under Runs.

## Runs

Many components share no state, and several have to be looked at with different
constants (with and without unloading, alone and among others). The MC modules
put such cases side by side: each extends the components whose constants the cfg
gives, instantiates others with constants of its own, and has a variable (`unload`,
`part`) that the initial state fixes, as it does `alone` of `LdtNl`, `use` of `FrThread`
and `how` of `FrFnl`. In a behaviour one case moves, by the next-state
relation of its own module, and the others stay as they were; so a run explores
the sum of the state spaces, not their product. A property that belongs to one
case says so in its premise, and fairness is stated for the case it is about.
`MCLdtConn` is different: it adds the symmetry of sockets, and its cfg the constraint
`ClientOrServer`, that the tunnel is not client and server at once.

Passing:

| run | bounds | shows |
|---|---|---|
| `xmit_up` | `LdtXmit`: 3 buffers, limit 1 then 2, burst 1, one CPU, connect and linkdown | types, ownership, safe dequeue; every waiting packet is attempted (`Attempted`) |
| `xmit_smp` | `LdtXmit`: 4 buffers, limit 1, burst 1, both dropping policies, all interleavings | wakeup, bound, order, the flag tells the truth, up to the first oops |
| `conn_client` | `LdtConn`: 2 addresses, 3 sockets, plain dccp on several CPUs, bind / peer / setqueue at any time | no NULL; the address in use is the last one, unless that came while `kernel_bind` was at work; every peer command leads to a run of the handler that starts after it, and every run to an event (`Answered`) |
| `conn_mp` | `MCLdtConn`: 1 address, 3 sockets, multipath on several CPUs, every command, timer and report, unless the tunnel is both client and server | no socket is leaked or used after release up to the first crash; a server that goes on listening keeps its socket (`ListenerKept`) |
| `dev` | `MCLdtDev`: 2 devices with 1 physical device and up to 3 references; 1 device with `evsend` too; 2 devices without a physical one, and unloading | references balance, nothing freed is used, events are true but for those `evsend` was asked to send; a removal ends |
| `nl` | `MCLdtNl`: 2 namespaces, 3 entries, 1 sender, with and without foreign sockets | `LdtNl` implements `EventBus`; a subscription ends when and only when it should, a delivery ends |
| `lib` | `MCConman`: 1 device; the manager with 2 addresses while tunnel, device and module go; a caller that binds, connects and listens while somebody else connects; any sequence of calls with link loss and unloading; calls of which some cannot be sent; room for 2 messages | answers and outcomes belong to their request, every call returns, the manager notices |
| `parts` | `MCLdtParts`: the lock on 2 CPUs with 3 levels of context; 3 datagrams of all 6 kinds, and 5 of which none is refused; 3 types, 4 cells, 1 finder; both families, 3 ips, 2 ports, a device with 2 addresses or none; one writer of the sysctls; 26 ticks of a counter that wraps at 16, a minute of 2 | an unlock undoes its own lock's flavour; order, one end for each well-formed buffer, nothing left behind and everything taken if none is refused; `LdtTunReg` implements `TypeRegistry`; settings read back true; the minute of grace is exact up to a wrap, or from it on |
| `fr_data` | `MCFrData`: the event pool with 3 threads, or made by the first of 2; the tree list used in five ways, up to 6 elements or at positions up to 9, over which the tree grows several levels at once, with one or two failing mallocs; a pool of 8 numbers with a failing realloc, and two of 5, one subtracted from the other | one user per event, none lost, only memory from malloc is freed; elements stay where they are and are found, unless a malloc failed in the middle of a jump; a pool is canonical and exactly its set |
| `fr_sync` | `MCFrSync`: 3 processes, 2 terminations, a forced unlock or removal; 2 threads, orderly or anyhow; 5 messages of 1 or 3 units over a socket that holds 2, used with `FNL_F_NOHDR`, with a timeout, with numbers checked, and with errors and wrong lengths | exclusion and counts; in orderly use no freed structure is used and ids name threads; what start reports follows from what init returned and whether the thread is through; messages are whole, every gap begins with a loss that was told, answers in sequence accepted; waiting calls end |

Where a property is a conjunction of named parts, `PROJECT.json` has a mutant for
each part.

Violated; each is a disagreement of the code with a statement of the repository,
quoted in the findings of `PROJECT.json`:

| run | what happens |
|---|---|
| `conn_reconnect` | `mpdccptun_linkdown` sets `sock` to NULL and leaves `bound` set, so the documented way to reconnect after a link loss dereferences NULL; a new bind before it avoids this |
| `send_stale` | a buffer is being sent on a socket that is released (`LdtSend`, the composition of the transmit path with `LdtConn`) |

### Statements of the repository the code does not keep

The modules keep these statements as definitions beside their properties. TLC
finds each of them violated under the module's own specification with the
constants below (the ones not named as in the runs above); no run lists them.

| definition | module and constants | what happens |
|---|---|---|
| `DelayedMeansArmed` | `LdtXmit`, `Smp = TRUE`, `Events = {"report"}` | a subflow report on another CPU restores a cleared `has_delayed_work` (ldt_mpdccp.c:1149) |
| `AtMostBurst` | `LdtXmit`, `Burst = 5`, `MaxSkb = 6`, `InitLen = 1000` | six buffers in a run, the comment at 1151 says five |
| `NoScheduleWhileDelayed` | `LdtXmit`, `Burst = 5`, `InitLen = 1000` | scheduled although delayed work is armed (comment at 1079) |
| `OneRole` | `LdtConn`, `Mp = FALSE`, bind, peer, serverstart | client and server at once (755) |
| `BoundOnce` | `LdtConn`, `Mp = FALSE`, bind, peer | a bound tunnel takes a new address (ldt-tool/tool/cmd.c:592) |
| `NoWorkAfterFree` | `LdtConn`, `Mp = FALSE`, peer, remove | a work item goes on with a freed tunnel (902) |
| `GraceTrue` | `LdtGrace` | no minute of grace after a rebind, a new one after every repeated report, none or an endless one around a wrap of jiffies (1096) |
| `FreedOnce` | `LdtRecv`, kind `"badctl"` | a malformed message of protocol 1 is freed twice (1492) |
| `UnloadEnds` | `LdtDev`, `Unload = TRUE`, one device | unloading with a device never ends |
| `XmitHasTunnel` | `LdtDev`, one device | a tunnel is removed under a transmission |
| `PdevDownTrue` | `LdtDev`, two physical devices | a device is marked down for a physical device it has left |
| `NoUseAfterFree` | `LdtNl`, two subscribers of one namespace | a sender walks into a freed subscriber |
| `SubscriptionKept` | `LdtNl`, `alone = FALSE` | closing a foreign netlink socket ends a subscription |
| `RebindTrue` | `LdtAddr` | a rebind to a device without an address |
| `NoSelfDeadlock` | `LdtLock`, one CPU, `Users = {1, 2}` | a softirq waits for the process it interrupted |
| `DebugOffTrue` | `LdtSysctl` | debug is 0 and debug messages are printed (README:78) |
| `EstabReported` | `LdtLib`, setpeer only | an event that precedes the answer is dropped, setpeer times out |
| `SuccessOfMyDevice` | `LdtLib`, two devices | success of another device's connection |
| `Reconnects` | `Conman`, `World = {"lost"}` or `{}` with `RxMax = 4` | the manager waits for ever |
| `WriterGets` | `FrMutex`, `FairSpec`, no terminations | a writer starves |
| `Exclusion` | `FrMutex`, `Careful = FALSE` | a second creator resets a held lock |
| `FindsAll`, `RemovedGone` | `FrTlst`, `Ops = {"addinsert", "none"}` | elements out of reach after a slot was freed |
| `Kept` | `FrTlst`, `SetAt = {0, 4}` with a failing malloc | elements out of reach after a failed jump |
| `NumTrue` | `FrTlst`, insert with a failing malloc | `num` counts an element that was not stored |
| `NoUseAfterFree` | `FrThread`, `use.lasting = FALSE` | a freed thread structure is read |
| `IdsNameThreads` | `FrThread`, `use.lifo = FALSE` | an id is given twice |
| `AcceptsNext` | `FrFnl`, `how.errors = TRUE`, or `Wrap = 8` | an answer in sequence is refused |
| `NoLeak` | `FrFnl`, `how.timed` or `how.odd` without `nohdr` | the buffers of a call that times out, or of a message with a wrong length, are not freed |
| `FreeRight` | `FrEvpool`, `InitFirst = FALSE` | two first calls make two pools |

A server may also count as listening without a socket: `linkdown` reported while
`kernel_listen` sleeps takes the socket, and the flag is set afterwards (810). No
statement of the repository says otherwise, so there is no definition for it;
`ListenerKept` says that this is not how a server that listens already loses its socket.

The most serious of all: `conn_reconnect`, `UnloadEnds` (the module cannot be
unloaded while a device exists), `NoUseAfterFree` of `LdtNl` and `NoWorkAfterFree`
(freed memory is used).

Why the bounds are enough. A limit of one with three buffers already fills the
queue, refuses one buffer and keeps one with a work item; two work items and the
producer each hold at most one, so the fourth buffer of `xmit_smp` is the first
that could exceed the bound of limit plus two. A burst of one ends a run after
two buffers. Three sockets are the listening one, the active one and the one
being accepted, or the old and the new one of a rebind and one the kernel has
not forgotten. Two addresses tell an old from a new one; the sockets' lives in
`conn_mp` do not depend on which address it is, so one is enough there. The counter of
`LdtGrace` wraps twice in its run, so that a minute lies before, across and after a wrap
and another wrap follows. Five datagrams put one
each before the hook, into the drain, into the backlog and after it, and one to spare;
three are enough for each kind to come first, last and between two others. Two devices
make removal of one while the other is looked up; three references are the
device's own, a command's and the notifier's. Three entries are one that leaves, one
that takes its place and one behind. Two messages let an answer and an
event meet, and the next one overflow. With two children a node a
list of five has a tree of three levels, and growing twice is possible. Eight
numbers have up to four ranges, which touch, overlap, contain one another and end at the
last number; five are enough for two pools whose ranges split one another. Three
threads or processes are two that meet and one that comes later; of the threads of
`FrThread` one more is the father. Five messages fill a socket that holds two, overflow
it and go on.

Deadlock is checked in `xmit_up` and `conn_client`, where the system cannot stop; the
other runs contain crashes, bounded inputs or a caller who may stop.

Fairness. `LdtXmit`: an enqueue that has begun ends, and the workqueue (and its
timer) runs what is queued to its end: weak fairness per work item.
`kernel_sendmsg` is called with `MSG_DONTWAIT`, so it returns. `LdtConn`: weak
fairness of each handler, of a removal and of a timer's handler that has begun;
`kernel_connect` returns because the protocol gives up
after its time limit. `LdtRecv`, `LdtDev`, `LdtNl`: a handler, a notifier or a
walker that has begun goes on, and a transmission returns. `LdtLib`, `Conman`: the
process and the kernel's work items go on; a wait with a timeout ends by the
timeout. `FrThread`: threads and the father go on and init functions return; nothing is
asked of timeouts and of wakeups without a signal, so a signal that is not sent shows.
`FrMutex`: the kernel
wakes all sleepers at every change of a semaphore, so one who can proceed again
and again does (strong fairness); who holds the lock releases it. `FrFnl`: weak
fairness of the call, strong fairness of the steps a signal may interrupt, since
signals do not come for ever. Nothing is assumed about commands, the network,
the link, timeouts or the outcome of a call.

## Proofs

The theorems hold for every value of the constants, under the named assumptions
(`XmitAssumption`, `ConnAssumption` and so on, which TLC evaluates in the runs) and
what is said below. Each property was checked with TLC on a small instance before it
was proved, by the run that lists it. Where a model stops at a crash, an oops or
corrupt memory, the invariants speak of the time before.

`LdtXmitProofs`, for every number of buffers, limit, burst and policy. It begins with
the lemmas about the list operators of `TpQueue`: what `skb_queue_head`,
`skb_queue_tail`, `skb_unlink` and `skb_peek_tail` do to length, members, positions
and order (`Elems`, `Distinct`, `Sorted`).

* `TypeCorrect`: `Spec => []TypeOK`. Inductive as it stands, because `TypeOK`
  says that a context that answers for a buffer has one.
* `Wakeup` and `DelayedIsArmed`: `[]NoLostWakeup` and `[]DelayedMeansArmed`, assuming
  `BitUpdatesAtomic` (one CPU, or no concurrent writer of the flag byte, which is
  exactly what a subflow report on another CPU breaks). `NoLostWakeup` alone is
  not inductive: when the producer reads `has_delayed_work` and schedules nothing,
  only `DelayedMeansArmed` says that somebody will come.
* `Bounded`: `[]QueueBound` for the two policies setqueue offers. The
  strengthening `BoundInv` remembers that at `link` there was room for one more
  when the limit was tested, although work items may have put buffers back since;
  `HeldChanges` says that a step of a work item changes what that item holds only.
* `SafeDequeue`: `[]NoOops` on one CPU without the drop-oldest policy.
  `DequeueInv`: at most one work item is neither idle nor asleep in
  `kernel_sendmsg`, and the buffer it has peeked at is still the first one.
* `BuffersOwned`: `[]OneOwner`, on one CPU or several. `OneOwner` counts places;
  `OwnerInv` says the same without counting, as `Exclusive` (no two claims) and
  `Claimed` (at least one), with the fact that every buffer seen so far has a smaller
  number than the next one, so that a new buffer is nowhere yet.
* `SentInOrder`: `[]InOrder`. `OrderInv` adds what the producer is about to link:
  it is younger than everything in the queue, in a hand or sent; and a peeked buffer
  is already older than the others in the queue.

`LdtConnProofs`, for all sets of addresses, sockets and commands:

* `ConnTypes`: `Spec => []TypeOK`, proved in two halves (`Objects`, `Flags`).
* `SocketsKnown`, `PointersOpen`, `ListenersKeepSocket`: `Spec /\ []ClientOrServer` implies
  `[]NoSocketLeak`, `[]NoDanglingSocket` and `ListenerKept`. `ClientOrServer` is
  the precondition the code does not check (`OneRole` above); it gives `OneBinder`,
  that `connect_handler` and `listen_handler` never both run `mpdccptun_dobind`, because
  `Roles` ties each work item to its flag. None of the three is inductive: `SockInv` says
  who knows a socket while handlers are between two calls (`Known`), that the
  pointers and the local variables hold different sockets (`Pointers`, `Apart`), and
  that a new socket is made only where there is none (`Unbound`). `ListenInv` adds that
  the server does not count as listening while `mpdccptun_dobind` replaces its socket, and
  that it listens only if it is bound.
* `AddressKept`: `[]AddressInUse` under the same condition, on any number of CPUs.
  `AddrInv` starts at the call of `kernel_bind`, before `bound` is set. Commands do come
  between these two, and `raced` says that one of them gave an address: the theorem says
  that this is the only way for a bound socket to keep an old one.
* `ClientHasSocket`: `[]NoNullSocket` for a plain dccp client (`~Mp`, no `serverstart`), on
  any number of CPUs.
  The multipath client is the finding `conn_reconnect`.

`LdtDevProofs`, for any number of devices and of physical devices, until the module is
unloaded (what unloading breaks is `UnloadEnds` above):

* `ReferencesBalance`: `Spec => []LoadedRefsBalanced`: the references of a device and of a
  physical device are those of their users, and no device in use is freed.
  `EventsTellTheTruth`: `Spec => []LoadedEventsTrue`. Neither is inductive. `DevInv` says
  where the command and the notifier are (`Control`), that both work on devices that are
  registered, but for the command that has unregistered one (`Alive`), that a device is
  on a list once and on the lists its state says (`Lists`, `Used`, `Active`), that a
  physical device has a reference for each device bound to it and for the command about
  to bind one (`PdevCount`), and what the last events said (`Told`), unless `evsend` was
  asked to send them.

`LdtNlProofs`, for any number of clients, entries and senders:

* `SubscriptionsTrue`: `Spec => []SubscriptionTrue`. `NlInv` has the shape of the list
  (`Linear`: no two entries lead to the same, and none to the first) and, for every walker,
  where it may stand when the list changes under it: an entry taken out keeps its
  pointer, so the walker that stands on it still has everything valid ahead of it
  (`Entries`, `NewEntry`, `Command`, `Notifier`). `Alone` is why the notifier
  that compares ports only ends no other subscription while there is one family.
* `EventsDelivered`: `Spec => Delivery`, the refinement of `EventBus` for a list that is read
  without a lock while it is changed. `Flight` is what a sender has still to
  deliver; a walker's step delivers to at most one client (`Waits`), and linking,
  marking and unlinking change `Flight` of no sender except by the client that leaves.

`LdtLibProofs`, for any devices, size of the receive buffer and set of calls:

* `AnswersFindTheirRequest`: `Spec => []MessagesSorted`, and `SuccessIsOfThisCall`:
  `Spec => []SuccessIsFresh`. The library compares no sequence numbers, so the order of
  the receive queue has to do it: `LibInv` says that while a request is in hand its
  answer is the only one in the queue, with only events of others, sent since, behind
  it, and that outside of requests there are no events of the caller's own (`OneAnswer`,
  `Queue`), as long as the buffer has not overflowed. That a socket opened for one call is
  closed at its end is part of it, as long as every request could be sent (`unsent`). Sequences are taken apart at their head and put together at their
  end, with one lemma for each.
* `ManagerIsTold`: the same of `ConmanSpec`: every step of the manager is a step of the
  library with some call (`ConmanSteps`).

`LdtPartsProofs`, the parts of the kernel module that share no state:

* `FlavourRestored`: `[]Restored`, for any number of CPUs
  and any set of contexts that use the lock. It is not inductive alone: an unlock
  undoes the flavour it finds in the lock. `LockInv` adds that the spinlock has one
  holder, and `Noted`: between the note and the
  read of it `ltype` is the flavour the holder has chosen, because only the holder
  writes it.
* `Received`: `[]RecvSound`, for every number and sequence of datagrams, with and without
  removal. Order is claimed of all of them; one end of each buffer of those that are
  neither empty nor malformed; and an empty queue after the handover if none was refused.
  `RecvInv`: datagrams pass from the backlog to the queue to a hand to the
  stack, and those further on are older (`Order`); the hook and the handler do not
  both take (`Control`); what waits is not freed (`Books`); and the queue is empty
  from the end of the drain on (`Drained`).
* `ListKept`: `[]ListSound`, and `RegistryImplemented`: `RegSpec => RegImplements`, the
  refinement of `TypeRegistry`, for any number of types, entries and finders. The lemmas
  `Push`, `Pop`, `Bypass` and `Elsewhere` say what each pointer operation does to the
  entries that are reached. `ListSound` needs `Linked`, that the pointers lead back and
  forth and none to the head, since `ldt_tun_unregister` trusts `prev` of every entry
  but the head; and the refinement needs `Once`, that a type is registered once, or
  removing one entry would not remove the type.
* `SettingsShown`: `SettingsSpec => []SettingsTrue`, for any addresses and one writer of
  the sysctls; two would break it, since nothing keeps the handlers of the two files
  apart. `AddrInv` ties every field that is derived from an address (`lport` and the `any`
  flags) to what the last command gave, `SysctlInv` the log level to the debug level, and
  while a handler is between its writes each of them to what is being written.
* `GraceKept`: `GraceSpec => []GraceAfterDown`, for every width of the counter that exceeds a
  minute (`GraceAssumption`) and any number of wraps. The property says what
  the comparison without `time_after` leaves of the minute; that it is always a whole one
  is `GraceTrue` above.

`FrSyncProofs`, what frlib does between processes, threads and the kernel:

* `LocksExclude`: `[]LockSound` (`Exclusion` and `Counted`), for any finite number of
  processes, any of which may terminate anywhere, assuming `Careful`: the semaphores
  are made, set and removed only while no living process uses them; without it
  `Exclusion` is violated (above). `mutex_unlock` decides from the values it has
  read in an earlier system call. `MutexInv` says why that is right: while a process has
  the read lock the number of readers it sees is not 0, while it has the write lock no
  reader and no free write lock is seen (`SeenRight`); and what the kernel would
  undo is what the process has taken (`UndoRight`).
* `ThreadsKeepOrder`: `ThrSpec => []ThreadsSound`, and `StartTellsTheTruth`:
  `ThrSpec => ThreadStartTrue`, for any number of threads. However threads are used
  (`Told`), a main function never runs after its init function has failed; `frthr_start`
  succeeds only after an init function that did, and after the thread's answer fails only
  if init failed or the thread is through its cleanup, whose return value has replaced the
  one of init in `childret`. That no freed structure is used and an id names one thread
  needs the orderly use, and `InOrder` says why: the list of threads is a stack
  (`Stack`), so that the position `num` of a new thread is free.
* `MessagesArriveWhole`: `FnlSpec => []FnlSound`, for messages of any number and length and
  a socket of any size. `FnlInv`: the queue is the messages that wait, in the order they
  were sent (`Queued`); a loss that was not told of is still in `enobufs`, and what a
  congested socket dropped silently follows a loss that was, or will be, told (`Losses`); a
  message is taken only with a buffer that held it when it was looked at, and it
  is the first one still (`Fits`); `rcvseq` follows the numbers of the answers
  (`InSequence`, under the premises of `AcceptsNext`, `Straight`); and the buffers are
  freed if there is neither a timeout nor a wrong length (`Tidy`).

`FrDataProofs`, the pools of frlib:

* `ExclusiveUse`: `[]OneUser`, for any number of threads and any length of the pool, also
  when several threads make the pool. `UserInv` adds the types and `Kept`: the flag
  `used` of an event is set as long as a thread has it or is releasing it. The replaced
  pool's events keep their users, since a pool's number is never used again.
* `PoolKept`: `[]EvpoolSound`: no event is lost, and `FreeRight` as long as the first
  pool is in use; every event given out is of a pool that was made, so it is found to
  be in the pool (`PoolInv`). `FreedRight`: `[]FreeRight` if `evpool_init` is called before
  there are threads; then no thread makes a pool again (`MadeInTime`).
* `PoolsExact`: `IpSpec => []IpoolSound`, for numbers of any width, any number of pools and
  any sequence of calls, with realloc failing in any of them. `Canonical` speaks of two
  ranges in a row; `Ascends` says the same of any two, which is what is left when
  ranges are taken from the middle. All functions of `ipool.c` put one new range, or
  none, in the place of some in a row; `SpliceAscends` and `DropAscends` say when that
  keeps the list ascending and what numbers it then holds, `TouchIs`, `JoinIs` and `FitIs`
  what the comparisons with wrapping numbers mean, and `AddedRight`, `SubtractedRight`
  and `WithoutRight` that each call adds or takes what it should. The loop of
  `ipool_subtract_pool` is a recursive function; that it is defined, and right after
  every round, follows from the smallest round at which it would not be
  (`SmallestOf`). A block of numbers of the pool lies in one range (`BlockInRange`), so
  `ipool_choose` misses none.

Only model-checked: all liveness (`Attempted`, `Answered`, `RecvTaken`, the ends of calls
and removals), since fairness and ENABLED are out of the prover's reach; `TlstSound`, which
rests on two recursions (`Depth`, and the binary search) over numbers of any size, that
is on induction over data; and what the violated runs show.

## Not modelled, and why

* `ldt_ip.c`: a pure function over packet bytes that nothing calls.
* the tool (`cmd.c`, `main.c`): arguments in, one library call, text out.
* formatting of information and events, parsing of netlink attributes.
* `tpq_destroy`, the change of the mtu, a load of the module that fails half way.
* frlib, except for the six modules above. Most of the repository's lines are
  frlib's, of which tunprox uses the netlink sockets, the xml parser and basic
  text and error functions. The remainder consists of parsers, encodings,
  calendars, mail, archives and a text language for events: sequential functions
  of bytes, whose models would be their transliteration. What keeps shared state there
  rests on the lists, pool, mutex and threads that are modelled. Of `fnl.c` the open
  and close calls are left out; reading them shows that `fnl_open2` does not close
  its descriptor when bind fails.
* weak memory ordering: all modules are sequentially consistent.

What is left to do, in this order:

1. the lists of `FrTlst`: `Kept` and `FindsAll` first, for which `Depth` has to be shown
   to grow by at most one when a list grows by one element;
2. `LdtXmit` as an implementation of a lossy FIFO;
3. the boxes of frlib's event component over `FrEvpool`.
