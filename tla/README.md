# A verification project for the yp phonebook service

`yp` is a small Mochi service in C++: a *provider* keeps *phonebooks* and serves them
over Thallium RPCs to *clients* and *administrators*. The program is small, but its
handlers run concurrently in an Argobots pool, its objects are shared between threads
and between processes, and most of what can go wrong happens between two lines of it.
This directory holds TLA+ models of that concurrency, the TLC runs that check them on
small instances, and proofs, checked by TLAPS, of the results that hold for every
instance.

Paths below are relative to the repository.

## 1. Inventory

| Component | Source | State | Operations | What is hard | What makes it correct |
|---|---|---|---|---|---|
| RPC handlers of the provider | `src/ProviderImpl.hpp` | `m_backends` (UUID → shared pointer), `m_backends_mtx`, `m_token`, the locals of each running handler | `createPhonebookRPC`, `openPhonebookRPC`, `closePhonebookRPC`, `destroyPhonebookRPC`, `checkPhonebookRPC`, `sayHelloRPC`, `computeSumRPC`, `getConfig`, constructor, destructor | any number of handlers at once; early returns under the lock; a backend used after the lock is released; `destroy()` and `erase()` are two steps; `m_token` and `getConfig` take no lock; the RPCs are registered before the map and the mutex are constructed | each RPC takes effect at one moment; no half-made or half-destroyed phonebook is ever seen; a backend lives as long as it is used, and no longer; every caller is answered once |
| Ownership of a provider | `src/Provider.cpp`, `include/yp/Provider.hpp`, `examples/server.cpp` | `self`; the engine's list of finalize callbacks, which keep the *address* of the Provider | constructors, move constructor, destructor, `getConfig`, `setSecurityToken`, the callback | finalization may start at any time and in another thread; a vector moves its elements | no complete provider outlives its engine; nothing null is dereferenced; no callback outlives its Provider |
| Asynchronous requests | `src/AsyncRequest.cpp`, `src/AsyncRequestImpl.hpp` | shared `AsyncRequestImpl`: `m_async_response`, `m_waited`, `m_wait_callback` | copies, moves, assignments, destructor, `wait`, `completed` | copies in several threads; `unique()` then `wait()` is not atomic; errors are thrown, also out of the destructor | a wait that returns has delivered; the last copy waits; nothing is stored after the caller was told |
| Phonebook handles | `src/PhonebookHandle.cpp` | client, provider handle, UUID | `sayHello` (no response), `computeSum` (blocking or not) | a handle outlives its phonebook; a pending request is overwritten | an identifier never comes to name another phonebook |
| Client | `src/Client.cpp`, `src/ClientImpl.hpp` | the registered RPCs | `makePhonebookHandle` with or without a check | the check is stale when it returns | a checked handle named an open phonebook at some moment of the call |
| Admin | `src/Admin.cpp`, `src/AdminImpl.hpp` | the registered RPCs | create, open, close, destroy, `shutdownServer` | lost or late answers: a phonebook may exist whose UUID nobody received | errors are thrown, results returned |
| Backends and factory | `include/yp/Backend.hpp`, `src/Backend.cpp`, `src/dummy/*` | registered `create`/`open` functions; one object per phonebook | `create`, `open`, `getConfig`, `sayHello`, `computeSum`, `destroy` | called by several handlers at once; `x + y` may overflow | a sum that fits comes back as it is; no type, an unknown one or an exception fails the request and leaves nothing behind |
| Request results | `include/yp/RequestResult.hpp` | success, error, value; for `bool` the value *is* success, for `std::string` it *is* the error | accessors, serialization | aliasing; a value that was never set | a caller only uses a value that was set for it |
| UUID | `include/yp/UUID.hpp` | 16 bytes | `generate`, comparison, printing, hashing | | uniqueness |
| Configuration | `src/ProviderImpl.hpp:76-122` | the JSON document | parsed on construction, printed by `getConfig` | `getConfig` walks the map without the lock | every entry that can be made is made; `getConfig` lists what is served |
| Bedrock module | `src/BedrockModule.cpp` | pointers | register, deregister, configurations, provider handles | deregistration while the engine finalizes | no handler goes on in a provider that was deleted |

How they interact. A client or an admin sends an RPC; Thallium runs the handler in a
user-level thread of the provider's pool; the handler takes the mutex for the map only,
calls the backend (outside the lock, except `destroy()`), and answers. The backends are
shared between the map and the handlers by `shared_ptr`. The engine calls each Provider
back when it finalizes. An asynchronous `computeSum` leaves an `AsyncRequest` with the
caller, whose copies share the pending response.

## 2. The modules

| Module | Models | Kind |
|---|---|---|
| `PhonebookRPC` | the RPCs, tokens and identifiers; the token test | vocabulary |
| `PhonebookRegistry` | what a provider promises: an atomic registry of phonebooks | abstract specification |
| `ProviderImpl` | the seven handlers, step by step, with the map, the mutex, the token and the life of backends | detailed specification; refines `PhonebookRegistry` |
| `ProviderInvariant` | the inductive invariant `IInv` of `ProviderImpl` | invariant |
| `ProviderProofs` | type correctness, `IInv`, the safety properties | proofs |
| `ProviderRefinement` | `ProviderImpl` implements `PhonebookRegistry` | proofs |
| `AsyncRequest` | asynchronous `computeSum` and the AsyncRequest objects | detailed specification |
| `ProviderOwner` | Provider objects, their moves and the engine's finalize callbacks | detailed specification |
| `ProviderLife` | one ProviderImpl from its constructor to its destructor, with `getConfig`, beside the handlers, on a number of execution streams | detailed specification |
| `RequestResult` | the three templates of `RequestResult`: members, accessors, serialization | pure operators |
| `Service` | Admin, Client and PhonebookHandle, the network, and a provider | composition of `PhonebookRegistry` and `RequestResult` |
| `AsyncInvariant`, `OwnerInvariant`, `LifeInvariant`, `ServiceInvariant` | the inductive invariants of the four modules before | invariants |
| `AsyncProofs`, `OwnerProofs`, `LifeProofs`, `ServiceProofs` | type correctness, the invariants, the safety and action properties of each | proofs |
| `MCProvider`, `MCAsyncRequest`, `MCProviderOwner`, `MCProviderLife`, `MCService` | instances for TLC | |

Definitions marked *Mutant* in a comment are not part of a specification. Each is a
definition of the module as a plausible bug would have it, and shows that a property
can fail: with the mutant in its place TLC finds the property violated.

### ProviderImpl

A handler is a thread that runs one RPC after another. `pc` names the next step:

    idle -Receive-> auth -AcceptToken-> make -MakeBackend-> lock -Lock-> insert -Insert-> assign -Assign-> unlock
                     |                   '-MakeFails-> respond            |-> remove -Close-> unlock
                     '-RefuseToken-> return                                |     '-Destroy-> erase -Erase-> unlock
                                                                           '-> find -Find-> unlock
    remove, find -NotFound-> unlock      unlock -Unlock-> use | respond | return
    use -Use-> respond | return          respond -Respond-> return -Return-> idle

`create` and `open` run the same steps (`createPhonebook` and the body of
`openPhonebookRPC` differ in the factory function only). The statement
`m_backends[phonebook_id] = std::move(backend)` is two steps, because `operator[]` puts a
null pointer into the map first; `destroy()` and `erase()` are two steps. The early
returns answer before the lock is released, as in the code. `m_token` is a string
assigned and compared without a lock: while it is assigned it is `TornToken`, and a
comparison may come out either way. A backend lives as long as the map, its maker or a
lookup points at it (`Release` is the shared pointer's count). An identifier that was
generated is never generated again.

Data that is abstracted: types and configurations (a backend is made, or it is not; which
entries of a configuration are, is in `ProviderLife`), results and the integers of `computeSum`
(they are in `Service`), logging. A `destroy()` or `computeSum`
that throws is not modelled: nothing catches it, and the contract of `Backend` is to
return a result.

### AsyncRequest

`Slot`s are AsyncRequest objects, each used by one thread at a time; `Request`s are the
shared implementations. Destroying and assigning start with `Check` (`self.unique()`),
may go through the steps of `wait()` (`Test`, `Deliver` or `Throw`, `Mark`), and end with
`Store`. `computeSum` sends its RPC and then runs the same steps as a move assignment,
while a local pointer still refers to the new request: that is why a temporary that is
destroyed by an exception does not wait. A destructor that throws ends the process. Of thallium it is
assumed that the response of a request can be waited for again: `async_response.wait()` of a second waiter, or after
an error, ends as the first did.

### ProviderOwner

Providers live at `Place`s. `stage` says how far the constructor or destructor at each place is, one
line of `src/Provider.cpp` after the other; several may be in progress at once, and the engine may start
to finalize, call back and end between any two of their lines:

    none -Construct (17, 22)-> pointed -PushCallback (18, 23, 29)-> whole
    none -Move (27)-> moving -TakeSelf (28)-> pointed
    whole -Destroy (33)-> tested -PopCallback (34)-> ending -Release (36)-> none
             '------------- self is null --------------^

The engine's callback list holds places. The move constructor is modelled as written: it pops the
callback of the *new* object, which normally has none. A null `self` that is dereferenced ends the process
(`Crash`): the destructor's, when a callback comes between the test of line 33 and the use of line 34, or that of
a Provider whose finalize callback was run before or during its move. That callers move a Provider that is
valid (it has `operator bool`) is assumed until the engine finalizes.

External and assumed: margo takes the newest callback off its list and calls it in one step, ends
when the list is empty, and an engine that has ended can still be registered and deregistered with, which is the
harmless outcome of something undefined. A callback for the address of a Provider that is gone is also undefined;
its harmless outcome is a step that changes nothing, and `CallbacksAlive` is about it. Two threads that work on one
`shared_ptr` at once, the callback and a destructor, do so one after the other. Construction of the
`ProviderImpl`, one step here, is taken apart in `ProviderLife`.

### ProviderLife

Three kinds of threads: the `Owner` constructs and destroys the provider, the `Reader` calls
`Provider::getConfig`, and handlers run RPCs. `pc[Owner]` is the stage of the provider:

    idle -Construct-> define -Define*-> configure <-> make lock insert assign unlock    (createPhonebook)
                                            '-Configure-> own -Leave-> deregister -Deregister*-> gone

`ProviderImpl` shows that the handlers are right however they interleave. Here the question is
another one: `getConfig` takes no lock, the RPCs are defined (lines 69-75) before the map and the
mutex exist (lines 62-63), and the destructor takes both away. Whether a handler meets that depends
on how its threads are run, so this module models the scheduling of Argobots: a thread runs until it
reaches a `YieldPoint`, and at most `Streams` threads are between two of them. Yield points are
the start of a thread, waiting for the mutex, a response (`respond`, and `missed`, which responds under the
lock), and the steps in `Blocking`, where a backend's function may block. The mutex can therefore be
held over a yield point, and is: in `missed`, and in `destroy`.

What is external and assumed: margo dispatches an RPC from the moment it is defined; before the
finalize callbacks it waits for the handlers that were dispatched, and dispatches no more
(`Finalizing` in `Leave` and `Dispatch`); a backend's `getConfig` does not block. The document of a
configuration is a sequence of `Listing`s: what matters is whether an entry has no type, an
unknown one, a `create` that throws, or makes a phonebook.

### Service

A `Caller` is an application thread that calls Admin, Client and PhonebookHandle, one
function at a time. A call puts a request into `requests` and waits; an idle handler takes
any request that is there, performs it on the registry, and answers; `Return` is the end of
the function, where the result is read and an unsuccessful one is thrown. A response is the sequence
of members that `serialize` writes for the handler's `RequestResult<T>` and reads into the caller's
(`Write`, `Read`): what a `value()` reads is whatever the member it refers to was given, and the one
of an `int32_t` that nobody set is `Unset`. Integers have `Width` bits; a sum that overflows, which is
undefined in C++, is any of them. `sayHello` puts its request there and
goes on. The provider in this module is `PhonebookRegistry`, an INSTANCE: since `ProviderImpl`
implements it (proved, section 4), what is shown of `Service` holds with the handlers of
`ProviderImpl` in its place. `begun` is a history variable: it remembers which phonebooks were
open when a call was made, so that `Truthful` can compare that with the answer.

A user names phonebooks that it, or another user, was given the identifier of, or the
identifier `UUID()` that no phonebook has (`Stray`). The addresses and provider ids of the functions are left out:
there is one provider, and an RPC to an address without one fails in Thallium.

## 3. The runs

| Run | Instance | Shows |
|---|---|---|
| `provider` | 2 handlers, 2 phonebooks, 3 tokens being set | `SoundView`, `NoUseAfterFree`, `NoLeak`, `OneRemover`, `RepliedOnce`, `NoRevival`, the refinement `RegistrySpec`, and the invariant of the proofs, `IInv` |
| `provider_live` | 2 handlers, 1 phonebook | `Served`: every RPC is finished |
| `service` | 2 callers, 2 handlers, 1 phonebook, 2-bit integers | `Truthful`, `AskedFor`: what users are told was so during their calls; `Valued`: what they are given was made for them; `NoOrphan`: no phonebook is served that nobody can close; `IInv` of the proofs |
| `service_live` | 2 callers, 1 handler, 1 phonebook | `Answered`: every call returns or throws; `IInv` of the proofs, with the hellos and the stray identifiers that `service` leaves out |
| `async` | 2 threads, 2 objects, 2 requests, errors | `WaitDelivers`, and `Ends`: every operation ends; `IInv` of the proofs |
| `async_alone` | 1 thread, 3 objects, 3 requests, no errors | `NoRequestLost`, `NoLateWrite`; `AloneInv` of the proofs |
| `async_blocks` | 1 thread, 1 object, 2 requests | *finding*: a "non-blocking" call blocks |
| `async_told` | 1 thread, 1 object, 1 request | *finding*: an error that was already thrown is thrown again, out of the destructor |
| `owner` | 3 places, 2 of them movable, 3 implementations, up to 4 callbacks | `GoneFirst`: which implementations can be left when the engine ends; `NoCrash`: nothing null is dereferenced before it finalizes; `PinnedAlive` for the place that is not moved; `IInv` of the proofs |
| `owner_moved` | 3 places, 3 implementations | *finding*: the callback of a moved Provider stays behind |
| `life` | 1 stream, 2 handlers, 2 phonebooks, configurations of up to 3 entries | `ScanSound`, `Snapshot`: what `getConfig` walks and returns; `MembersExist`: no thread uses a member before or after its life; `Configured`: the configuration's phonebooks are made; `IInv` and `StreamInv` of the proofs |
| `life_scan` | 2 streams, configurations of up to 2 entries | *finding*: a handler changes the map under `getConfig` |

Bounds. Two handlers are enough for every race on one phonebook: two removers, a lookup and
a remover, a maker and anybody; what holds of any number of them is proved (section 4). Two
phonebooks let one be made while another is destroyed. `UUID` is also the number of identifiers that can ever be generated; a
`create` beyond it waits for ever in `make`, unless it fails (a bound of the model).
`MaxCallbacks` bounds the engine's list, which grows with every move: four let each of three Providers be in
it while one callback has been left behind. Two threads and
two `Slot`s let both threads hold copies of one request, and each overwrite its own; with
three, in the run of one thread, a copy is left while another is overwritten. Symmetry is used in runs of safety properties only.

In `Service`, two handlers let an answer be late while another request takes effect. One
phonebook is enough: it is open from the start or made by a call, then used and removed, and a
request touches no phonebook but the one it names (the case of several is in the runs of
`ProviderImpl`). `Used` bounds the RPCs of a run (`open` and `close` answer as `create` and `destroy` do), and one
hello is on its way at a time. With `Width` 2 and addends 0 and 1, 1 + 1 overflows and the other sums fit.
`Stray` is the identifier that no phonebook has, for users who name one nobody gave them, in `service_live`; in `service` it
is empty, and what is not found there was removed.

In `ProviderLife` two handlers let one hold the mutex over a yield point while the other waits for
it and the reader walks; three entries put a bad one before, between and after
good ones; two identifiers let a configured phonebook be removed while the other is made. An identifier
is used once, and a handler's create begins only while the configuration's phonebooks have identifiers to spare.
One stream is what the server runs by default (`examples/server.cpp:15, 43`: no threads for handlers), and the
properties of `life` are about that case. Two of them do not survive others, which `MCLife.cfg` shows
when its constants are changed: with `Streams = 2` a handler can be dispatched between two
of the constructor's `define()`s and lock a mutex that does not exist, and with
`Finalizing = FALSE`, which is what Bedrock's deregistration does (`src/BedrockModule.cpp:25-28`), a
handler that is queued or blocked goes on in a ProviderImpl that was destroyed (`MembersExist` fails in both).

Deadlock is checked in the runs of `ProviderImpl`, `Service` and `ProviderLife`: an idle handler can always
receive, an idle caller can always send, and the reader is never stopped.
In the others the system may stop: all requests are used up, a destructor has ended the
process, the engine is gone, a null pointer was dereferenced.

Fairness. `Served` assumes weak fairness of each handler's own steps (an Argobots execution
stream runs the threads of its pool) and *strong* fairness of `Lock`: the mutex is free
again and again, but other handlers may take it in between, and Argobots mutexes hand it to
waiting threads in turn. Nothing is assumed of clients, or of `setSecurityToken`. `Ends`
assumes that every request that was sent is answered or fails (`Arrive`), which is what
`Served` shows on the other side, plus the network. `Answered` assumes weak fairness of the
handlers' steps and of the delivery of a response, and strong fairness of a request's dispatch:
margo makes a thread for each RPC that arrives, so a request does not wait behind others for
ever; that handlers are few is a bound of the model.

## 4. What is proved

Each theorem is about `Spec` of its module and every value of the constants. The assumptions on them
are `ValuesAssumption`, `ProviderAssumption`, `AsyncAssumption`, `OwnerAssumption`, `LifeAssumption`,
`ServiceAssumption` and `NobodyAssumption`: marks such as `NilUUID`, `Null`, `Unlocked` or `Nobody` are not
values of the sets they are added to, the bounds are numbers, `Width` is not 0, and backends return
what they may return. TLC evaluates them in the runs. The hypotheses of single theorems are named
`Alone`, `OneStream` and `Finalizing`; each is the case of the run that checks the
property; sections 3 and 5 say what happens without it.

| Theorem | States | Needs besides |
|---|---|---|
| `ProviderProofs!TypeCorrect`, `Invariance` | `TypeOK`, `IInv` | |
| `ProviderProofs!Sound`, `UsedAlive`, `Freed`, `AnsweredOnce`, `RemovedOnce`, `Final` | `SoundView`, `NoUseAfterFree`, `NoLeak`, `RepliedOnce`, `OneRemover`, `NoRevival` | |
| `ProviderRefinement!Implements` | `RegistrySpec`: the handlers implement the registry | |
| `ServiceProofs!TypeCorrect`, `Invariance` | `TypeOK`, `IInv` | |
| `ServiceProofs!Told`, `Given`, `Owned`, `TakenIfAsked` | `Truthful`, `Valued`, `NoOrphan`, `AskedFor` | |
| `AsyncProofs!Invariance`, `Delivers` | `IInv`, of which `TypeOK` is a part, `WaitDelivers` | |
| `AsyncProofs!AloneInvariance`, `NoneLost`, `NoneLate` | `AloneInv`, `NoRequestLost`, `NoLateWrite` | `Alone` |
| `OwnerProofs!Invariance`, `Gone`, `Uncrashed`, `Pinned` | `IInv`, of which `TypeOK` is a part, `GoneFirst`, `NoCrash`, `PinnedAlive` | |
| `LifeProofs!TypeCorrect`, `Invariance`, `ConfiguredAll` | `TypeOK`, `IInv`, `Configured` | |
| `LifeProofs!StreamInvariance`, `ScannedSound`, `Consistent` | `StreamInv`, `ScanSound`, `Snapshot` | `OneStream` |
| `LifeProofs!MembersThere` | `MembersExist` | `OneStream`, `Finalizing` |

Every argument has the same shape: an inductive invariant `IInv`, one lemma for each action (or kind of
action) that shows that it is preserved, conjunct by conjunct, and the properties as its
consequences.

**ProviderImpl.** `SoundView` alone is not inductive: that a handler with the lock sees no null
entry depends on *who* can have left one. `IInv` therefore says who holds the lock
(`MutexInv`), what each handler has decided at each step (`ControlInv`), who may point at
which backend (`PointerInv`, `MakerInv`), that a half-done entry belongs to the one handler
at `assign` or `erase` (`EntryInv`, `EraseInv`), that what is unreachable was freed
(`NoLeak`), and that what was removed is gone (`RemovedInv`). The refinement maps a handler's `pc` to the
phases of the registry (`phaseOf`, `verdictOf`, `idOf`); an RPC takes effect at `Assign`, `Close`, `Erase`, `Find`,
`NotFound`, `MakeFails` or `RefuseToken`, and all other steps stutter (`SilentRefines`).

**Service.** `Truthful` speaks of a caller whose answer has arrived, and depends on where that answer was
before. `IInv` follows a call: its request is in `requests` once, or one handler owes it an answer,
never both (`RequestInv`, `OwedInv`); what that handler works on is what the caller asked for; what it has
decided is true of the phonebooks, and *stays* true until it is told, whatever the other handlers do
(`VerdictInv`: a phonebook that was open when the call was made is open or closed later, one that was
removed is never served again); an identifier that was made is on its way to one caller (`GivenInv`). The
provider's seven steps are of four kinds (`WorkIs`): `Admits`, `Settles`, `Opens`, `Removes`. `OutcomeSays`
reads what a handler puts into a `RequestResult` through the accessors of its template, and `Received`,
`Sendable` and `SameType` carry it through the serialization to the template that the caller reads.

**AsyncRequest.** `WaitDelivers` needs that a request that is marked as waited for was delivered
(`DeliveredInv`), and that nobody overwrites the AsyncRequest of a thread that waits on it (`ExclusiveInv`,
`OperandInv`). What a pointer points at is alive, and what is alive is pointed at (`LiveInv`, `KeptInv`, which needs
`LocalInv` for the pointer of a `computeSum` that has not stored it yet). `Alone`, one thread and no
errors, adds `AloneInv`: who is about to overwrite the last pointer has waited, and a caller is told only of
requests that are marked.

**ProviderOwner.** `GoneFirst` is about the step in which the engine ends. It needs that a `ProviderImpl` that is
registered has one owner, and that the engine still calls that owner back unless it is `Between` two lines
(`OwnedInv`, `CalledInv`): a move leaves the callback of the old address in the
list and adds one for the new, so the list may name more than it must, never less. `NoCrash` needs that what is about to
be dereferenced is there while no callback runs (`SelfInv`), and therefore that no Provider is moved to two places
(`SourceInv`). `PinnedAlive` needs that a Provider that is not moved is in the list exactly once
(`PinnedInv`): the destructor pops one callback only.

**ProviderLife.** `IInv` holds on any number of streams. `CountInv` is the constructor's loop invariant: what is made
and what the rest of the configuration promises add up, while handlers insert and remove other phonebooks.
On one stream, `StreamInv` says that at most one thread is between two points where it may block (`Running`), and that the
document of `getConfig` lists only what is in the map; from this follow the properties of the walk, which
takes no lock. `"scan"` must not be in `Blocking`: a backend's `getConfig` that blocks gives the stream away in
the middle of the walk.

What the proofs showed about the models. The result of a handler was once given by a CASE with two arms for a
`close` that was denied; TLC takes the first, TLA+ leaves the choice open, and `OutcomeSays` could not be
proved. A failure now comes first, as in the code. `LocalInv` had to say that two
threads never have the same new request, and `KeptInv` that none is leaked, before `AloneInv` was inductive.

Model-checked only: liveness (`Served`, `Answered`, `Ends`), which needs ENABLED and fairness and
is out of reach of the prover. Facts that need induction over data, and RECURSIVE operators, are also out
of reach; the modules that are proved about use neither. Every safety invariant and every action property of
the passing runs is proved.

## 5. Findings

1. `computeSum` with a request is documented as non-blocking (`include/yp/PhonebookHandle.hpp:82-83`);
   it blocks when `*req` still holds a pending request (`src/PhonebookHandle.cpp:80`,
   `src/AsyncRequest.cpp:41-43`). Run `async_blocks`.
2. A `wait()` that throws leaves `m_waited` false (`src/AsyncRequest.cpp:52-53`); the destructor waits
   again, throws again, and the process is terminated, although the caller did wait as
   `include/yp/PhonebookHandle.hpp:83-84` asks. Run `async_told`.
3. The move constructor of Provider pops the wrong callback (`src/Provider.cpp:27`): a server with
   several providers in a vector (`examples/server.cpp:28-31`) writes to freed memory when it
   finalizes. Run `owner_moved`.
4. `ProviderImpl::getConfig` walks `m_backends` without its mutex (`src/ProviderImpl.hpp:114`). On one
   execution stream nothing comes between two turns of the walk (run `life`); on two, for which
   `examples/server.cpp:43` has an option, a handler inserts or erases in the middle of it, and the walk can
   find the null pointer of a half-done insertion. Run `life_scan`.

With two threads `NoRequestLost` and `NoLateWrite` fail as well (two last copies let go at once; two
waits at once). Nothing in the documentation promises them for several threads, so they are
stated for one.

Two more things go wrong when an engine finalizes beside `src/Provider.cpp`, which `examples/server.cpp:27` allows by
enabling remote shutdown before the providers are made; the documentation does not promise otherwise, so they are
the exceptions of `GoneFirst` and `NoCrash`, not findings. A `ProviderImpl` whose constructor has not reached its
`push_finalize_callback`, or whose destructor is past its `pop_finalize_callback`, is still there when the engine has
ended, and deregisters its RPCs from an engine that is gone. And a callback between lines 33 and 34, 17 and 18 (of an
address used before) or around 27 and 28 leaves a null pointer to dereference.

## 6. Plan

Done: the handlers and their refinement; asynchronous requests; ownership; the users' side with its
results; the life of a provider and its configuration; the proofs of all safety and action properties.

Next, in this order:

1. The composition of `Service` with `ProviderImpl` as a specification of its own, in which the handlers of
   `ProviderImpl` take their requests from the network, and a proof that it implements `Service`: section 2 now
   argues this from `Implements`.
2. An abstract specification of an asynchronous request, which is pending, then delivered, and waited for, and
   `AsyncRequest` shown to implement it.

## 7. Not modelled

- The text of JSON documents and of error messages; printing, parsing and hashing of UUIDs, which no
  state of the program depends on.
- Failures of the network and of processes: the code has no timeout, retry or recovery. An RPC that fails
  throws out of the call that made it; in `AsyncRequest` an answer may be an error.
- A backend whose `create()` returns null: the only backend never does.
- Exceptions out of a backend's `computeSum`, `sayHello` or `destroy`: nothing catches them, and the interface
  is to return a result.
- The client half of the Bedrock module, which wraps Client and Admin objects in pointers; argument parsing of
  the examples; the tests and the build files, read as documentation.
