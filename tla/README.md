# CERTI: a TLA+ verification project

CERTI is a distributed run-time infrastructure for HLA simulations. This
directory holds TLA+ models of its protocols, the configurations that
model-check them with TLC, and proofs that TLAPS checks. `PROJECT.json` lists
components, runs, mutants, findings, hazards and theorems, and maps every
definition that stands for code to the lines it stands for.

1. [The system](#1-the-system)
2. [The models](#2-the-models)
3. [The runs](#3-the-runs)
4. [The proofs](#4-the-proofs)
5. [Findings](#5-findings)
6. [What is left out](#6-what-is-left-out)
7. [The plan](#7-the-plan)

## 1. The system

A *federate* is a simulation linked with `libRTI`. Each federate has a process
of its own, the **RTIA**, which it talks to over a local socket; all the RTIAs
are joined by one TCP stream each to a single process, the **RTIG**, which
serves every federation.

```
 federate -- RTIA --\             /-- RTIA -- federate
 federate -- RTIA ---+-- RTIG ---+
 federate -- RTIA --/
```

An RTIA is one thread that waits in `select` on its two sockets and handles one
request of its federate, or one network message, at a time. The RTIG is one
thread that handles one message of one federate at a time, and writes what it
has to say to others on their streams before it reads again. So each process is
sequential and every stream is FIFO; all the concurrency is between processes.

### Components

| Component | State | Operations | Interacts with | Hard part | What makes it correct |
|---|---|---|---|---|---|
| LBTS (`libCERTI/LBTS.cc`) | a clock per known regulator, the cached minimum | insert, update, remove, compute | inherited by RTIA `TimeManagement`, RTIG `Federation` | leaving out one's own clock; operations that throw | a clock never exceeds what can still come |
| RTIA time management (`RTIA/TimeManagement.cc`) | advance in progress, its date, current time, lookahead, granted state, last NULL date, roles | TAR, TARA, NER, NERA, enable and disable of the two roles, `setLookahead`, `testValidTime`, `tick` | federate (requests, grants), RTIG (NULL messages), queues | promises of several federates race through the RTIG; zero lookahead; everyone waits for everyone | no event in the past, promises kept, every advance granted |
| RTIA queues (`RTIA/Files.cc`) | commands, FIFO, TSO | insert, give | network dispatch fills them, `tick` empties them | order among equal dates; what a change of role leaves behind | TSO in the order of dates |
| RTIA network and federate dispatch (`RTIA_network.cc`, `RTIA_federate.cc`) | none of its own | one case per message | all RTIA managers | a tick with time-outs; which queue a message goes to | each message handled once, in stream order |
| RTIA communications (`Communications.cc`) | `waitingList` | `waitMessage`, `readMessage`, `requestFederateService` | both sockets | messages put aside while a reply is awaited | the order of the stream survives |
| RTIA object, declaration, ownership, DDM managers | the local `RootObject` | the HLA services | RTIG through request and reply | ownership transfer between several RTIAs | one owner per attribute |
| RTIG federations (`FederationsList.cc`, `Federation.cc`, `Federate.cc`, `RTIG.cc`) | federates, regulators, labels and who still has to achieve them, save and restore status | create, destroy, join, resign, kill, the services above | every RTIA | a federate that disappears in the middle of anything | nobody waits for the dead; status always returns to idle |
| RTIG message processor (`MessageProcessor.cc`) | none of its own | one handler per message, returns responses | `Federation`, sockets | responses dropped or sent in another order | every change is told to those concerned |
| MOM (`Mom*.cc`) | the management objects | reports, remote calls | `Federation` | none of its own | reports what is so |
| libRTI | reentrancy flag, callback dispatch | marshalling | RTIA | concurrent access guard | - |
| FOM parsers, message classes, sockets | - | - | - | - | - |

How time works. A *regulating* federate promises, in a **NULL message**, to send
no event dated before a time; the RTIG keeps the promise as its clock and
broadcasts it; each RTIA keeps a clock per regulator. A *constrained* federate
that asks to advance to a date is granted it when the least clock of the others
(the LBTS) has passed that date, and it receives its dated events before, in
the order of their dates, from the TSO queue. `doc/NullMessageProtocol.xml` is
the authors' own UPPAAL sketch of one step of this exchange.

How ownership works. Each attribute of an object has one owner, recorded at the
RTIG only; federates learn of it from callbacks. A federate asks for an
attribute, its owner is asked to release it, and the release hands it to the
first candidate; or the owner divests it, or offers it. A request is synchronous
and callbacks are asynchronous, so what a federate takes itself for the owner of
trails what the RTIG records.

How the federation services work. Synchronization, save and restoration have one
shape: a request, a note at the RTIG of the members who owe an answer, a
broadcast, the answers, and a broadcast when the last one is in. RTIAs keep flags
of their own, by which they refuse services meanwhile, and set them when the
callback is *delivered*, not when the message arrives.

How objects work. An RTIG-wide tree of classes holds publishers, subscribers and
the objects; a broadcast climbs from the class of the object to the root, and
sends each federate what it subscribes there and has not been sent below. An RTIA
keeps the objects it has been told of and puts the messages into its FIFO.

The hazards of all this, each at its line, are under `hazards` in
`PROJECT.json`.

## 2. The models

| Module | What it is |
|---|---|
| `LBTS` | the clock set as a function from regulators to dates, pure operators |
| `TimeManagement` | time: all RTIAs, the RTIG, the streams |
| `ConservativeTime` | what time management promises, with no process nor message |
| `TimeInvariant` | the inductive invariant of time management |
| `TimeRefinement` | the refinement mapping, and what it needs beyond that invariant |
| `ClockReplicas` | clock sets as replicas: what replaying a stream makes of a clock |
| `MCTimeManagement` | the instances for TLC, fairness, liveness |
| `TimeManagement_proofs`, `TimeSafety_proofs`, `TimeRefinement_proofs`, `ClockReplicas_proofs` | the proofs about time |
| `Ownership`, `MCOwnership` | the owners of the attributes of one object |
| `ExclusiveOwnership` | what ownership management promises, with no requests nor callbacks |
| `OwnershipRefinement` | its refinement mapping |
| `Ownership_proofs` | the proofs about ownership |
| `FederationManagement`, `MCFederation` | membership, synchronization points, save and restoration |
| `Rendezvous` | what the three protocols promise, with no RTIA, stream nor queue |
| `FederationRefinement` | its refinement mapping |
| `FederationInvariant` | the inductive invariants of the three |
| `Federation_proofs`, `Answers_proofs` | the proofs: how points end; that answers are not exceptions, and can come |
| `Objects`, `MCObjects` | declarations, discovery, updates, removals, interactions |
| `Objects_proofs` | the proofs about objects |

The four systems share processes and streams in CERTI and are separate here: the
requests of one do not read the state of another, but for the refusals while a
save or a restoration is in progress, which are in `FederationManagement`.

### `TimeManagement`

Variables keep the names of the members (`avancee_en_cours`, `date_avancee`,
`type_granted_state`, `heure_courante`, `lookahead_courant`,
`lastNullMessageDate` for `_lastNullMessageDate`, `my_regulators` for
`Federation`'s clock set). `up[f]` and `down[f]` are the two directions of the
stream of `f`. Two variables are history: `promised[f]`, the greatest date that
`f` has put in a NULL message or declared when it enabled regulation, and
`horizon[f]`, the greatest date granted or delivered to `f`. `phase` and
`spent` belong to the federates: where each is in the start-up, and a budget.

Actions, one per handler:

- the requests of the federate: `SetTimeRegulating`, `SetTimeConstrained`,
  `SetLookahead`, `TimeAdvanceRequest`, `TimeAdvanceRequestAvailable`,
  `NextEventRequest`, `NextEventRequestAvailable`, `SendDated`
  (`updateAttributeValues` and `sendInteraction` with a date), `DeleteObject`,
  `SendReceiveOrder`, `SynchronizationPointAchieved`. A refused request changes
  nothing and is not a step;
- `Tick`, one iteration of `TimeManagement::tick`: a command, else a FIFO
  message, else `timeAdvance` (`TimeAdvanceTso`, `TimeAdvanceDone`) or
  `nextEventAdvance` (`NextEventReached`, `NextEventShort`, `NextEventFree`);
- `Rtig`, the RTIG taking the head of one stream: `UpdateRegulator`,
  `AddRegulator`, `RemoveRegulator`, `SetConstrained`, `Broadcast`,
  `UnregisterSynchronization`, each with all the responses it writes;
- `ProcessNetworkMessage`, an RTIA reading its stream: `ReceiveClock`,
  `ReceiveCommand`, `ReceiveEvent` with the sorted insertion.

Dates are natural numbers. `epsilon2` is the constant `Eps`; the proofs ask only
that distinct dates of requests and events be at least `Eps` apart and that no
lookahead be `Eps` itself. `_type_granted_state` has no initial value in the
code: it starts as `"UNINITIALIZED"`, and `TestValidTime` takes either branch
while it has that value.

### The discipline of federates

The RTIA does not enforce everything that safety needs. `Federate`s of the model
therefore follow a discipline, collected in the section "What the federates do":
roles are enabled before a federation-wide synchronization point and disabled
after it, the lookahead of a regulator only grows, dated events come from
regulators that have advanced at least once, and after a zero lookahead grant
the available services go strictly forward. It is the way the test
federates behave (`src/test/Billard/main.cc`). The
constant `Liberties` names the departures that an instance allows; a liberty is
never needed to reach the finding about the RTIA's own tests, only to leave the
start-up pattern (`late_regulation`, `late_constrained`), or to use services the
RTIA does not check (`dated_delete`, `lookahead_change`,
`zero_lookahead_switch`, `event_before_advance`, `unregulated_sender`).

### `ConservativeTime` and the refinement

The abstract specification has who regulates, who is constrained, what each has
promised, which events are pending for whom, and how far each federate is. A
grant or a delivery is allowed only when `Safe`: no pending event and no promise
of another regulator is earlier. The mapping, in `TimeRefinement`, takes
`promised` for the promise and, for the pending events of `f`, those on any
stream towards `f` and those in its TSO queue. Every step of the processes is
then a step of `ConservativeTime` or changes nothing of it. It says that no
interleaving of RTIG and RTIAs is visible to federates. TLC checks the mapping on
instances and TLAPS proves it (section 4).

### `Ownership`

The attributes of one object: at the RTIG `owner`, `divesting` and `candidates`
per attribute (`ObjectAttribute`), `objectOwner` (`Object::Owner`, which decides
who may delete), `members`; per federate the service it waits for, the reply and
the callbacks sent and not delivered. What a federate takes itself for the owner
of (`believes`) and what it waits to acquire (`wants`) are history.

The actions of the RTIG bear the names of the services. Each is a whole handler
of `ObjectClass.cc` or `ObjectSet.cc`: the tests in their order, the changes, and
the callbacks in the order they are written. The candidates are a set ordered by
handle in the code (`std::set`), and `GetFirstCandidate` is the smallest.
Two handlers fail after their changes, and the actions say so: the unconditional
divestiture of an attribute without candidates answers an internal error
(`doubt`), and a negotiated divestiture that is carried out ends the RTIG
(`rtigUp`).

Federates give only what they believe they own, and stop using it before they
ask; they ask only for what they do not own. A federate may be lost at any
time (`Die`); the RTIG learns of it later (`KillFederate`).

**The refinement.** `ExclusiveOwnership` has a holder for each attribute and the
attributes that each federate uses. A federate starts to use only what it holds, an
attribute changes hands only while nobody uses it (`Pass`), and when the RTIG stops
or the object is deleted all use ends (`Stop`). `OwnershipRefinement` takes `owner`
for the holder, and what a federate believes it owns for its use: from the callback
that tells it to the call that gives the attribute away. Left out are federates that
have resigned or are lost, and the attributes of a divestiture that ended in an
internal error (`doubt`): the RTIG has them without an owner while the caller was
told that the call failed, and takes itself for their owner again.

### `FederationManagement`

At the RTIG: `members`, the labels, save and restoration in progress (`pending`),
what each member owes (`owed`: the labels of `Federate::my_syncLabels`, `isSaving`
and `isRestoring`), the two statuses, and the references of links. At each RTIA:
its flags, its command queue, both directions of its stream. At each federate:
`duties`, what it was told of and has not answered.

The code tells points apart by label only; the model numbers them (`round`) so that
properties can speak of one. Actions of the RTIA: join, resign, registration for
all or for a set, achievement, requests and answers of save and restoration, each
with `saveAndRestoreStatus`; `ProcessNetworkMessage` with the order in which
commands are queued (`InsertCommand`), the end of an RTIA on a message it does not
know; `WaitMessage`, which takes the answer out of the stream and leaves the rest for
later; `Tick`. Actions of the RTIG: one per handler, with `RespondToAll`, which
looks up the link of every member first and fails when one has none (`unlinked`: a
federate that has resigned and joined again on its link).

**The refinement.** `Rendezvous` is a point that begins with the members it is asked
of, and ends when none has still to answer; whoever hears of the end hears of it
after that, and of a success only when nobody refused. Members come, leave and are
lost at any time. In `FederationRefinement` a federate has answered once its answer
is on its stream, and has heard once tick gave it the callback; so announces, their
delivery, the flags of RTIAs and the order of queues are stutters, and a loss may take
the last answers of a federate with it.

### `Objects`

At the RTIG: who publishes and subscribes which attributes of which class, the
objects, the interactions; at each RTIA `known`, its root object, and `fifo`. The
broadcast up the hierarchy is pure operators over `Lineage`, the path from a class to
its root: `Waiting` (the attributes a line of `ObjectClassBroadcastList` is left waiting
for at each class), `ReflectAt` (the message at one class), `ReflectsFor`,
`DiscoverFor`, `RemoveFor`, `InteractionsFor`. `ClassAssumption` says that classes form
forests and inherit attributes, which a FOM read parent first gives; `ListsAssumption`,
that an update names each attribute once. A call, its handler and the effect of
its reply are one step: the RTIA waits for the reply and keeps what comes before
it, so nothing of the federate happens in between. The reading of messages by
RTIAs, ticks, losses and their detection interleave.

## 3. The runs

Times are `{0, 2}` with `Eps = 1`: one advance, and room for a date strictly
between. Lookaheads are `{0, 2}`: the zero case and one that spans an advance.

| Run | Instance | What it shows |
|---|---|---|
| `time_startup` | 2 federates, both roles, from an empty federation; TAR, TARA, NER, dated and undated sends | the start-up and all the races of regulators coming in: no clock operation throws, grants are final, clocks bound what is in flight, advances are announced, promises kept, time goes forward; an event is at one place at a time (`EventInvariant`); `SafetyInvariant` is not just inductive on paper; the federation implements `ConservativeTime` |
| `time_services` | 2 federates, from the synchronized federation; NER, deletions, lookahead changes, both roles given up | `NoMessageInThePast`, `KeepsPromise`, `EachStepImplements` |
| `time_any` | a regulator that switches regulation off and on at any time, NERA over a pending advance | no message in flight will make a clock operation throw (`EveryMessageFits`), and the clock sets stay replicas up to what is in flight |
| `time_liveness` | 2 federates with both roles and NER or TAR | every advance is granted, everyone reaches the last date |
| `ownership` | 3 federates, 2 attributes (`privilegeToDelete` and one published), every service, 4 requests, one mortal | RTIG and federates agree on owners, no accepted acquisition is lost, the privilege and the right to delete stay together, attributes only leave by consent; all of it implements `ExclusiveOwnership` |
| `federation` | 2 members, a third that joins and may be lost, one label, for all or a set, save, timed save, restoration, resignation, rejoining; any 2 services together | an end is announced only after all answers and with the right verdict; no RTIA is ended by a stray exception; `FederationInvariant` and `StrayInvariant`, from which both are proved; the three protocols implement `Rendezvous` |
| `federation_liveness` | a member and one that joins, none lost; any 2 of a label, a save and 2 restorations | the RTIG waits only for answers that can come (`AwaitedCanAnswer`, with `AwaitedInvariant`, from which it is proved); somebody owes what is in progress (`PendingIsOwed`); every label, save and restoration ends; the requester is told |
| `discovery` | 2 classes in a hierarchy, 2 interaction classes, a publisher that resigns or is lost, a subscriber | every subscriber learns of every object, in order (`KnowledgeInvariant`); broadcasts are exact; interactions come once |
| `time_nera`, `ownership_unavailable`, `federation_save`, `discovery_values` | small instances | the findings of section 5 |

Each property of a passing run has a mutant: a plausible slip in one mapped
definition under which TLC finds the property violated.

**Why the bounds are enough to be interesting.** Time: two federates already race,
each the regulator and the constrained federate of the other; two dates give a
pending advance, a grant, and requests for the date one already has; with
`MaxSpent = 1` each federate sends one event, or makes one change of role, at any
moment of that. Broadcasts to several receivers and the LBTS as a minimum of
several clocks are the business of the proofs, which have no bound on federates,
dates or events. Ownership: with three federates a candidate's handle may be
smaller or greater than the owner's (federate 2 creates the object), two
candidates compete, and four requests are what it takes to ask, be asked, release
and be crossed by another; the proofs have no bound. Federation: two services in one behaviour give every
pair of protocols together, each with a federate joining, resigning or dying at
any point (`MaxServices`). `federation_liveness` has a federate less, since what
it looks at is the order in the queue of one RTIA; a second restoration may be asked for
while the end of the first is on its way to the other federate, which is where an announce
could overtake an end. Objects: two classes are
the least with an inherited attribute; three subscriptions let a federate change its mind;
two objects tell one from another (`MaxCalls`, `Programs`, `MaxObject`).

Symmetry is declared only where `Regulators = Constraineds = Federate` and no
liveness is checked. Deadlock is not checked: calls are bounded everywhere, and
federates stop at the last date.

`time_services`, `time_any` and `time_liveness` start with the
federation synchronized, in the state the start-up leads to when all is drained
(`InitSynchronized`); `time_startup` goes through the start-up itself.

**Fairness of time.** Weak fairness of the RTIG as a whole, `\E f : Rtig(f)`, and not of
each stream: in the default build it waits in `select` and then serves the first
ready link of its list (`SocketServer::getActiveSocket`), so a busy federate may
hold up those behind it. Liveness holds all the same because `sendNullMessage`
never repeats a promise: traffic runs dry while federates wait. Weak fairness of
`ProcessNetworkMessage(f)`: `Communications::readMessage` takes the network
before the federate. Weak fairness of `Tick(f)`: a federate calls tick until it
is granted, as `TimeManagement.hh` requires of it. `Participates(f)` is the
simulation: it goes through start-up, and keeps asking to advance and finally
gives up regulation. Those two are strongly fair since a federate may in the
meantime ask for a date it already has, which disables them for a while. Without
them "everyone reaches the end" would be false for a reason that is not CERTI's:
a regulator that never advances holds everybody.

**Fairness of `federation_liveness`.** Weak fairness of `RtigStep(f)` for each
stream: calls are bounded, so no federate keeps its link busy for ever and a
`select` loop comes to each. Weak fairness of what an RTIA does unasked (reading, waiting)
and of the federate's part: it ticks, and answers each announcement, with
success or failure. No fairness is asked of new requests, resignations or losses.
One federate asks for saves and restorations, and waits for the end of one before
it asks for the next: with two, a save and a restoration in progress together
deadlock. Sets and losses are left out for the reasons given under `hazards`.

## 4. The proofs

Theorems without a hypothesis hold for all constants that meet the assumptions of the
module: any sets of federates, labels and classes, any bound, any services. A
hypothesis on constants is stated with the theorem.

### Time

| Theorem | Module | Statement | Hypothesis |
|---|---|---|---|
| TypeCorrect | `TimeManagement_proofs` | `Spec => []TypeOK` | |
| AdvancesAreAnnounced | `TimeManagement_proofs` | `Spec => []AdvanceIsAnnounced` | `SettledRegulation` |
| ClocksAreReplicas | `ClockReplicas_proofs` | `Spec => []ClocksReplicate` | |
| MessagesFit | `ClockReplicas_proofs` | `Spec => []EveryMessageFits` | |
| NoClockOperationThrows | `ClockReplicas_proofs` | `Spec => []NoInternalError` | |
| SafetyInvariantHolds | `TimeSafety_proofs` | `Spec => []SafetyInvariant` | `Disciplined` |
| NothingArrivesInThePast | `TimeSafety_proofs` | `Spec => []NoMessageInThePast` | `Disciplined` |
| GrantsAreFinal | `TimeSafety_proofs` | `Spec => []GrantIsFinal` | `Disciplined` |
| ClocksBoundEvents | `TimeSafety_proofs` | `Spec => []ClocksAreLowerBounds` | `Disciplined` |
| PromisesAreKept | `TimeSafety_proofs` | `Spec => KeepsPromise` | `Disciplined` |
| GrantsGoForward | `TimeSafety_proofs` | `Spec => TimeGoesForward` | `Disciplined` |
| EventsAreNotDuplicated | `TimeRefinement_proofs` | `Spec => []EventInvariant` | `Disciplined` |
| RefinesConservativeTime | `TimeRefinement_proofs` | `Spec => ImplementsConservativeTime` | `Disciplined` |
| EachStepIsConservative | `TimeRefinement_proofs` | `SafetyInvariant /\ EventInvariant /\ [][Next]_vars => EachStepImplements` | `Disciplined` |

`Disciplined`: no liberty is taken, and nextEventRequestAvailable, which is broken, is
not called. `SettledRegulation`: regulation is not switched off and on again
(`late_regulation`) and lookaheads do not change; without it the theorem is false of
the code, since `_lastNullMessageDate` outlives both (see `hazards`).

Assumptions: `TimesAssumption` (dates are naturals, 0 is one, two dates are at
least `Eps > 0` apart), `LookaheadsAssumption` (lookaheads are naturals other than
`Eps`, which `setLookahead` refuses), `RolesAssumption`. Federates are any set.

**The invariant.** None of the properties is inductive. What a regulator `g`
says reaches `f` along one path, `up[g]`, the RTIG, `down[f]`, `clocks[f]`.
`SafetyInvariant` says, of paths:

- `Ordered`: on a path, an event comes behind no promise later than its date and
  behind no end of regulation of its sender, and no declaration of a regulator
  comes behind the end of the start-up. It is what FIFO streams and a sequential
  RTIG give;
- `MessagesHold`, `ClocksHold`: nothing on a path exceeds what its sender has
  promised;
- `StartupHolds`, `Known`: a synchronized federate has met every regulator, and
  whoever may be sent an event has, or will have before the event, a clock for
  its sender. Without it the LBTS could leave a regulator out;

and of each federate:

- `Local`: how the advance, the granted state and the epsilon lookahead go
  together;
- `Queue`: the TSO queue is sorted, and a constrained federate is past no clock
  and no message it holds;
- `Floor`: a regulator's promise is at most what `testValidTime` will still
  accept. For a next event request, whose date is not known yet, it must hold
  for each of the dates the request may end at: the date asked for, any clock,
  any queued message;
- `Strict`: after a strict grant, strictly short of every clock and message.

**The layout.** `TimeManagement_proofs` has, beside the types, what the operations do to
a path (append, take the head, move a message from `up[g]` to every `down[f]`).
`TimeSafety_proofs` has one lemma per operation saying that it keeps the
invariant, assembles the step, and draws the properties.
A typical argument: a grant to `date` needs every clock of `f` past `date`
(`LbtsAllows`); an event of `g` still on its way is behind everything `clocks[f]`
was raised by (`Ordered`, `ClocksHold`), so it is not earlier than that clock;
an event not sent yet is not earlier than `promised[g]` (`Floor`), which is not
earlier than the clock; and `g` is among the clocks (`Known`).

**The refinement.** `TimeRefinement_proofs` shows that initial states map to initial
states and every action to a step of `ConservativeTime` or a stutter: a grant is
`Safe` by the argument above; a delivery takes one event out of `pending`; `Rtig` and
`ProcessNetworkMessage` move events along and leave `pending` as it is; an event that is
sent is new to every receiver. `EachStepIsConservative` says it of the steps from any
state in which both invariants hold, not only of behaviours from `Init`; it is the form that
`time_services` checks, which starts from the synchronized federation. The last three need more than `SafetyInvariant`: that an
event is at one place of its way and there once, and that it carries a number its
sender has used up (`EventInvariant`). A copy left on a stream would make a delivery
that does not end the wait.

**The replicas.** `ReplicaInvariant` is about `Replayed(s, g, clock)`, the clock of `g`
after all the messages of `s`: replaying `up[g]` on the RTIG's clock gives what `g` says
of itself, replaying `down[f]` on the clock of `f` gives the RTIG's, and each
message of either stream fits where it comes. An action appends to a stream what
it does to its source, or takes the head and does it to the target, and both keep the
equations. It holds whatever federates do, all liberties and NERA included, and
gives the three theorems of `ClockReplicas_proofs`.

### Ownership

For any set of federate handles, any attributes, lists and publications, all
services, losses included:

| Theorem | Module | Statement |
|---|---|---|
| OwnershipTypeCorrect | `Ownership_proofs` | `Spec => []TypeOK` |
| DeleterAlwaysOwnsPrivilege | `Ownership_proofs` | `Spec => []DeleterOwnsPrivilege` |
| AttributesAreGivenAway | `Ownership_proofs` | `Spec => OnlyGivenAway` |
| OwnersAlwaysAgree | `Ownership_proofs` | `Spec => []OwnersAgree` |
| NoAcquisitionIsLost | `Ownership_proofs` | `Spec => []NoLostAcquisition` |
| RefinesExclusiveOwnership | `Ownership_proofs` | `Spec => ImplementsExclusiveOwnership` |

`FederateAssumption` and `AttributeAssumption` are all they assume.
`AttributesAreGivenAway` needs that no attribute is ever on offer while the RTIG
runs (`NothingOffered`: the one handler that would offer it ends the RTIG), so
`Available` means without an owner.

`OwnersAgree` is not inductive: it says that an attribute is in `Holds(f)`, a union
of what `f` believes, what a callback will give it and what it has asked to give.
`AgreementInv` counts instead. `Free(f, a)`: none of the three (belief, callback in
flight, request to give) makes `f` the owner of `a`. `Once(f, a)`: exactly one of
the three does, and when it is a callback, exactly one callback. `AgreeAt(f, a)`:
`Once` when the RTIG records `f` as the owner of `a`, `Free` otherwise. With
`OwnerIsNoCandidate` (a handover goes to someone else), `NoneDivested` (no callback
takes an attribute away from its holder) and `ReplyIsAwaited` (a reply answers the
request in hand) it is preserved by every step: a handler moves the
attribute from the request of the giver to a callback of the taker, a delivery from
the callback to the belief, a refusal from the request back to the belief.

`NoLostAcquisition` speaks of what a federate waits for once the reply has reached it.
`AcquisitionInv` begins earlier: `Seeks(f)` adds the attributes of an acquisition
that is answered and not returned, and each of them is `Underway(f, a)`, `f` being a
candidate or an outcome being in its queue. A handover takes a candidate off the list
and sends it the notification in one step; a delivery ends the wait.

`RefinesExclusiveOwnership` is about steps, and needs `AgreementInv` on both sides of
each. What a federate uses it believes, so the RTIG has it as the owner (`Once`), before
the step and after it. A step of a federate or a delivery changes what one federate
uses and no owner, which is `Use`. A step of the RTIG changes owners and no belief, so
an attribute that somebody uses has the same owner on both sides, which is `Pass`, and
a resignation is a `Use` of nothing (a federate that is lost uses nothing
already when the RTIG learns of it). The unconditional divestiture without candidates puts
attributes in `doubt` in the step that takes their owner away; nobody uses them then,
since the caller gave them up before it asked, and the error that makes it
believe in them again comes later. A deletion of the object and the end of the RTIG are
`Stop`.

### Membership, synchronization, save and restoration

| Theorem | Statement | Hypothesis |
|---|---|---|
| FederationTypes | `Spec => []TypeOK` | |
| PointsAreKept | `Spec => []FederationInvariant` | |
| PointsEndTogether | `Spec => []EndsTogether` | |
| RefinesRendezvous | `Spec => ImplementsRendezvous` | |
| RequestsAreSettled | `Spec => []StrayInvariant` | `OneRequester` |
| NoRtiaIsEnded | `Spec => []NoStrayAnswer` | `OneRequester` |
| LinksRefer | `Spec => []OnceInvariant` | `NoneRejoins` |
| ProgressIsOwed | `Spec => []OwedInvariant` | `ForEveryone`, `NobodyLeaves`, `OneRequester` |
| PendingAreOwed | `Spec => []PendingIsOwed` | `ForEveryone`, `NobodyLeaves`, `OneRequester` |
| AnswersAreKept | `Spec => []AwaitedInvariant` | `Regular` |
| AnswersCanCome | `Spec => []AwaitedCanAnswer` | `Regular` |

The first four are in `Federation_proofs`, the others in `Answers_proofs`; they rest on `ConstantsAssumption` only: any federates,
founders, labels and sets of federates to register on, all of them mortal or not.

Not even `TypeOK` is inductive (who may answer depends on what is on its way), nor is
`EndsTogether`. `FederationInvariant` follows the question "are you done with x?", for a
label, the save or the restoration `x`, from the RTIG to the federate and back: the
announce on the stream (`Told`), in the command queue (`Queued`), with the federate
(`Due`), the answer on the stream back (`Answering`). `AskedOnce` says that it is at one
of these places at most; `AsksHold`, that wherever it is the RTIG notes that the
federate owes the point. So when nobody owes it any more, nobody has it, and an end may be told
(`EndsHold`). `LinkHolds` is the protocol of joining and leaving: nothing of a federate is
on the streams before it joins or behind its resignation, and a federate that
was lost leaves a stream behind that is read to its end. `FailuresHold` keeps the verdict: a failure
that was answered is on its way, or the status has it, or its sender is lost and the
answer may be too. The points that a joining federate is told of are those it is noted
for, which is what the mutant `AddFederateUnowed` breaks. All this is for links that refer
to their member (`Linked`); a federate that has joined twice on its link is never told
of anything.

`OneRequester`: at most one federate asks for saves and restorations. With two, the RTIG
refuses the later request with an exception, and the RTIA ends, so the property is
false of the code (see `hazards`). `StrayInvariant` says that what the requester
has asked for is at one place: the request on its stream, the save or restoration in
progress, or its end on the way back; while it is at any of these the requester waits and asks
for nothing. So a request finds nothing in progress, and is not refused. The other
requests that could be refused, answers, are covered by `AsksHold`: what is answered is
owed.

`RefinesRendezvous` maps each handler, with `FederationInvariant` before the step: an
announce is a `Begin` and finds no point of its kind running, an answer of a federate
takes one point out of what remains (`AskedOnce`: it is not on its way a second time),
the RTIG reading it is a stutter unless it is the last, when nobody owes the point and
`FailuresHold` gives the verdict. It needs no hypothesis: federates may rejoin, be lost
and ask at the same time.

**What is awaited.** The converse of `AsksHold` is that whoever owes a point is asked: `AnswersHold`,
in `AwaitedInvariant`, says that for each point that a present member owes, the announce,
the question or the answer is at one of the places, and that the flags or labels of its
RTIA, which decide whether the answer is passed on, still say so. A flag is set when the
announce is delivered and reset when the end is, so the proof is about the order of these
in `down` and in the command queue, where saves and restorations are put in front
(`InsertCommand`). `RestoreHolds`: the end of a restoration is behind no start of a
restoration, and while the question is with the federate no end of an earlier one is still to
come. For a save no such order holds of the code, which is the finding of
`federation_save`; hence `OneSave`, and `SaveHolds`: the one save is asked for, in progress or
over, and only one of these. The mutant
`InsertCommandFirst` puts every message in front and breaks the invariant.

`OwedInvariant` is `PendingIsOwed` with nobody on the way out. A point stays in progress only until
the answer of the last member that owes it is read, in the same handler.

The hypotheses are properties of constants, and each excludes a case in which the
statement is false of the code (`hazards`):

- `NoneRejoins` (no resignation, or no second join): a link that has joined twice does not
  refer to its member and the RTIG sends it nothing. With it `OnceInvariant` gives
  `unlinked = {}`;
- `ForEveryone`: a label that is registered for a set is owed by the registrar too, which
  it is not announced to; a registrar in the set is refused half way, when some members
  owe what nobody announces; and a label for the empty set is owed by nobody;
- `OneSave`: see above. Restorations are not limited, nor are labels, losses and resignations;
- `NobodyLeaves` (for `PendingIsOwed` only): the RTIG does not look at what is in progress when a
  member resigns or is lost, so a point that only it owed is pending for ever.

### Objects

| Theorem | Statement |
|---|---|
| ObjectsTypeCorrect | `Spec => []TypeOK` |
| KnowledgeInvariantHolds | `Spec => []KnowledgeInvariant` |
| SubscribersWillKnow | `Spec => []SubscriberWillKnow` |
| OnlyKnownObjectsAreSpokenOf | `Spec => []OnlyKnownObjects` |
| BroadcastsAreExact | `Spec => []BroadcastIsExact` |
| InteractionsArriveOnce | `Spec => []InteractionOnce` |

All are in `Objects_proofs`, for any forests of classes with inherited attributes
(`ClassAssumption`), lists without repetition (`ListsAssumption`) and any names of
objects.

`SubscriberWillKnow` and `OnlyKnownObjects` are two views of one story that is told in
the queues. `Pending(g)` is all that waits for `g`, in the FIFO of its RTIA and then
on its stream. `KnowledgeInvariant` says that it is well told (`Narrated`): a message about an
object comes behind its discovery, or `g` knows the object already, and nothing about it comes behind
its removal; that a removal is of an object the RTIG no longer has; and that
whoever subscribes a class of the lineage of a live object knows it or has its discovery waiting
(`Knows`). A subscription discovers exactly what was not covered by another one above or
below it, which is the step that needs the tree of classes. Handles are never used again.

`BroadcastIsExact` and `InteractionOnce` are about pure operators. The lineage of a class is
the path to its root and has no class twice; an attribute is waited for at the first class
of the lineage where it is subscribed, and at no other. The lemmas on which they rest are
about numbers in increasing order (`Ordered`) and the elements of a sequence at given places
(`At`).

### Only model-checked

- Liveness: `AdvanceIsGranted`, `EveryoneReachesTheEnd`, `Resolved`, `RequesterIsTold`.
  TLAPS has neither fairness nor ENABLED.
- The properties of the violation runs, as they are checked there: they are false.

Every invariant and every action property that a passing run checks is also a theorem.

## 5. Findings

- `time_nera`: `nextEventRequestAvailable` tests the exception the wrong way
  round (`RTIA/TimeManagement.cc:212`). Acceptable requests do nothing and
  refused ones are carried out; a federate is granted a date before one it had.
- `ownership_unavailable`: `attributeOwnershipAcquisitionIfAvailable` makes the
  caller a candidate for what is unavailable (`ObjectClass.cc:1154`), which the comment
  of the same function rules out; a later release gives it the attribute.
- `federation_save`: the messages of a save are put in front of the command queue
  (`Files.cc:117`), so the start of the next save overtakes the end of the last one.
  The RTIA then refuses its federate's answer and the save never ends.
- `discovery_values`: on the way up the hierarchy an attribute is removed from a
  message and its value is not (`NM_Classes.cc:2560`); subscribers of a superclass get
  the value of another attribute.

The models show other weaknesses of the code that no line of the repository
contradicts, or that the instances avoid: they are the hazards of `PROJECT.json`
without a property, each with its reason.

## 6. What is left out

Abstractions of `TimeManagement`:

- every other federate is subscribed to everything, so an event goes to all of
  them; the bodies of messages are a kind, a sender, a date and a number;
- asynchronous delivery is fixed per federate by the constant `Asynchronous`
  (empty in the runs; the proofs cover any value);
- replies of the RTIG to the sender of a service (its own return code, an object
  handle);
- `sendTimeStateUpdate`, which informs the MOM and changes no other state;
- the builds with `CERTI_USE_NULL_PRIME_MESSAGE_PROTOCOL` or with UDP broadcasts,
  both off by default;
- `flushQueueRequest`, which only throws.

Abstractions of the other modules:

- `Ownership`: one object of one class; the removals that a deletion sends are in
  `Objects`; publications do not change;
- `FederationManagement`: confirmations and callbacks that change nothing; time, so
  that a lost regulator's clock is not followed; the exchange of FOM modules at a
  join; the restoration's file of federates;
- `Objects`: relevance advisories (`START_REGISTRATION`) and the lookup of
  resigned publishers that may make them fail; regions; parameters of interactions;
  TSO order, which is in `TimeManagement`; local deletion, requests for updates,
  transportation and order types. A resignation that deletes is `DeleteObject` for each object, then
  `Resign`. The subscriptions of a killed federate may stay in a list
  (`std::remove_if` without `erase`), to no effect on anybody present.

What is sent to a dead peer is dropped in all the modules; that the send may throw out
of a broadcast is listed as a hazard.

Not modelled: FOM parsers and generated message classes (no protocol), the MOM
(reports), the inside of sockets and libRTI marshalling (a reliable FIFO stream that may be
lost), data distribution (a sequential test of intervals), the NULL PRIME variant
(off by default), the time-outs of the tick services.

## 7. The plan

Done: time management, ownership, and membership with synchronization, save and
restoration, each with an abstract specification, its safety and the refinement proved;
the replicas of clocks; declarations, discovery and broadcasts with their proofs;
liveness of time and of the federation services checked.

What could follow, in this order:

1. the composition of losses with clocks: what the RTIAs are not told when
   a regulator is killed;
2. the tick services with their time-outs (`doc/CERTI-tickHandling.xml` is the
   authors' sketch), region overlap, the NULL PRIME variant.
