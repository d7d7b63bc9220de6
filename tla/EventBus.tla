------------------------------ MODULE EventBus ------------------------------
(***************************************************************************)
(* The in-process event bus of a Runtime: crates/event/src/bus.rs and      *)
(* capabilities.rs.                                                        *)
(*                                                                         *)
(* One owner publishes, dispatches, closes and drops the bus; handlers are *)
(* called back while an event is dispatched and may publish, subscribe,    *)
(* unsubscribe and ask for the close through their context.  The bus is    *)
(* not Send, so there is one thread: what interleaves is the calls of a    *)
(* callback with the dispatch that runs it.  A view of the bus may outlive *)
(* the owner and still subscribe or unsubscribe.                           *)
(*                                                                         *)
(* An event carries its type, its priority and whether its scope is the    *)
(* one the bus was configured for.  Event bodies, handler names and the    *)
(* retained samples of the diagnostics are left out; their totals are kept.*)
(***************************************************************************)
EXTENDS Naturals, FiniteSets, Sequences, SequencesExt

CONSTANTS
  Types,        \* event types
  Priorities,   \* event and subscription priorities, numbers
  Ids,          \* subscription identifiers
  Policies,     \* the queue policies a configuration may choose
  Capacity,     \* slots of the queue
  MaxEvents,    \* bound: how many events are ever accepted
  MaxBatch,     \* bound: events in one publish_many
  None

VARIABLES
  policy,       \* config.queue_policy
  queue,        \* state.queue
  handlers,     \* state.handlers: the live subscriptions by identifier
  usedIds,      \* state.used_ids
  phase,        \* state.phase
  dispatch,     \* state.dispatching: the event and the handlers left to call, by identifier
  driver,       \* the owner's call on the stack: dispatch_one, drain or close
  dropped,      \* whether the owner dropped the bus
  diag,         \* totals of the diagnostics
  accepted,     \* history: how many events were accepted
  inbox         \* history: the events each subscription was handed, by number

vars == <<policy, queue, handlers, usedIds, phase, dispatch, driver, dropped,
          diag, accepted, inbox>>

Event == [type : Types, priority : Priorities, scope : BOOLEAN]

Batch == UNION {[1..n -> Event] : n \in 1..MaxBatch}

Init ==
  /\ policy \in Policies
  /\ queue = <<>>
  /\ handlers = <<>>
  /\ usedIds = {}
  /\ phase = "Running"
  /\ dispatch = None
  /\ driver = None
  /\ dropped = FALSE
  /\ diag = [dispatches |-> 0, replacements |-> 0, abandoned |-> 0]
  /\ accepted = 0
  /\ inbox = [i \in Ids |-> <<>>]

-----------------------------------------------------------------------------
\* Who may act: the owner between its calls, a callback while it runs.

OwnerFree == driver = None /\ ~dropped

InCallback == dispatch # None /\ DOMAIN dispatch.todo # {}

\* Views are used by code the owner or a callback runs, or after the drop.
ViewFree == driver = None \/ InCallback

-----------------------------------------------------------------------------
\* Publication.

\* The queued events that a full queue would give up for e.
Victims(q, e) == {i \in DOMAIN q : q[i].priority < e.priority}

Victim(q, e) ==
  CHOOSE i \in Victims(q, e) : \A j \in Victims(q, e) :
    q[i].priority < q[j].priority \/ (q[i].priority = q[j].priority /\ i <= j)

Numbered(e, n) == [no |-> n, type |-> e.type, priority |-> e.priority]

\* Mutant: the newcomer takes the place of the event it replaces.
Enqueue_InPlace(b, e) ==
  IF ~b.open \/ phase # "Running" \/ ~e.scope THEN [b EXCEPT !.open = FALSE]
  ELSE IF Len(b.queue) < Capacity
  THEN [b EXCEPT !.queue = Append(@, Numbered(e, b.accepted + 1)), !.accepted = @ + 1]
  ELSE IF policy = "DropLowPriority" /\ Victims(b.queue, e) # {}
  THEN [b EXCEPT !.queue[Victim(b.queue, e)] = Numbered(e, b.accepted + 1),
                 !.accepted = @ + 1, !.replaced = @ + 1]
  ELSE [b EXCEPT !.open = FALSE]

\* One enqueue of a batch; a refusal closes the batch.
Enqueue(b, e) ==
  IF ~b.open \/ phase # "Running" \/ ~e.scope THEN [b EXCEPT !.open = FALSE]
  ELSE IF Len(b.queue) < Capacity
  THEN [b EXCEPT !.queue = Append(@, Numbered(e, b.accepted + 1)), !.accepted = @ + 1]
  ELSE IF policy = "DropLowPriority" /\ Victims(b.queue, e) # {}
  THEN [b EXCEPT !.queue = Append(RemoveAt(@, Victim(@, e)), Numbered(e, b.accepted + 1)),
                 !.accepted = @ + 1, !.replaced = @ + 1]
  ELSE [b EXCEPT !.open = FALSE]

Batched(es) ==
  LET b[n \in 0..Len(es)] ==
        IF n = 0
        THEN [queue |-> queue, accepted |-> accepted, replaced |-> 0, open |-> TRUE]
        ELSE Enqueue(b[n - 1], es[n])
  IN b[Len(es)]

\* publish, and publish_many of the owner, which stops at the first refusal
\* and leaves the events before it queued; a callback publishes one by one.
PublishMany(es) ==
  /\ OwnerFree \/ (InCallback /\ Len(es) = 1)
  /\ accepted + Len(es) <= MaxEvents
  /\ LET b == Batched(es) IN
       /\ queue' = b.queue
       /\ accepted' = b.accepted
       /\ diag' = [diag EXCEPT !.replacements = @ + b.replaced]
  /\ UNCHANGED <<policy, handlers, usedIds, phase, dispatch, driver, dropped, inbox>>

PublishManyAtomic(es) ==
  /\ OwnerFree
  /\ accepted + Len(es) <= MaxEvents
  /\ phase = "Running"
  /\ policy # "DropLowPriority"
  /\ \A i \in DOMAIN es : es[i].scope
  /\ Len(es) <= Capacity - Len(queue)
  /\ queue' = queue \o [i \in DOMAIN es |-> Numbered(es[i], accepted + i)]
  /\ accepted' = accepted + Len(es)
  /\ UNCHANGED <<policy, handlers, usedIds, phase, dispatch, driver, dropped, diag, inbox>>

-----------------------------------------------------------------------------
\* Subscriptions.

Without(f, S) == [x \in DOMAIN f \ S |-> f[x]]

Register(id, type, priority) ==
  /\ ViewFree
  /\ phase = "Running"
  /\ id \notin usedIds
  /\ usedIds' = usedIds \cup {id}
  /\ handlers' = [i \in DOMAIN handlers \cup {id} |->
       IF i = id THEN [type |-> type, priority |-> priority,
                       sequence |-> Cardinality(usedIds) + 1]
       ELSE handlers[i]]
  /\ UNCHANGED <<policy, queue, phase, dispatch, driver, dropped, diag, accepted, inbox>>

Unsubscribe(id) ==
  /\ ViewFree
  /\ id \in DOMAIN handlers
  /\ handlers' = Without(handlers, {id})
  /\ UNCHANGED <<policy, queue, usedIds, phase, dispatch, driver, dropped, diag,
                 accepted, inbox>>

-----------------------------------------------------------------------------
\* Dispatch.

\* The order in which the handlers of an event are called.
CalledBefore(h, k) ==
  h.priority > k.priority \/ (h.priority = k.priority /\ h.sequence < k.sequence)

\* The handlers of a type, as they are now.
Called(type) ==
  [i \in {j \in DOMAIN handlers : handlers[j].type = type} |-> handlers[i]]

\* The handler whose callback runs: the first of those left to call.
Running(id) ==
  /\ InCallback
  /\ id \in DOMAIN dispatch.todo
  /\ \A j \in DOMAIN dispatch.todo \ {id} : CalledBefore(dispatch.todo[id], dispatch.todo[j])

\* The first event leaves the queue and the handlers it goes to are fixed.
Take(call) ==
  /\ dispatch = None
  /\ phase # "Failed"
  /\ queue # <<>>
  /\ dispatch' = [event |-> Head(queue), todo |-> Called(Head(queue).type)]
  /\ queue' = Tail(queue)
  /\ driver' = call
  /\ UNCHANGED <<policy, handlers, usedIds, phase, dropped, diag, accepted, inbox>>

\* dispatch_one or the first round of drain.
Call(call) == OwnerFree /\ Take(call)

\* The next round of the loop in drain.
Continue == driver \in {"drain", "close"} /\ Take(driver)

\* The running callback ends: it succeeds, fails or panics, all the same here.
Return(id) ==
  /\ Running(id)
  /\ dispatch' = [dispatch EXCEPT !.todo = Without(@, {id})]
  /\ inbox' = [inbox EXCEPT ![id] = Append(@, dispatch.event.no)]
  /\ UNCHANGED <<policy, queue, handlers, usedIds, phase, driver, dropped, diag, accepted>>

\* Mutant: the close does not wait for the queue.
Finished_Early == phase = "Closing"

\* finish_closing: the last event was dispatched after a close was asked for.
Finished == phase = "Closing" /\ queue = <<>>

\* The report is recorded and a close asked for may complete.  A destructor of
\* a retired handler may unwind; the guard then leaves the bus failed.
EndDispatch(unwinds) ==
  /\ dispatch # None
  /\ DOMAIN dispatch.todo = {}
  /\ unwinds => Finished /\ handlers # <<>>
  /\ dispatch' = None
  /\ diag' = [diag EXCEPT !.dispatches = @ + 1]
  /\ phase' = IF unwinds THEN "Failed" ELSE IF Finished THEN "Closed" ELSE phase
  /\ handlers' = IF Finished THEN <<>> ELSE handlers
  /\ driver' = IF driver = "one" \/ unwinds THEN None ELSE driver
  /\ UNCHANGED <<policy, queue, usedIds, dropped, accepted, inbox>>

\* The loop of drain meets the empty queue.
EndDrain ==
  /\ driver = "drain"
  /\ dispatch = None
  /\ queue = <<>>
  /\ driver' = None
  /\ UNCHANGED <<policy, queue, handlers, usedIds, phase, dispatch, dropped, diag,
                 accepted, inbox>>

-----------------------------------------------------------------------------
\* Closing.

RequestClose ==
  /\ InCallback
  /\ phase = "Running"
  /\ phase' = "Closing"
  /\ UNCHANGED <<policy, queue, handlers, usedIds, dispatch, driver, dropped, diag,
                 accepted, inbox>>

Close ==
  /\ OwnerFree
  /\ phase # "Failed"
  /\ phase' = IF phase = "Running" THEN "Closing" ELSE phase
  /\ driver' = "close"
  /\ UNCHANGED <<policy, queue, handlers, usedIds, dispatch, dropped, diag, accepted, inbox>>

EndClose ==
  /\ driver = "close"
  /\ dispatch = None
  /\ queue = <<>>
  /\ phase' = IF Finished THEN "Closed" ELSE phase
  /\ handlers' = IF Finished THEN <<>> ELSE handlers
  /\ driver' = None
  /\ UNCHANGED <<policy, queue, usedIds, dispatch, dropped, diag, accepted, inbox>>

\* The owner drops the bus; what was queued is counted as abandoned.
Drop ==
  /\ OwnerFree
  /\ dropped' = TRUE
  /\ phase' = IF queue # <<>> \/ phase = "Failed" THEN "Failed" ELSE "Closed"
  /\ diag' = [diag EXCEPT !.abandoned = @ + Len(queue)]
  /\ handlers' = <<>>
  /\ queue' = <<>>
  /\ UNCHANGED <<policy, usedIds, dispatch, driver, accepted, inbox>>

-----------------------------------------------------------------------------
Next ==
  \/ \E es \in Batch : PublishMany(es) \/ PublishManyAtomic(es)
  \/ \E id \in Ids, t \in Types, p \in Priorities : Register(id, t, p)
  \/ \E id \in Ids : Unsubscribe(id) \/ Return(id)
  \/ \E call \in {"one", "drain"} : Call(call)
  \/ Continue
  \/ \E unwinds \in BOOLEAN : EndDispatch(unwinds)
  \/ EndDrain
  \/ RequestClose
  \/ Close
  \/ EndClose
  \/ Drop

Spec == Init /\ [][Next]_vars

-----------------------------------------------------------------------------
Settled == diag.dispatches + diag.replacements + diag.abandoned

(* No accepted event is lost or counted twice: each is queued, being       *)
(* dispatched, or counted once as dispatched, replaced or abandoned.  A    *)
(* bus that is Closed has nothing left to deliver and abandoned nothing,   *)
(* whoever asked for the close and whatever callbacks published meanwhile. *)
AcceptedIsSettled ==
  /\ accepted = Settled + Len(queue) + (IF dispatch = None THEN 0 ELSE 1)
  /\ phase = "Closed" => accepted = diag.dispatches + diag.replacements

(* Every subscription sees its events once and in the order in which they  *)
(* were accepted, and of two live subscriptions to one type the older has  *)
(* seen everything the younger one has: replacement in a full queue, a     *)
(* handler that subscribes, cancels, fails or panics in the middle of a    *)
(* dispatch take no event from another handler and reorder none.           *)
SeenInOrder ==
  /\ \A i \in Ids : \A m, n \in DOMAIN inbox[i] : m < n => inbox[i][m] < inbox[i][n]
  /\ dispatch = None =>
       \A i, j \in DOMAIN handlers :
         handlers[i].type = handlers[j].type /\ handlers[i].sequence < handlers[j].sequence
           => IsSuffix(inbox[j], inbox[i])
=============================================================================
