------------------------------- MODULE EventBus -------------------------------
(***************************************************************************)
(* The event bus of utils/src/selection_event_bus.cpp.  Its recursive      *)
(* mutex is held while an event is published, so that other threads wait,  *)
(* but a callback, which runs under it, may use the bus again; the calls   *)
(* of one thread at a time are all there is.  Changing the list that a     *)
(* publication walks through is undefined behaviour: `undefined' says that *)
(* it has happened, and nothing is modelled after it.                      *)
(***************************************************************************)
EXTENDS Integers, Sequences, SequencesExt

CONSTANTS EventTypes, Priorities,
          MaxHandles, MaxDepth      \* bounds of the model

ASSUME EventBusAssumption == Priorities \subseteq Int /\ MaxHandles \in Nat /\ MaxDepth \in Nat

VARIABLES handlers,     \* of each type, in the order they are called
          nextHandleId,
          frames,       \* the publications that are going on, the innermost last
          undefined,
          subscribed    \* what has been subscribed and not unsubscribed
busVars == <<handlers, nextHandleId, frames, undefined, subscribed>>

BusInit ==
    /\ handlers = [e \in EventTypes |-> <<>>] /\ nextHandleId = 0
    /\ frames = <<>> /\ undefined = FALSE /\ subscribed = {}

Before(h, g) == h.priority > g.priority \/ (h.priority = g.priority /\ h.id < g.id)

\* std::stable_sort by priority: identifiers are distinct, and grow along what is sorted.
SortHandlers(list) ==
    CHOOSE sorted \in [DOMAIN list -> ToSet(list)] :
      /\ ToSet(sorted) = ToSet(list)
      /\ \A i, j \in DOMAIN sorted : i < j => Before(sorted[i], sorted[j])

\* Callers are a callback that is running and, outside of publications, everyone.
MayCall == ~undefined /\ (frames # <<>> => Last(frames).called # <<>>)
Walked(e) == \E i \in DOMAIN frames : frames[i].type = e

\* The list of type e becomes list.
Change(e, list) ==
    /\ handlers' = [handlers EXCEPT ![e] = list]
    /\ undefined' = Walked(e)

\* Mutation for DeliveredByPriority: the new handler is put last.
SubscribeUnsorted(e, p) ==
    /\ MayCall /\ nextHandleId < MaxHandles
    /\ nextHandleId' = nextHandleId + 1
    /\ Change(e, Append(handlers[e], [id |-> nextHandleId', priority |-> p]))
    /\ subscribed' = subscribed \cup {[id |-> nextHandleId', priority |-> p, type |-> e]}
    /\ UNCHANGED frames

Subscribe(e, p) ==
    /\ MayCall /\ nextHandleId < MaxHandles
    /\ nextHandleId' = nextHandleId + 1
    /\ Change(e, SortHandlers(Append(handlers[e], [id |-> nextHandleId', priority |-> p])))
    /\ subscribed' = subscribed \cup {[id |-> nextHandleId', priority |-> p, type |-> e]}
    /\ UNCHANGED frames

\* The type is the caller's, not the handle's: another type's handle is not found.
Unsubscribe(e, id) ==
    /\ MayCall
    /\ \E i \in DOMAIN handlers[e] :
         handlers[e][i].id = id /\ Change(e, RemoveAt(handlers[e], i))
    /\ subscribed' = {s \in subscribed : s.id # id}
    /\ UNCHANGED <<nextHandleId, frames>>

Publish(e) ==
    /\ MayCall /\ Len(frames) < MaxDepth
    /\ handlers[e] # <<>>
    /\ frames' = Append(frames, [type |-> e, called |-> <<>>,
                                 due |-> {s \in subscribed : s.type = e}])
    /\ UNCHANGED <<handlers, nextHandleId, undefined, subscribed>>

Invoke ==
    /\ ~undefined /\ frames # <<>>
    /\ LET f == Last(frames) at == Len(f.called) + 1
       IN  /\ at <= Len(handlers[f.type])
           /\ frames' = [frames EXCEPT ![Len(frames)].called =
                                          Append(@, handlers[f.type][at].id)]
    /\ UNCHANGED <<handlers, nextHandleId, undefined, subscribed>>

Published ==
    /\ ~undefined /\ frames # <<>>
    /\ Len(Last(frames).called) = Len(handlers[Last(frames).type])
    /\ frames' = Front(frames)
    /\ UNCHANGED <<handlers, nextHandleId, undefined, subscribed>>

BusClearAll ==
    /\ MayCall
    /\ handlers' = [e \in EventTypes |-> <<>>] /\ subscribed' = {}
    /\ undefined' = (frames # <<>>)
    /\ UNCHANGED <<nextHandleId, frames>>

BusNext ==
    \/ \E e \in EventTypes : \/ \E p \in Priorities : Subscribe(e, p)
                             \/ \E id \in 1 .. MaxHandles : Unsubscribe(e, id)
                             \/ Publish(e)
    \/ Invoke \/ Published \/ BusClearAll

BusSpec == BusInit /\ [][BusNext]_busVars

-----------------------------------------------------------------------------
Handler == [id : 1 .. MaxHandles, priority : Priorities]
Subscription == [id : 1 .. MaxHandles, priority : Priorities, type : EventTypes]
Publication == [type : EventTypes, called : Seq(1 .. MaxHandles), due : SUBSET Subscription]
BusTypeOK ==
    /\ handlers \in [EventTypes -> Seq(Handler)]
    /\ nextHandleId \in 0 .. MaxHandles /\ subscribed \subseteq Subscription
    /\ frames \in Seq(Publication) /\ Len(frames) <= MaxDepth /\ undefined \in BOOLEAN

\* An event reaches those that were subscribed to its type when it was published, each once,
\* the more important and then the older ones first, whatever callbacks do with the bus in
\* the meantime, unless one changes the very list that is walked through.
DeliveredByPriority ==
    undefined \/
    \A i \in DOMAIN frames :
      LET f == frames[i]
          done == {s \in f.due : \E n \in DOMAIN f.called : f.called[n] = s.id}
      IN  /\ Len(f.called) <= Cardinality(done)
          /\ Len(f.called) = Len(handlers[f.type]) => done = f.due
          /\ \A s \in done, r \in f.due : Before(r, s) => r \in done
          /\ \A s, r \in done : Before(r, s) =>
               \E n, m \in DOMAIN f.called : n < m /\ f.called[n] = r.id /\ f.called[m] = s.id
=============================================================================
