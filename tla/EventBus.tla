------------------------------ MODULE EventBus ------------------------------
(***************************************************************************)
(* Publish and subscribe of src/tal_system/src/tal_event.c, for one event  *)
(* name: names share nothing but the lists that hold them.  Subscribing,   *)
(* unsubscribing and publishing each begin with _event_node_get, which     *)
(* reads the event list without a mutex, and then work under the mutex of  *)
(* the event found, or under the manager's when none was found.  Lookup    *)
(* and critical section are separate steps, and a dispatch is one step     *)
(* per callback, with the mutex of the event held from first to last.      *)
(*                                                                         *)
(* A subscriber is one pair of description and callback, used by a thread  *)
(* of its own; callbacks do not call back into this event.                 *)
(***************************************************************************)
EXTENDS Integers, Sequences, FiniteSets, SequencesExt

CONSTANTS Subs,         \* subscribers
          SubType,      \* the subscription type each of them asks for
          Publishers,   \* threads that publish the event
          Nobody,       \* the holder of a mutex that is free
          MaxSubs,      \* bound: subscriptions that are entered into a list
          MaxPubs       \* bound: publications

ASSUME EventBusAssumption ==
    /\ SubType \in [Subs -> {"NORMAL", "EMERGENCY", "ONETIME"}]
    /\ Subs \cap Publishers = {}
    /\ Nobody \notin Publishers
    /\ MaxSubs \in Nat
    /\ MaxPubs \in Nat

VARIABLES
    event_root,            \* per event node of this name: its subscribe_root
    free_subscribe_root,   \* subscriptions that found no event
    mutex,                 \* per event node: who holds its mutex
    at,                    \* per thread: where it is in its call
    found,                 \* per thread: the node its lookup found, 0 for none
    todo,                  \* per publisher: the rest of the list it dispatches
    entered,               \* history: subscriptions entered so far
    published,             \* history: publications begun so far
    subscribed,            \* history: subscribers whose subscribe returned last
    unsubscribed,          \* history: subscribers whose unsubscribe returned last
    owed,                  \* history: per publisher, NORMAL subscribers it must call
    used,                  \* history: one-time subscriptions that were called
    overtaken              \* history: a node was created behind another's lookup

vars == <<event_root, free_subscribe_root, mutex, at, found, todo, entered, published,
          subscribed, unsubscribed, owed, used, overtaken>>

Threads == Subs \cup Publishers
Entries == [sub : Subs, id : 1..MaxSubs]

Init ==
    /\ event_root = << >>
    /\ free_subscribe_root = << >>
    /\ mutex = << >>
    /\ at = [t \in Threads |-> "idle"]
    /\ found = [t \in Threads |-> 0]
    /\ todo = [p \in Publishers |-> << >>]
    /\ entered = 0
    /\ published = 0
    /\ subscribed = {}
    /\ unsubscribed = {}
    /\ owed = [p \in Publishers |-> {}]
    /\ used = {}
    /\ overtaken = FALSE

\* _event_node_get returns the first node of that name.
Lookup == IF event_root = << >> THEN 0 ELSE 1

SubsOf(list) == {list[i].sub : i \in 1..Len(list)}

-----------------------------------------------------------------------------
(* Subscribing and unsubscribing *)

\* Mutant of AddSubscribe: does not look whether the subscription exists.
AddSubscribeAgain(list, e) ==
    IF SubType[e.sub] = "EMERGENCY" THEN <<e>> \o list ELSE Append(list, e)

\* _event_node_add_subscribe: an existing subscription is kept; an emergency
\* goes to the front, others to the end.
AddSubscribe(list, e) ==
    IF e.sub \in SubsOf(list) THEN list
    ELSE IF SubType[e.sub] = "EMERGENCY" THEN <<e>> \o list
    ELSE Append(list, e)

\* _event_node_add_free_subscribe: always at the end.
AddFreeSubscribe(list, e) ==
    IF e.sub \in SubsOf(list) THEN list ELSE Append(list, e)

\* Mutant of DelSubscribe: one that never unsubscribes.
DelSubscribeNothing(list, s) == list

\* _event_node_del_subscribe: the one that the lookup in the list finds, if any.
DelSubscribe(list, s) == RemoveFirstMatch(list, LAMBDA e : e.sub = s)

SubscribeLookup(s) ==
    /\ at[s] = "idle"
    /\ entered < MaxSubs
    /\ at' = [at EXCEPT ![s] = "subscribe"]
    /\ found' = [found EXCEPT ![s] = Lookup]
    /\ unsubscribed' = unsubscribed \ {s}
    /\ UNCHANGED <<event_root, free_subscribe_root, mutex, todo, entered, published,
                   subscribed, owed, used, overtaken>>

\* The critical section of tal_event_subscribe.
Subscribe(s) ==
    LET e == [sub |-> s, id |-> entered + 1]
    IN /\ at[s] = "subscribe"
       /\ entered < MaxSubs
       /\ \/ /\ found[s] = 0
             /\ free_subscribe_root' = AddFreeSubscribe(free_subscribe_root, e)
             /\ UNCHANGED event_root
          \/ /\ found[s] # 0
             /\ mutex[found[s]] = Nobody
             /\ event_root' = [event_root EXCEPT ![found[s]] = AddSubscribe(@, e)]
             /\ UNCHANGED free_subscribe_root
       /\ entered' = entered + 1
       /\ at' = [at EXCEPT ![s] = "idle"]
       /\ found' = [found EXCEPT ![s] = 0]
       /\ subscribed' = subscribed \cup {s}
       /\ UNCHANGED <<mutex, todo, published, unsubscribed, owed, used, overtaken>>

UnsubscribeLookup(s) ==
    /\ at[s] = "idle"
    /\ s \in subscribed
    /\ at' = [at EXCEPT ![s] = "unsubscribe"]
    /\ found' = [found EXCEPT ![s] = Lookup]
    /\ subscribed' = subscribed \ {s}
    /\ owed' = [p \in Publishers |-> owed[p] \ {s}]
    /\ UNCHANGED <<event_root, free_subscribe_root, mutex, todo, entered, published,
                   unsubscribed, used, overtaken>>

\* The critical section of tal_event_unsubscribe.
Unsubscribe(s) ==
    /\ at[s] = "unsubscribe"
    /\ \/ /\ found[s] = 0
          /\ free_subscribe_root' = DelSubscribe(free_subscribe_root, s)
          /\ UNCHANGED event_root
       \/ /\ found[s] # 0
          /\ mutex[found[s]] = Nobody
          /\ event_root' = [event_root EXCEPT ![found[s]] = DelSubscribe(@, s)]
          /\ UNCHANGED free_subscribe_root
    /\ at' = [at EXCEPT ![s] = "idle"]
    /\ found' = [found EXCEPT ![s] = 0]
    /\ unsubscribed' = unsubscribed \cup {s}
    /\ UNCHANGED <<mutex, todo, entered, published, subscribed, owed, used, overtaken>>

-----------------------------------------------------------------------------
(* Publishing *)

PublishLookup(p) ==
    /\ at[p] = "idle"
    /\ published < MaxPubs
    /\ published' = published + 1
    /\ found' = [found EXCEPT ![p] = Lookup]
    /\ at' = [at EXCEPT ![p] = IF Lookup = 0 THEN "create" ELSE "publish"]
    /\ owed' = [owed EXCEPT ![p] = {s \in subscribed : SubType[s] = "NORMAL"}]
    /\ UNCHANGED <<event_root, free_subscribe_root, mutex, todo, entered, subscribed,
                   unsubscribed, used, overtaken>>

\* Mutant of Collected: the free subscribers in reverse order of subscription.
CollectedReversed(free) ==
    SelectSeq(free, LAMBDA e : SubType[e.sub] = "EMERGENCY")
        \o Reverse(SelectSeq(free, LAMBDA e : SubType[e.sub] # "EMERGENCY"))

\* Mutant of Collected: the free subscribers stay behind.
CollectedNone(free) == << >>

\* The list of a new node: the free subscribers one by one, an emergency to the
\* front, others to the end.
Collected(free) ==
    LET root[n \in 0..Len(free)] ==
          IF n = 0 THEN << >>
          ELSE IF SubType[free[n].sub] = "EMERGENCY" THEN <<free[n]>> \o root[n - 1]
          ELSE Append(root[n - 1], free[n])
    IN root[Len(free)]

\* _event_node_create_init, under the manager's mutex.
CreateNode(p) ==
    /\ at[p] = "create"
    /\ event_root' = Append(event_root, Collected(free_subscribe_root))
    /\ free_subscribe_root' = << >>
    /\ mutex' = Append(mutex, Nobody)
    /\ found' = [found EXCEPT ![p] = Len(event_root) + 1]
    /\ at' = [at EXCEPT ![p] = "publish"]
    /\ overtaken' = (overtaken \/ \E t \in Threads \ {p} :
                        found[t] = 0 /\ at[t] \in {"subscribe", "unsubscribe", "create"})
    /\ UNCHANGED <<todo, entered, published, subscribed, unsubscribed, owed, used>>

\* Mutant of Acquire: the dispatch takes no mutex.
AcquireNothing(p) == UNCHANGED mutex

Acquire(p) ==
    /\ mutex[found[p]] = Nobody
    /\ mutex' = [mutex EXCEPT ![found[p]] = p]

\* The dispatch begins under the mutex of the event.
DispatchBegin(p) ==
    /\ at[p] = "publish"
    /\ Acquire(p)
    /\ todo' = [todo EXCEPT ![p] = event_root[found[p]]]
    /\ at' = [at EXCEPT ![p] = "dispatch"]
    /\ UNCHANGED <<event_root, free_subscribe_root, found, entered, published, subscribed,
                   unsubscribed, owed, used, overtaken>>

\* One turn of the loop of _event_node_dispatch: the callback is called, and a
\* one-time subscription is removed after it.
DispatchOne(p) ==
    /\ at[p] = "dispatch"
    /\ todo[p] # << >>
    /\ LET e == Head(todo[p])
           onetime == SubType[e.sub] = "ONETIME"
       IN /\ owed' = [owed EXCEPT ![p] = @ \ {e.sub}]
          /\ used' = IF onetime THEN used \cup {e.id} ELSE used
          /\ event_root' = IF onetime
                           THEN [event_root EXCEPT ![found[p]] = RemoveFirst(@, e)]
                           ELSE event_root
    /\ todo' = [todo EXCEPT ![p] = Tail(@)]
    /\ UNCHANGED <<free_subscribe_root, mutex, at, found, entered, published, subscribed,
                   unsubscribed, overtaken>>

\* The mutex is released; tal_event_publish is about to return.
DispatchEnd(p) ==
    /\ at[p] = "dispatch"
    /\ todo[p] = << >>
    /\ mutex' = [mutex EXCEPT ![found[p]] = Nobody]
    /\ at' = [at EXCEPT ![p] = "return"]
    /\ UNCHANGED <<event_root, free_subscribe_root, found, todo, entered, published,
                   subscribed, unsubscribed, owed, used, overtaken>>

PublishReturn(p) ==
    /\ at[p] = "return"
    /\ at' = [at EXCEPT ![p] = "idle"]
    /\ found' = [found EXCEPT ![p] = 0]
    /\ owed' = [owed EXCEPT ![p] = {}]
    /\ UNCHANGED <<event_root, free_subscribe_root, mutex, todo, entered, published,
                   subscribed, unsubscribed, used, overtaken>>

Next ==
    \/ \E s \in Subs : SubscribeLookup(s) \/ Subscribe(s) \/ UnsubscribeLookup(s) \/ Unsubscribe(s)
    \/ \E p \in Publishers :
         \/ PublishLookup(p) \/ CreateNode(p) \/ DispatchBegin(p) \/ DispatchOne(p)
         \/ DispatchEnd(p) \/ PublishReturn(p)

Spec == Init /\ [][Next]_vars

-----------------------------------------------------------------------------
(* Properties *)

Lists == {free_subscribe_root} \cup {event_root[n] : n \in 1..Len(event_root)}

\* Types; no list holds a subscription twice.
TypeOK ==
    /\ \A list \in Lists : list \in Seq(Entries) /\ Len(list) = Cardinality(SubsOf(list))
    /\ mutex \in Seq(Publishers \cup {Nobody}) /\ Len(mutex) = Len(event_root)
    /\ at \in [Threads -> {"idle", "subscribe", "unsubscribe", "create", "publish",
                           "dispatch", "return"}]
    /\ found \in [Threads -> 0..Len(event_root)]
    /\ todo \in [Publishers -> Seq(Entries)]
    /\ entered \in 0..MaxSubs
    /\ published \in 0..MaxPubs
    /\ subscribed \subseteq Subs
    /\ unsubscribed \subseteq Subs
    /\ owed \in [Publishers -> SUBSET Subs]
    /\ used \subseteq 1..MaxSubs
    /\ overtaken \in BOOLEAN

\* "emergency type, dispatch first", the others "dispatch by the subscribe order"
\* (tal_event.h): so does every dispatch, through the free list and its transfer.
DispatchOrder ==
    \A p \in Publishers : \A i, j \in 1..Len(todo[p]) :
        LET a == todo[p][i]
            b == todo[p][j]
        IN i < j =>
             /\ SubType[b.sub] = "EMERGENCY" => SubType[a.sub] = "EMERGENCY"
             /\ SubType[a.sub] # "EMERGENCY" => a.id < b.id

\* A one-time subscription is called once: after its call no list and no other
\* publisher's pass still holds it.
OneTimeOnce ==
    /\ \A list \in Lists : \A i \in 1..Len(list) : list[i].id \notin used
    /\ \A p \in Publishers : \A i \in 1..Len(todo[p]) : todo[p][i].id \notin used

\* "The provided callback function will be called when the event is triggered":
\* a publication that began after a subscription returned has called it when it
\* returns, unless the subscription was withdrawn meanwhile.
EveryPublicationHeard == \A p \in Publishers : at[p] = "return" => owed[p] = {}

\* It holds as long as no event node is created between the lookup and the
\* critical section of another call on the same event.
HeardUnlessOvertaken == overtaken \/ EveryPublicationHeard

\* Nobody is called after its tal_event_unsubscribe has returned, under the same
\* condition.
QuietUnlessOvertaken ==
    overtaken \/ \A p \in Publishers : SubsOf(todo[p]) \cap unsubscribed = {}
=============================================================================
