------------------------------ MODULE WaitSet ------------------------------
(***************************************************************************)
(* Wait sets, guard conditions and the read conditions of subscriptions:   *)
(* rmw_wait and the calls of other threads that interleave with it.        *)
(*                                                                         *)
(* rmw_wait detaches what its previous call attached, attaches what it is  *)
(* asked to wait for (the subscriptions' read conditions, then the guard   *)
(* conditions: one sequence here), blocks in dds_waitset_wait, and turns   *)
(* the triggered list into its outputs, taking each triggered guard        *)
(* condition.  Each of the four is a step; other threads run between them. *)
(***************************************************************************)
EXTENDS Naturals, Sequences, FiniteSets, SequencesExt

CONSTANTS
    WaitSets,           \* each used by one thread at a time
    Subscriptions,      \* stands for the subscription's read condition
    Guards,             \* guard conditions, the graph guard among them
    NULL,
    Capacity,           \* data->capacity of every wait set
    Requests,           \* what rmw_wait may be asked to wait for
    DestroyAllowed      \* does the application destroy entities?

Entities == Subscriptions \cup Guards

ASSUME CapacityIsPositive == Capacity \in Nat \ {0}
ASSUME EntitiesAreDistinct ==
    /\ Subscriptions \cap Guards = {}
    /\ NULL \notin Entities
ASSUME RequestsAreSequences == Requests \subseteq Seq(Entities \cup {NULL})
ASSUME DestroyAllowedIsBoolean == DestroyAllowed \in BOOLEAN

VARIABLES
    exists,         \* the DDS entities that exist
    triggered,      \* entity -> its trigger value: unread data, or guard set
    dds_attached,   \* wait set -> the entities DDS has attached to it
    attached,       \* wait set -> data->attached[0 .. attached_count - 1]
    call,           \* wait set -> the rmw_wait in progress
    outcome,        \* wait set -> what rmw_wait returned, until the next call
    unreported      \* the guards triggered and not reported by a wait since

vars == <<exists, triggered, dds_attached, attached, call, outcome,
          unreported>>

Phases == {"idle", "detach", "attach", "wait", "collect"}
Results == {"OK", "TIMEOUT", "ERROR", "INVALID_ARGUMENT"}

\* list is data->triggered as the blocking wait left it.
Call == [pc : Phases, request : Requests \cup {<<>>}, list : SUBSET Entities]
NoCall == [pc |-> "idle", request |-> <<>>, list |-> {}]

\* reported holds the inputs that were not overwritten with NULL.
Outcome == [result : Results, request : Requests \cup {<<>>},
            reported : SUBSET Entities]
NoOutcome == [result |-> "TIMEOUT", request |-> <<>>, reported |-> {}]

Init ==
    /\ exists = Entities
    /\ triggered = [e \in Entities |-> FALSE]
    /\ dds_attached = [w \in WaitSets |-> {}]
    /\ attached = [w \in WaitSets |-> <<>>]
    /\ call = [w \in WaitSets |-> NoCall]
    /\ outcome = [w \in WaitSets |-> NoOutcome]
    /\ unreported = {}

-----------------------------------------------------------------------------
(* rmw_wait *)

\* The application waits for entities that exist.
rmw_wait(w, request) ==
    /\ call[w].pc = "idle"
    /\ Range(request) \subseteq exists \cup {NULL}
    /\ call' = [call EXCEPT ![w] = [NoCall EXCEPT !.pc = "detach",
                                                  !.request = request]]
    /\ outcome' = [outcome EXCEPT ![w] = NoOutcome]
    /\ UNCHANGED <<exists, triggered, dds_attached, attached, unreported>>

Return(w, result, reported) ==
    /\ call' = [call EXCEPT ![w] = NoCall]
    /\ outcome' = [outcome EXCEPT ![w] =
            [result |-> result, request |-> call[w].request,
             reported |-> reported]]

Proceed(w, pc) ==
    /\ call' = [call EXCEPT ![w].pc = pc]
    /\ UNCHANGED outcome

\* How many leading entries of entities are in attachments.
LeadingIn(entities, attachments) ==
    CHOOSE k \in 0 .. Len(entities) :
        /\ \A i \in 1 .. k : entities[i] \in attachments
        /\ k < Len(entities) => entities[k + 1] \notin attachments

\* Mutant: attached_count is reset on the error path too.
DetachForgets(w) ==
    LET done == LeadingIn(attached[w], dds_attached[w])
    IN  /\ call[w].pc = "detach"
        /\ dds_attached' = [dds_attached EXCEPT ![w] =
                                @ \ Range(SubSeq(attached[w], 1, done))]
        /\ attached' = [attached EXCEPT ![w] = <<>>]
        /\ IF done = Len(attached[w]) THEN Proceed(w, "attach")
           ELSE Return(w, "ERROR", Range(call[w].request) \ {NULL})
        /\ UNCHANGED <<exists, triggered, unreported>>

\* The detach loop.  dds_waitset_detach fails for an entity that is not
\* attached (any more); the call then returns with attached_count as it was.
Detach(w) ==
    LET done == LeadingIn(attached[w], dds_attached[w])
    IN  /\ call[w].pc = "detach"
        /\ dds_attached' = [dds_attached EXCEPT ![w] =
                                @ \ Range(SubSeq(attached[w], 1, done))]
        /\ \/ /\ done = Len(attached[w])
              /\ attached' = [attached EXCEPT ![w] = <<>>]
              /\ Proceed(w, "attach")
           \/ /\ done < Len(attached[w])
              /\ UNCHANGED attached
              /\ Return(w, "ERROR", Range(call[w].request) \ {NULL})
        /\ UNCHANGED <<exists, triggered, unreported>>

\* Mutant: a NULL entry is not noticed.
AttachableUnchecked(w, k) == k <= Capacity

\* attach_entity succeeds for the k-th entry: it is not NULL, there is room,
\* and DDS does not have it attached already.
Attachable(w, k) ==
    LET request == call[w].request
    IN  /\ request[k] # NULL
        /\ k <= Capacity
        /\ request[k] \notin dds_attached[w]
        /\ \A i \in 1 .. k - 1 : request[i] # request[k]

\* The entries the attach loops attach before they stop.
Attached(w) ==
    LET request == call[w].request
    IN  SubSeq(request, 1,
               Min({Len(request) + 1}
                    \cup {k \in 1 .. Len(request) : ~Attachable(w, k)}) - 1)

\* What the attach loops return once Attached(w) is attached.
AttachReturn(w) ==
    LET request == call[w].request
        done == Len(Attached(w))
    IN  \/ /\ done = Len(request)
           /\ Proceed(w, "wait")
        \/ /\ done < Len(request)
           /\ done = Capacity \/ request[done + 1] = NULL
           /\ Return(w, "INVALID_ARGUMENT", Range(request) \ {NULL})
        \/ /\ done < Len(request)
           /\ done # Capacity /\ request[done + 1] # NULL
           /\ Return(w, "ERROR", Range(request) \ {NULL})

\* Mutant: entries are recorded only if all were attached.
AttachUnrecorded(w) ==
    /\ call[w].pc = "attach"
    /\ attached' = [attached EXCEPT ![w] =
            IF Attached(w) = call[w].request THEN Attached(w) ELSE <<>>]
    /\ dds_attached' = [dds_attached EXCEPT ![w] = @ \cup Range(Attached(w))]
    /\ AttachReturn(w)
    /\ UNCHANGED <<exists, triggered, unreported>>

\* The attach loops stop at the first entry that cannot be attached and leave
\* the earlier ones attached and recorded.
Attach(w) ==
    /\ call[w].pc = "attach"
    /\ attached' = [attached EXCEPT ![w] = Attached(w)]
    /\ dds_attached' = [dds_attached EXCEPT ![w] = @ \cup Range(Attached(w))]
    /\ AttachReturn(w)
    /\ UNCHANGED <<exists, triggered, unreported>>

TriggeredIn(w) == {e \in dds_attached[w] : triggered[e]}

\* dds_waitset_wait returns the attached entities that are triggered now.
Wake(w) ==
    /\ call[w].pc = "wait"
    /\ TriggeredIn(w) # {}
    /\ call' = [call EXCEPT ![w].pc = "collect", ![w].list = TriggeredIn(w)]
    /\ UNCHANGED <<exists, triggered, dds_attached, attached, outcome,
                   unreported>>

\* dds_waitset_wait returns zero: the timeout elapsed first.
TimeOut(w) ==
    /\ call[w].pc = "wait"
    /\ TriggeredIn(w) = {}
    /\ call' = [call EXCEPT ![w].pc = "collect"]
    /\ UNCHANGED <<exists, triggered, dds_attached, attached, outcome,
                   unreported>>

\* The outputs of a wait that took the guard conditions in taken and reports
\* the entities in list.
Report(w, taken, list) ==
    /\ triggered' = [e \in Entities |-> triggered[e] /\ e \notin taken]
    /\ unreported' = unreported \ (list \cap Range(call[w].request))
    /\ Return(w, IF call[w].list = {} THEN "TIMEOUT" ELSE "OK",
              Range(call[w].request) \cap list)
    /\ UNCHANGED <<exists, dds_attached, attached>>

\* Mutants: every guard condition waited for is taken; the trigger values are
\* read again; guard conditions have to wait until no data is left.
CollectTakesAll(w) ==
    /\ call[w].pc = "collect"
    /\ Report(w, Guards \cap Range(call[w].request), call[w].list)
CollectRechecks(w) ==
    LET list == {e \in call[w].list : triggered[e]}
    IN  /\ call[w].pc = "collect"
        /\ Report(w, list \cap Guards, list)
CollectDataFirst(w) ==
    LET data == call[w].list \cap Subscriptions
        list == IF data = {} THEN call[w].list ELSE data
    IN  /\ call[w].pc = "collect"
        /\ Report(w, list \cap Guards, list)

\* The outputs: NULL for what is not in the triggered list;
\* dds_take_guardcondition for the guard conditions that are.
Collect(w) ==
    /\ call[w].pc = "collect"
    /\ Report(w, call[w].list \cap Guards \cap Range(call[w].request),
              call[w].list)

-----------------------------------------------------------------------------
(* The other calls *)

rmw_trigger_guard_condition(g) ==
    /\ g \in exists
    /\ triggered' = [triggered EXCEPT ![g] = TRUE]
    /\ unreported' = unreported \cup {g}
    /\ UNCHANGED <<exists, dds_attached, attached, call, outcome>>

\* DDS stores a sample: the read condition (DDS_ANY_STATE) is triggered.
DataArrives(s) ==
    /\ s \in exists
    /\ triggered' = [triggered EXCEPT ![s] = TRUE]
    /\ UNCHANGED <<exists, dds_attached, attached, call, outcome, unreported>>

\* rmw_take_with_info takes the last sample of a subscription.
TakeLastSample(s) ==
    /\ s \in exists
    /\ triggered[s]
    /\ triggered' = [triggered EXCEPT ![s] = FALSE]
    /\ UNCHANGED <<exists, dds_attached, attached, call, outcome, unreported>>

\* rmw_destroy_subscription / rmw_destroy_guard_condition, of an entity no
\* wait in progress was given.  dds_delete detaches it from every wait set.
Destroy(e) ==
    /\ DestroyAllowed
    /\ e \in exists
    /\ \A w \in WaitSets : e \notin Range(call[w].request)
    /\ exists' = exists \ {e}
    /\ triggered' = [triggered EXCEPT ![e] = FALSE]
    /\ dds_attached' = [w \in WaitSets |-> dds_attached[w] \ {e}]
    /\ unreported' = unreported \ {e}
    /\ UNCHANGED <<attached, call, outcome>>

\* The application creates such an entity again, under a handle not in use.
Create(e) ==
    /\ e \notin exists
    /\ \A w \in WaitSets : e \notin Range(attached[w])
    /\ exists' = exists \cup {e}
    /\ UNCHANGED <<triggered, dds_attached, attached, call, outcome,
                   unreported>>

\* rmw_destroy_wait_set and rmw_create_wait_set.
Renew(w) ==
    /\ call[w].pc = "idle"
    /\ attached[w] # <<>>
    /\ dds_attached' = [dds_attached EXCEPT ![w] = {}]
    /\ attached' = [attached EXCEPT ![w] = <<>>]
    /\ outcome' = [outcome EXCEPT ![w] = NoOutcome]
    /\ UNCHANGED <<exists, triggered, call, unreported>>

WaitStep(w) == Detach(w) \/ Attach(w) \/ Wake(w) \/ Collect(w)

Next ==
    \/ \E w \in WaitSets :
        \/ \E request \in Requests : rmw_wait(w, request)
        \/ WaitStep(w)
        \/ TimeOut(w)
        \/ Renew(w)
    \/ \E g \in Guards : rmw_trigger_guard_condition(g)
    \/ \E s \in Subscriptions : DataArrives(s) \/ TakeLastSample(s)
    \/ \E e \in Entities : Destroy(e) \/ Create(e)

Spec == Init /\ [][Next]_vars

\* A thread inside rmw_wait runs on, and DDS wakes a wait set that has a
\* triggered entity.  No timeout is assumed: the wait may be infinite.
FairSpec == Spec /\ \A w \in WaitSets : WF_vars(WaitStep(w))

-----------------------------------------------------------------------------
(* Properties *)

TypeOK ==
    /\ exists \subseteq Entities
    /\ triggered \in [Entities -> BOOLEAN]
    /\ dds_attached \in [WaitSets -> SUBSET Entities]
    /\ attached \in [WaitSets -> Seq(Entities)]
    /\ call \in [WaitSets -> Call]
    /\ outcome \in [WaitSets -> Outcome]
    /\ unreported \subseteq Guards

\* What DDS has attached is recorded for the next call to detach, after
\* failed attachments and failed detachments too: nothing the application did
\* not ask for can wake a later wait.
AttachmentsAreRecorded ==
    \A w \in WaitSets : dds_attached[w] \subseteq Range(attached[w])

\* A guard condition triggered at any moment (before the wait, during it,
\* between waking up and taking it, on a guard two wait sets share) is still
\* set or is in the list some wait is about to report.
TriggerIsNotLost ==
    \A g \in unreported :
        \/ triggered[g]
        \/ \E w \in WaitSets : call[w].pc = "collect" /\ g \in call[w].list

\* RMW_RET_OK comes with an entity to handle and RMW_RET_TIMEOUT with none.
OutcomeIsHonest ==
    \A w \in WaitSets :
        /\ outcome[w].result = "OK" => outcome[w].reported # {}
        /\ outcome[w].result = "TIMEOUT" => outcome[w].reported = {}

\* A request the API allows: no NULL, no duplicates, within the capacity.
IsGood(request) ==
    /\ NULL \notin Range(request)
    /\ Len(request) <= Capacity
    /\ Cardinality(Range(request)) = Len(request)

GoodWaitFailed(w) ==
    /\ IsGood(outcome[w].request)
    /\ outcome[w].result \in {"ERROR", "INVALID_ARGUMENT"}

\* A wait for existing entities within the capacity recovers from whatever the
\* same wait set refused before it (too many entities, duplicates, NULL): it
\* fails only when an entity the wait set had attached was destroyed.
GoodWaitsRecover ==
    \A w \in WaitSets :
        GoodWaitFailed(w) => ~(Range(attached[w]) \subseteq exists)

\* README.md: "DDS-backed waits and guard conditions | Supported".  A wait for
\* existing entities within the capacity does not fail.
GoodWaitsSucceed == \A w \in WaitSets : ~GoodWaitFailed(w)

\* An infinite wait on a guard condition ends once the guard is triggered,
\* whenever the trigger comes: the guard is reported by a wait that has it
\* attached, unless the application destroys it.
TriggerEndsAWait ==
    \A g \in Guards :
        (/\ g \in unreported
         /\ \E w \in WaitSets : call[w].pc = "wait" /\ g \in dds_attached[w])
            ~> g \notin unreported
=============================================================================
