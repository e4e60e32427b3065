--------------------------- MODULE WaitSetProofs ---------------------------
(***************************************************************************)
(* What is proved of WaitSet for every set of wait sets, subscriptions and *)
(* guard conditions, every capacity and every set of requests, with and    *)
(* without entities that are destroyed.                                    *)
(*                                                                         *)
(* WaitInv(w) ties the four views of wait set w together: what DDS has     *)
(* attached, what data->attached records, the request of the call in       *)
(* progress and the triggered list it is about to report.                  *)
(***************************************************************************)
EXTENDS WaitSet, SequenceLemmas

\* The recorded entities are the attached ones, but for those that were
\* destroyed and those that a failed detach loop got to before it failed.
RecordInv(w) ==
    /\ dds_attached[w] \subseteq Range(attached[w])
    /\ Range(attached[w]) \subseteq exists =>
            Range(attached[w]) \subseteq dds_attached[w]

CallInv(w) ==
    /\ call[w].pc = "attach" => attached[w] = <<>>
    /\ call[w].pc \in {"wait", "collect"} => attached[w] = call[w].request
    /\ call[w].list \subseteq Range(call[w].request)
    /\ call[w].pc # "idle" => outcome[w] = NoOutcome

WaitInv(w) == RecordInv(w) /\ CallInv(w)

OutcomeInv(w) ==
    /\ outcome[w].result = "OK" => outcome[w].reported # {}
    /\ outcome[w].result = "TIMEOUT" => outcome[w].reported = {}
    /\ GoodWaitFailed(w) => ~(Range(attached[w]) \subseteq exists)

IInv ==
    /\ TypeOK
    /\ \A w \in WaitSets : WaitInv(w) /\ OutcomeInv(w)
    /\ TriggerIsNotLost

-----------------------------------------------------------------------------
(* The loops *)

\* The detach loop stops at the end or before the first entry that is not
\* attached.
LEMMA DetachStops ==
    ASSUME NEW s \in Seq(Entities), NEW A
    PROVE  /\ LeadingIn(s, A) \in 0 .. Len(s)
           /\ \A i \in 1 .. LeadingIn(s, A) : s[i] \in A
           /\ LeadingIn(s, A) < Len(s) => s[LeadingIn(s, A) + 1] \notin A
<1> DEFINE T == {k \in 0 .. Len(s) : k < Len(s) => s[k + 1] \notin A}
<1>0. Len(s) \in Nat
  OBVIOUS
<1>1. T \in SUBSET Nat /\ Len(s) \in T
  BY <1>0
<1>2. PICK k \in T : \A y \in T : k <= y
  <2>1. T # {}
    BY <1>1
  <2> HIDE DEF T
  <2> QED BY <1>1, <2>1, MinIsLeast
<1>3. \A i \in 1 .. k : s[i] \in A
  <2> SUFFICES ASSUME NEW i \in 1 .. k, s[i] \notin A PROVE FALSE
    OBVIOUS
  <2>1. /\ k \in 0 .. Len(s) /\ i - 1 \in 0 .. Len(s) /\ (i - 1) + 1 = i
        /\ ~(k <= i - 1)
    BY <1>0
  <2>2. i - 1 \in T
    BY <2>1
  <2> QED BY <1>2, <2>1, <2>2
<1>4. k \in 0 .. Len(s) /\ (k < Len(s) => s[k + 1] \notin A)
  OBVIOUS
<1>5. \E j \in 0 .. Len(s) :
        /\ \A i \in 1 .. j : s[i] \in A
        /\ j < Len(s) => s[j + 1] \notin A
  BY <1>3, <1>4
<1> HIDE DEF T
<1> QED BY <1>5 DEF LeadingIn

\* The attach loops attach the entries before the first that cannot be.
LEMMA AttachStops ==
    ASSUME TypeOK, NEW w \in WaitSets
    PROVE  LET request == call[w].request
               done == Len(Attached(w))
           IN  /\ request \in Seq(Entities \cup {NULL})
               /\ done \in 0 .. Len(request)
               /\ Attached(w) = SubSeq(request, 1, done)
               /\ \A k \in 1 .. done : Attachable(w, k)
               /\ done < Len(request) => ~Attachable(w, done + 1)
<1>1. PICK request \in Seq(Entities \cup {NULL}) : request = call[w].request
  <2>1. call[w].request \in Requests \cup {<<>>}
    BY DEF TypeOK, Call
  <2>2. call[w].request \in Seq(Entities \cup {NULL})
    <3>1. <<>> \in Seq(Entities \cup {NULL})
      OBVIOUS
    <3> QED BY <2>1, <3>1, RequestsAreSequences
  <2> QED BY <2>2
<1>2. Len(request) \in Nat
  OBVIOUS
<1> DEFINE F == {k \in 1 .. Len(request) : ~Attachable(w, k)}
           T == {Len(request) + 1} \cup F
           m == Min(T)
<1>3. T \in SUBSET Nat /\ T # {}
  BY <1>2
<1>4. m \in T /\ \A y \in T : m <= y
  <2> HIDE DEF T
  <2> QED BY <1>3, MinIsLeast
<1>5. Attached(w) = SubSeq(request, 1, m - 1)
  BY <1>1 DEF Attached
<1>6. \A k \in F : k \in 1 .. Len(request) /\ ~Attachable(w, k)
  OBVIOUS
<1>7. \A k \in 1 .. Len(request) : ~Attachable(w, k) => k \in F
  OBVIOUS
<1> HIDE DEF m, F
<1>8. m \in 1 .. Len(request) + 1
  BY <1>2, <1>4, <1>6
<1>9. PICK d \in 0 .. Len(request) : d = m - 1 /\ d + 1 = m
  BY <1>2, <1>8
<1>10. Len(SubSeq(request, 1, d)) = d
  BY <1>2, <1>9
<1>11. \A k \in 1 .. d : Attachable(w, k)
  <2> SUFFICES ASSUME NEW k \in 1 .. d, ~Attachable(w, k) PROVE FALSE
    OBVIOUS
  <2>1. k \in 1 .. Len(request) /\ ~(m <= k)
    BY <1>2, <1>8, <1>9
  <2>2. k \in T
    BY <1>7, <2>1
  <2> QED BY <1>4, <2>1, <2>2
<1>12. d < Len(request) => ~Attachable(w, d + 1)
  BY <1>2, <1>4, <1>6, <1>9
<1> QED BY <1>1, <1>5, <1>9, <1>10, <1>11, <1>12

\* What is attached are entities.
LEMMA AttachedType ==
    ASSUME TypeOK, NEW w \in WaitSets
    PROVE  /\ Attached(w) \in Seq(Entities)
           /\ Range(Attached(w)) \subseteq Entities
           /\ Len(Attached(w)) = Len(call[w].request) =>
                    Attached(w) = call[w].request
<1>1. PICK request \in Seq(Entities \cup {NULL}) : request = call[w].request
  BY AttachStops
<1>2. PICK d \in 0 .. Len(request) :
        d = Len(Attached(w)) /\ Attached(w) = SubSeq(request, 1, d)
  BY <1>1, AttachStops
<1>3. \A k \in 1 .. d : request[k] \in Entities
  <2> SUFFICES ASSUME NEW k \in 1 .. d PROVE request[k] \in Entities
    OBVIOUS
  <2>1. request[k] # NULL
    BY <1>1, <1>2, AttachStops DEF Attachable
  <2>2. k \in 1 .. Len(request)
    BY <1>2
  <2>3. request[k] \in Entities \cup {NULL}
    BY <2>2
  <2> QED BY <2>1, <2>3
<1>4. SubSeq(request, 1, d) \in Seq(Entities)
  BY <1>3, SubSeqProperties
<1>5. d = Len(request) => SubSeq(request, 1, d) = request
  BY SubSeqFull
<1>6. Range(SubSeq(request, 1, d)) \subseteq Entities
  BY <1>4, RangeOfSequence
<1> QED BY <1>1, <1>2, <1>4, <1>5, <1>6

\* A good request repeats no entity.
LEMMA GoodRequestIsInjective ==
    ASSUME NEW S, NEW request \in Seq(S), IsGood(request)
    PROVE  \A i, j \in 1 .. Len(request) : i # j => request[i] # request[j]
<1>1. /\ Len(request) \in Nat /\ DOMAIN request = 1 .. Len(request)
  OBVIOUS
<1>2. request \in Surjection(1 .. Len(request), Range(request))
  BY <1>1 DEF Surjection, Range
<1>3. IsFiniteSet(1 .. Len(request))
      /\ Cardinality(1 .. Len(request)) = Len(request)
  BY <1>1, FS_Interval
<1>4. Cardinality(Range(request)) = Cardinality(1 .. Len(request))
  BY <1>3 DEF IsGood
<1>5. request \in Injection(1 .. Len(request), Range(request))
  BY <1>2, <1>3, <1>4, FS_Surjection
<1> QED BY <1>5 DEF Injection, IsInjective

\* With nothing left attached, a good request is attached entirely.
LEMMA GoodRequestIsAttached ==
    ASSUME TypeOK, NEW w \in WaitSets, dds_attached[w] = {},
           IsGood(call[w].request)
    PROVE  Len(Attached(w)) = Len(call[w].request)
<1>1. PICK request \in Seq(Entities \cup {NULL}) : request = call[w].request
  BY AttachStops
<1>2. PICK d \in 0 .. Len(request) : d = Len(Attached(w))
  BY <1>1, AttachStops
<1> SUFFICES ASSUME d < Len(request) PROVE FALSE
  BY <1>1, <1>2
<1>3. ~Attachable(w, d + 1)
  BY <1>1, <1>2, AttachStops
<1>4. d + 1 \in 1 .. Len(request)
  BY <1>2
<1>5. Range(request) = {request[i] : i \in 1 .. Len(request)}
  BY RangeOfSequence
<1>6. request[d + 1] # NULL
  BY <1>1, <1>4, <1>5 DEF IsGood
<1>7. d + 1 <= Capacity
  <2>1. Len(request) <= Capacity /\ Len(request) \in Nat /\ Capacity \in Nat
    BY <1>1, CapacityIsPositive DEF IsGood
  <2> QED BY <1>4, <2>1
<1>8. \A i \in 1 .. (d + 1) - 1 : request[i] # request[d + 1]
  <2> SUFFICES ASSUME NEW i \in 1 .. (d + 1) - 1
               PROVE  request[i] # request[d + 1]
    OBVIOUS
  <2>1. i \in 1 .. Len(request) /\ i # d + 1
    BY <1>4
  <2> QED BY <1>1, <1>4, <2>1, GoodRequestIsInjective
<1> QED BY <1>1, <1>3, <1>6, <1>7, <1>8 DEF Attachable

-----------------------------------------------------------------------------
(* The steps of rmw_wait *)

\* Nothing of wait set v changes.
Untouched(v) ==
    /\ dds_attached'[v] = dds_attached[v]
    /\ attached'[v] = attached[v]
    /\ call'[v] = call[v]
    /\ outcome'[v] = outcome[v]

\* A wait set that a step leaves alone keeps its invariant.
LEMMA UntouchedKeeps ==
    ASSUME NEW v \in WaitSets, WaitInv(v), OutcomeInv(v), Untouched(v),
           UNCHANGED exists
    PROVE  WaitInv(v)' /\ OutcomeInv(v)'
BY DEF Untouched, WaitInv, RecordInv, CallInv, OutcomeInv, GoodWaitFailed,
       IsGood

\* A step of the call of w; what it does to the triggers is another matter.
WaitSetStep(w) ==
    /\ UNCHANGED exists
    /\ \A v \in WaitSets \ {w} : Untouched(v)

\* It is enough to look at w.
LEMMA OneWaitSet ==
    ASSUME IInv, NEW w \in WaitSets, WaitSetStep(w),
           WaitInv(w)', OutcomeInv(w)'
    PROVE  \A v \in WaitSets : WaitInv(v)' /\ OutcomeInv(v)'
<1> SUFFICES ASSUME NEW v \in WaitSets
             PROVE  WaitInv(v)' /\ OutcomeInv(v)'
  OBVIOUS
<1>1. CASE v # w
  BY <1>1, UntouchedKeeps DEF IInv, WaitSetStep
<1> QED BY <1>1

\* Returning: no call is in progress, and the outcome is set.
LEMMA ReturnType ==
    ASSUME TypeOK, NEW w \in WaitSets, NEW result \in Results,
           NEW reported \in SUBSET Entities, Return(w, result, reported)
    PROVE  /\ call' \in [WaitSets -> Call] /\ outcome' \in [WaitSets -> Outcome]
           /\ call'[w] = NoCall
           /\ outcome'[w] = [result |-> result, request |-> call[w].request,
                             reported |-> reported]
           /\ \A v \in WaitSets \ {w} :
                call'[v] = call[v] /\ outcome'[v] = outcome[v]
<1>1. NoCall \in Call
  BY DEF NoCall, Call, Phases
<1>2. call[w].request \in Requests \cup {<<>>}
  BY DEF TypeOK, Call
<1>3. [result |-> result, request |-> call[w].request, reported |-> reported]
            \in Outcome
  BY <1>2 DEF Outcome
<1> QED BY <1>1, <1>3 DEF TypeOK, Return

\* Going on to the next loop.
LEMMA ProceedType ==
    ASSUME TypeOK, NEW w \in WaitSets, NEW pc \in Phases, Proceed(w, pc)
    PROVE  /\ call' \in [WaitSets -> Call] /\ UNCHANGED outcome
           /\ call'[w].pc = pc /\ call'[w].request = call[w].request
           /\ call'[w].list = call[w].list
           /\ \A v \in WaitSets \ {w} : call'[v] = call[v]
BY DEF TypeOK, Proceed, Call

\* A request without its NULL entries.
LEMMA RequestType ==
    ASSUME TypeOK, NEW w \in WaitSets
    PROVE  Range(call[w].request) \ {NULL} \subseteq Entities
<1>1. PICK request \in Seq(Entities \cup {NULL}) : request = call[w].request
  BY AttachStops
<1>2. Range(request) \subseteq Entities \cup {NULL}
  BY RangeOfSequence
<1> QED BY <1>1, <1>2

\* The first thing rmw_wait does.
LEMMA CallKeeps ==
    ASSUME IInv, NEW w \in WaitSets, NEW request \in Requests,
           rmw_wait(w, request)
    PROVE  TypeOK' /\ \A v \in WaitSets : WaitInv(v)' /\ OutcomeInv(v)'
<1>0. TypeOK /\ WaitInv(w) /\ OutcomeInv(w)
  BY DEF IInv
<1> DEFINE c == [NoCall EXCEPT !.pc = "detach", !.request = request]
<1>1. /\ call' = [call EXCEPT ![w] = c]
      /\ outcome' = [outcome EXCEPT ![w] = NoOutcome]
      /\ UNCHANGED <<exists, triggered, dds_attached, attached, unreported>>
  BY DEF rmw_wait
<1>2. c \in Call /\ c.pc = "detach" /\ c.list = {}
  <2>1. /\ NoCall \in [pc : Phases, request : Requests \cup {<<>>},
                       list : SUBSET Entities]
        /\ NoCall.list = {}
    BY DEF NoCall, Phases
  <2> QED BY <2>1 DEF Call, Phases
<1>20. NoOutcome \in Outcome
  BY DEF NoOutcome, Outcome, Results
<1> HIDE DEF c
<1>3. TypeOK'
  BY <1>0, <1>1, <1>2, <1>20 DEF TypeOK
<1>4. call'[w] = c /\ outcome'[w] = NoOutcome
  BY <1>0, <1>1 DEF TypeOK
<1>5. WaitInv(w)'
  BY <1>0, <1>1, <1>2, <1>4 DEF WaitInv, RecordInv, CallInv
<1>6. OutcomeInv(w)'
  BY <1>4 DEF OutcomeInv, NoOutcome, GoodWaitFailed
<1>7. WaitSetStep(w)
  BY <1>0, <1>1 DEF WaitSetStep, Untouched, TypeOK
<1> QED BY <1>3, <1>5, <1>6, <1>7, OneWaitSet

\* The detach loop.
LEMMA DetachKeeps ==
    ASSUME IInv, NEW w \in WaitSets, Detach(w)
    PROVE  TypeOK' /\ \A v \in WaitSets : WaitInv(v)' /\ OutcomeInv(v)'
<1>0. TypeOK /\ RecordInv(w) /\ CallInv(w) /\ OutcomeInv(w)
  BY DEF IInv, WaitInv
<1>1. PICK s \in Seq(Entities) : s = attached[w]
  BY <1>0 DEF TypeOK
<1>2. PICK done \in 0 .. Len(s) : done = LeadingIn(s, dds_attached[w])
  BY DetachStops
<1>3. done < Len(s) => s[done + 1] \notin dds_attached[w]
  BY <1>2, DetachStops
<1>4. /\ call[w].pc = "detach"
      /\ dds_attached' = [dds_attached EXCEPT ![w] =
                            @ \ Range(SubSeq(s, 1, done))]
      /\ \/ /\ done = Len(s)
            /\ attached' = [attached EXCEPT ![w] = <<>>]
            /\ Proceed(w, "attach")
         \/ /\ done < Len(s)
            /\ UNCHANGED attached
            /\ Return(w, "ERROR", Range(call[w].request) \ {NULL})
      /\ UNCHANGED <<exists, triggered, unreported>>
  BY <1>1, <1>2 DEF Detach
<1>5. /\ dds_attached' \in [WaitSets -> SUBSET Entities]
      /\ dds_attached'[w] = dds_attached[w] \ Range(SubSeq(s, 1, done))
      /\ \A v \in WaitSets \ {w} : dds_attached'[v] = dds_attached[v]
  BY <1>0, <1>4 DEF TypeOK
<1>6. CASE done = Len(s)
  <2>1. attached' = [attached EXCEPT ![w] = <<>>] /\ Proceed(w, "attach")
    BY <1>4, <1>6
  <2>2. /\ attached' \in [WaitSets -> Seq(Entities)] /\ attached'[w] = <<>>
        /\ \A v \in WaitSets \ {w} : attached'[v] = attached[v]
    BY <1>0, <2>1 DEF TypeOK
  <2>3. /\ call' \in [WaitSets -> Call] /\ UNCHANGED outcome
        /\ call'[w].pc = "attach" /\ call'[w].request = call[w].request
        /\ call'[w].list = call[w].list
        /\ \A v \in WaitSets \ {w} : call'[v] = call[v]
    BY <1>0, <2>1, ProceedType DEF Phases
  <2>4. dds_attached'[w] = {}
    <3>1. SubSeq(s, 1, done) = s
      BY <1>6, SubSeqFull
    <3> QED BY <1>0, <1>1, <1>5, <3>1 DEF RecordInv
  <2>5. Range(<<>>) = {}
    BY DEF Range
  <2>6. RecordInv(w)'
    BY <2>2, <2>4, <2>5 DEF RecordInv
  <2>7. CallInv(w)' /\ outcome'[w] = NoOutcome
    BY <1>0, <1>4, <2>2, <2>3 DEF CallInv
  <2>8. OutcomeInv(w)'
    BY <2>7 DEF OutcomeInv, NoOutcome, GoodWaitFailed
  <2>9. WaitSetStep(w)
    BY <1>4, <1>5, <2>2, <2>3 DEF WaitSetStep, Untouched
  <2>10. TypeOK'
    BY <1>0, <1>4, <1>5, <2>2, <2>3 DEF TypeOK
  <2> QED BY <2>6, <2>7, <2>8, <2>9, <2>10, OneWaitSet DEF WaitInv
<1>7. CASE done < Len(s)
  <2>1. UNCHANGED attached
        /\ Return(w, "ERROR", Range(call[w].request) \ {NULL})
    BY <1>2, <1>4, <1>7
  <2>2. /\ call' \in [WaitSets -> Call] /\ outcome' \in [WaitSets -> Outcome]
        /\ call'[w] = NoCall /\ outcome'[w].result = "ERROR"
        /\ \A v \in WaitSets \ {w} :
                call'[v] = call[v] /\ outcome'[v] = outcome[v]
    <3>1. "ERROR" \in Results
          /\ Range(call[w].request) \ {NULL} \in SUBSET Entities
      BY <1>0, RequestType DEF Results
    <3>2. PICK reported \in SUBSET Entities :
                reported = Range(call[w].request) \ {NULL}
      BY <3>1
    <3>3. Return(w, "ERROR", reported)
      BY <2>1, <3>2
    <3>4. /\ call' \in [WaitSets -> Call] /\ outcome' \in [WaitSets -> Outcome]
          /\ call'[w] = NoCall
          /\ \A v \in WaitSets \ {w} :
                call'[v] = call[v] /\ outcome'[v] = outcome[v]
      BY <1>0, <3>1, <3>3, ReturnType
    <3>5. outcome'[w] = [result |-> "ERROR", request |-> call[w].request,
                         reported |-> reported]
      BY <1>0, <3>1, <3>3, ReturnType
    <3> QED BY <3>4, <3>5
  <2>3. ~(Range(attached[w]) \subseteq exists)
    <3>1. done + 1 \in 1 .. Len(s)
      BY <1>2, <1>7
    <3>2. s[done + 1] \in Range(s)
      BY <3>1, RangeOfSequence
    <3> QED BY <1>0, <1>1, <1>3, <1>7, <3>2 DEF RecordInv
  <2>4. RecordInv(w)'
    BY <1>0, <1>4, <1>5, <2>1, <2>3 DEF RecordInv
  <2>5. CallInv(w)'
    BY <2>2 DEF CallInv, NoCall
  <2>6. OutcomeInv(w)'
    BY <1>4, <2>1, <2>2, <2>3 DEF OutcomeInv
  <2>7. WaitSetStep(w)
    BY <1>4, <1>5, <2>1, <2>2 DEF WaitSetStep, Untouched
  <2>8. TypeOK'
    BY <1>0, <1>4, <1>5, <2>1, <2>2 DEF TypeOK
  <2> QED BY <2>4, <2>5, <2>6, <2>7, <2>8, OneWaitSet DEF WaitInv
<1> QED BY <1>4, <1>6, <1>7

\* The fields of what rmw_wait returned.
LEMMA ReturnFields ==
    ASSUME TypeOK, NEW w \in WaitSets, NEW result \in Results,
           NEW reported \in SUBSET Entities, Return(w, result, reported)
    PROVE  /\ outcome'[w].result = result
           /\ outcome'[w].request = call[w].request
           /\ outcome'[w].reported = reported
<1>1. outcome'[w] = [result |-> result, request |-> call[w].request,
                     reported |-> reported]
  BY ReturnType
<1> QED BY <1>1

\* The attach loops.
LEMMA AttachKeeps ==
    ASSUME IInv, NEW w \in WaitSets, Attach(w)
    PROVE  TypeOK' /\ \A v \in WaitSets : WaitInv(v)' /\ OutcomeInv(v)'
<1>0. TypeOK /\ RecordInv(w) /\ CallInv(w) /\ OutcomeInv(w)
  BY DEF IInv, WaitInv
<1>1. /\ call[w].pc = "attach" /\ AttachReturn(w)
      /\ attached' = [attached EXCEPT ![w] = Attached(w)]
      /\ dds_attached' = [dds_attached EXCEPT ![w] = @ \cup Range(Attached(w))]
      /\ UNCHANGED <<exists, triggered, unreported>>
  BY DEF Attach
<1>2. dds_attached[w] = {}
  <2>1. Range(<<>>) = {}
    BY DEF Range
  <2> QED BY <1>0, <1>1, <2>1 DEF CallInv, RecordInv
<1>3. PICK s \in Seq(Entities) :
        /\ s = Attached(w) /\ Range(s) \subseteq Entities
        /\ Len(s) = Len(call[w].request) => s = call[w].request
  BY <1>0, AttachedType
<1>4. /\ dds_attached' \in [WaitSets -> SUBSET Entities]
      /\ dds_attached'[w] = Range(s)
      /\ \A v \in WaitSets \ {w} : dds_attached'[v] = dds_attached[v]
  BY <1>0, <1>1, <1>2, <1>3 DEF TypeOK
<1>5. /\ attached' \in [WaitSets -> Seq(Entities)]
      /\ attached'[w] = s
      /\ \A v \in WaitSets \ {w} : attached'[v] = attached[v]
  BY <1>0, <1>1, <1>3 DEF TypeOK
<1>6. RecordInv(w)'
  BY <1>4, <1>5 DEF RecordInv
<1>7. CASE Len(s) = Len(call[w].request)
  <2>1. Proceed(w, "wait")
    BY <1>1, <1>3, <1>7 DEF AttachReturn
  <2>2. /\ call' \in [WaitSets -> Call] /\ UNCHANGED outcome
        /\ call'[w].pc = "wait" /\ call'[w].request = call[w].request
        /\ call'[w].list = call[w].list
        /\ \A v \in WaitSets \ {w} : call'[v] = call[v]
    BY <1>0, <2>1, ProceedType DEF Phases
  <2>3. CallInv(w)' /\ outcome'[w] = NoOutcome
    BY <1>0, <1>1, <1>3, <1>5, <1>7, <2>2 DEF CallInv
  <2>4. OutcomeInv(w)'
    BY <2>3 DEF OutcomeInv, NoOutcome, GoodWaitFailed
  <2>5. WaitSetStep(w)
    BY <1>1, <1>4, <1>5, <2>2 DEF WaitSetStep, Untouched
  <2>6. TypeOK'
    BY <1>0, <1>1, <1>4, <1>5, <2>2 DEF TypeOK
  <2> QED BY <1>6, <2>3, <2>4, <2>5, <2>6, OneWaitSet DEF WaitInv
<1>8. CASE Len(s) # Len(call[w].request)
  <2>1. PICK result \in {"ERROR", "INVALID_ARGUMENT"} :
            Return(w, result, Range(call[w].request) \ {NULL})
    BY <1>1, <1>3, <1>8 DEF AttachReturn
  <2>2. PICK reported \in SUBSET Entities :
            reported = Range(call[w].request) \ {NULL}
    BY <1>0, RequestType
  <2>3. result \in Results /\ Return(w, result, reported)
    BY <2>1, <2>2 DEF Results
  <2>4. /\ call' \in [WaitSets -> Call] /\ outcome' \in [WaitSets -> Outcome]
        /\ call'[w] = NoCall
        /\ \A v \in WaitSets \ {w} :
                call'[v] = call[v] /\ outcome'[v] = outcome[v]
    BY <1>0, <2>3, ReturnType
  <2>5. outcome'[w].result = result
        /\ outcome'[w].request = call[w].request
    BY <1>0, <2>3, ReturnFields
  <2>6. ~IsGood(call[w].request)
    BY <1>0, <1>2, <1>3, <1>8, GoodRequestIsAttached
  <2>7. ~GoodWaitFailed(w)'
    BY <2>5, <2>6 DEF GoodWaitFailed, IsGood
  <2>8. OutcomeInv(w)'
    BY <2>1, <2>5, <2>7 DEF OutcomeInv
  <2>9. CallInv(w)'
    BY <2>4 DEF CallInv, NoCall
  <2>10. WaitSetStep(w)
    BY <1>1, <1>4, <1>5, <2>4 DEF WaitSetStep, Untouched
  <2>11. TypeOK'
    BY <1>0, <1>1, <1>4, <1>5, <2>4 DEF TypeOK
  <2> QED BY <1>6, <2>8, <2>9, <2>10, <2>11, OneWaitSet DEF WaitInv
<1> QED BY <1>7, <1>8

\* dds_waitset_wait returns.
LEMMA WakeKeeps ==
    ASSUME IInv, NEW w \in WaitSets, Wake(w) \/ TimeOut(w)
    PROVE  TypeOK' /\ \A v \in WaitSets : WaitInv(v)' /\ OutcomeInv(v)'
<1>0. TypeOK /\ RecordInv(w) /\ CallInv(w) /\ OutcomeInv(w)
  BY DEF IInv, WaitInv
<1>1. /\ call[w].pc = "wait"
      /\ UNCHANGED <<exists, triggered, dds_attached, attached, outcome,
                     unreported>>
  BY DEF Wake, TimeOut
<1>2. call[w] \in [pc : Phases, request : Requests \cup {<<>>},
                   list : SUBSET Entities]
  BY <1>0 DEF TypeOK, Call
<1>3. TriggeredIn(w) \subseteq Range(call[w].request)
      /\ TriggeredIn(w) \in SUBSET Entities
  BY <1>0, <1>1 DEF TriggeredIn, RecordInv, CallInv, TypeOK
<1>4. \E list \in {TriggeredIn(w), call[w].list} :
        call' = [call EXCEPT ![w].pc = "collect", ![w].list = list]
  <2>1. CASE Wake(w)
    BY <2>1 DEF Wake
  <2>2. CASE TimeOut(w)
    <3>1. [call EXCEPT ![w].pc = "collect"]
            = [call EXCEPT ![w].pc = "collect", ![w].list = call[w].list]
      BY <1>0, <1>2 DEF TypeOK, Call
    <3> QED BY <2>2, <3>1 DEF TimeOut
  <2> QED BY <2>1, <2>2
<1>5. PICK list \in SUBSET Entities :
        /\ call' = [call EXCEPT ![w].pc = "collect", ![w].list = list]
        /\ list \subseteq Range(call[w].request)
  BY <1>0, <1>2, <1>3, <1>4 DEF CallInv
<1>6. /\ call' \in [WaitSets -> Call]
      /\ call'[w].pc = "collect" /\ call'[w].request = call[w].request
      /\ call'[w].list = list
      /\ \A v \in WaitSets \ {w} : call'[v] = call[v]
  BY <1>0, <1>2, <1>5 DEF TypeOK, Call, Phases
<1>7. CallInv(w)' /\ outcome'[w] = NoOutcome
  BY <1>0, <1>1, <1>5, <1>6 DEF CallInv
<1>8. RecordInv(w)'
  BY <1>0, <1>1 DEF RecordInv
<1>9. OutcomeInv(w)'
  BY <1>7 DEF OutcomeInv, NoOutcome, GoodWaitFailed
<1>10. WaitSetStep(w)
  BY <1>1, <1>6 DEF WaitSetStep, Untouched
<1>11. TypeOK'
  BY <1>0, <1>1, <1>6 DEF TypeOK
<1> QED BY <1>7, <1>8, <1>9, <1>10, <1>11, OneWaitSet DEF WaitInv

\* rmw_wait reports what woke it.
LEMMA CollectKeeps ==
    ASSUME IInv, NEW w \in WaitSets, Collect(w)
    PROVE  TypeOK' /\ \A v \in WaitSets : WaitInv(v)' /\ OutcomeInv(v)'
<1>0. TypeOK /\ RecordInv(w) /\ CallInv(w) /\ OutcomeInv(w)
  BY DEF IInv, WaitInv
<1> DEFINE list == call[w].list
           result == IF list = {} THEN "TIMEOUT" ELSE "OK"
<1>1. Report(w, list \cap Guards \cap Range(call[w].request), list)
  BY DEF Collect
<1>2. /\ list \in SUBSET Entities
      /\ list \subseteq Range(call[w].request)
  BY <1>0 DEF TypeOK, Call, CallInv
<1>3. Range(call[w].request) \cap list = list
  BY <1>2
<1>4. Return(w, result, list) /\ result \in Results
  BY <1>1, <1>3 DEF Report, Results
<1>5. /\ UNCHANGED <<exists, dds_attached, attached>>
      /\ triggered' \in [Entities -> BOOLEAN]
      /\ unreported' \subseteq Guards
  BY <1>0, <1>1 DEF Report, TypeOK
<1>6. (list = {} => result = "TIMEOUT") /\ (list # {} => result = "OK")
  OBVIOUS
<1> HIDE DEF list, result
<1>7. /\ call' \in [WaitSets -> Call] /\ outcome' \in [WaitSets -> Outcome]
      /\ call'[w] = NoCall
      /\ \A v \in WaitSets \ {w} :
                call'[v] = call[v] /\ outcome'[v] = outcome[v]
  BY <1>0, <1>2, <1>4, ReturnType
<1>8. outcome'[w].result = result /\ outcome'[w].reported = list
  BY <1>0, <1>2, <1>4, ReturnFields
<1>9. OutcomeInv(w)'
  BY <1>6, <1>8 DEF OutcomeInv, GoodWaitFailed
<1>10. CallInv(w)' /\ RecordInv(w)'
  BY <1>0, <1>5, <1>7 DEF CallInv, NoCall, RecordInv
<1>11. WaitSetStep(w)
  BY <1>5, <1>7 DEF WaitSetStep, Untouched
<1>12. TypeOK'
  BY <1>0, <1>5, <1>7 DEF TypeOK
<1> QED BY <1>9, <1>10, <1>11, <1>12, OneWaitSet DEF WaitInv

-----------------------------------------------------------------------------
(* The other calls *)

\* rmw_destroy_wait_set and rmw_create_wait_set.
LEMMA RenewKeeps ==
    ASSUME IInv, NEW w \in WaitSets, Renew(w)
    PROVE  TypeOK' /\ \A v \in WaitSets : WaitInv(v)' /\ OutcomeInv(v)'
<1>0. TypeOK /\ CallInv(w)
  BY DEF IInv, WaitInv
<1>1. /\ call[w].pc = "idle"
      /\ dds_attached' = [dds_attached EXCEPT ![w] = {}]
      /\ attached' = [attached EXCEPT ![w] = <<>>]
      /\ outcome' = [outcome EXCEPT ![w] = NoOutcome]
      /\ UNCHANGED <<exists, triggered, call, unreported>>
  BY DEF Renew
<1>2. NoOutcome \in Outcome /\ <<>> \in Seq(Entities) /\ {} \in SUBSET Entities
  BY DEF NoOutcome, Outcome, Results
<1>3. TypeOK'
  BY <1>0, <1>1, <1>2 DEF TypeOK
<1>4. /\ dds_attached'[w] = {} /\ attached'[w] = <<>>
      /\ outcome'[w] = NoOutcome
  BY <1>0, <1>1 DEF TypeOK
<1>5. RecordInv(w)'
  <2>1. Range(<<>>) = {}
    BY DEF Range
  <2> QED BY <1>4, <2>1 DEF RecordInv
<1>6. CallInv(w)'
  BY <1>0, <1>1, <1>4 DEF CallInv
<1>7. OutcomeInv(w)'
  BY <1>4 DEF OutcomeInv, NoOutcome, GoodWaitFailed
<1>8. WaitSetStep(w)
  BY <1>0, <1>1 DEF WaitSetStep, Untouched, TypeOK
<1> QED BY <1>3, <1>5, <1>6, <1>7, <1>8, OneWaitSet DEF WaitInv

\* Triggers come and go without touching a wait set.
LEMMA TriggersLeaveWaitSetsAlone ==
    ASSUME IInv,
           UNCHANGED <<exists, dds_attached, attached, call, outcome>>
    PROVE  \A v \in WaitSets : WaitInv(v)' /\ OutcomeInv(v)'
<1> SUFFICES ASSUME NEW v \in WaitSets PROVE WaitInv(v)' /\ OutcomeInv(v)'
  OBVIOUS
<1>1. Untouched(v) /\ UNCHANGED exists
  BY DEF Untouched
<1> QED BY <1>1, UntouchedKeeps DEF IInv

\* A destroyed entity is detached everywhere; a wait set that had it attached
\* remembers an entity that does not exist.
LEMMA DestroyKeeps ==
    ASSUME IInv, NEW e \in Entities, Destroy(e)
    PROVE  TypeOK' /\ \A v \in WaitSets : WaitInv(v)' /\ OutcomeInv(v)'
<1>0. TypeOK
  BY DEF IInv
<1>1. /\ exists' = exists \ {e}
      /\ triggered' = [triggered EXCEPT ![e] = FALSE]
      /\ dds_attached' = [w \in WaitSets |-> dds_attached[w] \ {e}]
      /\ unreported' = unreported \ {e}
      /\ UNCHANGED <<attached, call, outcome>>
  BY DEF Destroy
<1>2. TypeOK'
  BY <1>0, <1>1 DEF TypeOK
<1> SUFFICES ASSUME NEW v \in WaitSets PROVE WaitInv(v)' /\ OutcomeInv(v)'
  BY <1>2
<1>3. RecordInv(v) /\ CallInv(v) /\ OutcomeInv(v)
  BY DEF IInv, WaitInv
<1>4. dds_attached'[v] = dds_attached[v] \ {e}
  BY <1>1
<1>5. RecordInv(v)'
  BY <1>1, <1>3, <1>4 DEF RecordInv
<1>6. CallInv(v)'
  BY <1>1, <1>3 DEF CallInv
<1>7. OutcomeInv(v)'
  BY <1>1, <1>3 DEF OutcomeInv, GoodWaitFailed, IsGood
<1> QED BY <1>5, <1>6, <1>7 DEF WaitInv

\* A created entity is not one that some wait set remembers.
LEMMA CreateKeeps ==
    ASSUME IInv, NEW e \in Entities, Create(e)
    PROVE  TypeOK' /\ \A v \in WaitSets : WaitInv(v)' /\ OutcomeInv(v)'
<1>0. TypeOK
  BY DEF IInv
<1>1. /\ exists' = exists \cup {e}
      /\ UNCHANGED <<triggered, dds_attached, attached, call, outcome,
                     unreported>>
  BY DEF Create
<1>2. TypeOK'
  BY <1>0, <1>1 DEF TypeOK
<1> SUFFICES ASSUME NEW v \in WaitSets PROVE WaitInv(v)' /\ OutcomeInv(v)'
  BY <1>2
<1>3. RecordInv(v) /\ CallInv(v) /\ OutcomeInv(v)
  BY DEF IInv, WaitInv
<1>4. e \notin Range(attached[v])
  BY DEF Create
<1>5. Range(attached[v]) \subseteq exists' => Range(attached[v]) \subseteq exists
  BY <1>1, <1>4
<1>6. RecordInv(v)'
  BY <1>1, <1>3, <1>5 DEF RecordInv
<1>7. CallInv(v)'
  BY <1>1, <1>3 DEF CallInv
<1>8. OutcomeInv(v)'
  BY <1>1, <1>3, <1>5 DEF OutcomeInv, GoodWaitFailed, IsGood
<1> QED BY <1>6, <1>7, <1>8 DEF WaitInv

-----------------------------------------------------------------------------
(* Triggers *)

\* A step that touches no trigger and no list that is about to be reported
\* loses no trigger.
LEMMA TriggersAreKept ==
    ASSUME TriggerIsNotLost, UNCHANGED <<triggered, unreported>>,
           \A v \in WaitSets : call[v].pc = "collect" => call'[v] = call[v]
    PROVE  TriggerIsNotLost'
BY DEF TriggerIsNotLost

\* The call of w is not about to report.
LEMMA CallTriggersAreKept ==
    ASSUME IInv, NEW w \in WaitSets,
           \/ \E request \in Requests : rmw_wait(w, request)
           \/ Detach(w) \/ Attach(w) \/ Wake(w) \/ TimeOut(w) \/ Renew(w)
    PROVE  TriggerIsNotLost'
<1>1. call[w].pc # "collect" \/ UNCHANGED call
  BY DEF rmw_wait, Detach, Attach, Wake, TimeOut, Renew
<1>2. UNCHANGED <<triggered, unreported>>
  BY DEF rmw_wait, Detach, Attach, Wake, TimeOut, Renew
<1>3. \A v \in WaitSets \ {w} : call'[v] = call[v]
  BY DEF IInv, TypeOK, rmw_wait, Detach, Attach, Wake, TimeOut, Renew,
         AttachReturn, Return, Proceed
<1> QED BY <1>1, <1>2, <1>3, TriggersAreKept DEF IInv

\* A trigger that rmw_wait takes is one it reports.
LEMMA CollectTriggersAreKept ==
    ASSUME IInv, NEW w \in WaitSets, Collect(w)
    PROVE  TriggerIsNotLost'
<1> DEFINE list == call[w].list
<1>0. TypeOK /\ TriggerIsNotLost /\ CallInv(w)
  BY DEF IInv, WaitInv
<1>1. list \subseteq Range(call[w].request)
  BY <1>0 DEF CallInv
<1>2. /\ triggered' = [e \in Entities |->
            triggered[e]
            /\ e \notin (list \cap Guards \cap Range(call[w].request))]
      /\ unreported' = unreported \ (list \cap Range(call[w].request))
      /\ call' = [call EXCEPT ![w] = NoCall]
  BY DEF Collect, Report, Return
<1> SUFFICES ASSUME NEW g \in unreported'
             PROVE  \/ triggered'[g]
                    \/ \E v \in WaitSets :
                            call'[v].pc = "collect" /\ g \in call'[v].list
  BY DEF TriggerIsNotLost
<1>3. g \in unreported /\ g \notin list /\ g \in Entities
  BY <1>0, <1>1, <1>2 DEF TypeOK, Entities
<1>4. CASE triggered[g]
  BY <1>2, <1>3, <1>4
<1>5. CASE \E v \in WaitSets : call[v].pc = "collect" /\ g \in call[v].list
  <2>1. PICK v \in WaitSets : call[v].pc = "collect" /\ g \in call[v].list
    BY <1>5
  <2>2. v # w
    BY <1>3, <2>1
  <2>3. call'[v] = call[v]
    BY <1>0, <1>2, <2>2 DEF TypeOK
  <2> QED BY <2>1, <2>3
<1> QED BY <1>0, <1>3, <1>4, <1>5 DEF TriggerIsNotLost

\* Triggering, data, takes, destroying and creating.
LEMMA OtherTriggersAreKept ==
    ASSUME IInv,
           \/ \E g \in Guards : rmw_trigger_guard_condition(g)
           \/ \E s \in Subscriptions : DataArrives(s) \/ TakeLastSample(s)
           \/ \E e \in Entities : Destroy(e) \/ Create(e)
    PROVE  TriggerIsNotLost'
<1>0. TypeOK /\ TriggerIsNotLost
  BY DEF IInv
<1>1. UNCHANGED call
  BY DEF rmw_trigger_guard_condition, DataArrives, TakeLastSample, Destroy,
         Create
<1> SUFFICES ASSUME NEW g \in unreported'
             PROVE  \/ triggered'[g]
                    \/ \E v \in WaitSets :
                            call'[v].pc = "collect" /\ g \in call'[v].list
  BY DEF TriggerIsNotLost
<1>2. \/ g \in unreported /\ (triggered[g] => triggered'[g])
      \/ triggered'[g]
  <2>1. ASSUME NEW h \in Guards, rmw_trigger_guard_condition(h)
        PROVE  \/ g \in unreported /\ (triggered[g] => triggered'[g])
               \/ triggered'[g]
    BY <1>0, <2>1 DEF rmw_trigger_guard_condition, TypeOK, Entities
  <2>2. ASSUME NEW s \in Subscriptions, DataArrives(s) \/ TakeLastSample(s)
        PROVE  g \in unreported /\ (triggered[g] => triggered'[g])
    <3>1. g \in Guards /\ g # s
      BY <1>0, <2>2, EntitiesAreDistinct DEF DataArrives, TakeLastSample, TypeOK
    <3> QED BY <1>0, <2>2, <3>1 DEF DataArrives, TakeLastSample, TypeOK, Entities
  <2>3. ASSUME NEW e \in Entities, Destroy(e)
        PROVE  g \in unreported /\ (triggered[g] => triggered'[g])
    BY <1>0, <2>3 DEF Destroy, TypeOK, Entities
  <2>4. ASSUME NEW e \in Entities, Create(e)
        PROVE  g \in unreported /\ (triggered[g] => triggered'[g])
    BY <2>4 DEF Create
  <2> QED BY <2>1, <2>2, <2>3, <2>4
<1> QED BY <1>0, <1>1, <1>2 DEF TriggerIsNotLost

-----------------------------------------------------------------------------
(* The theorems *)

\* Initially nothing is attached and no call is in progress.
LEMMA IInvInitially == Init => IInv
<1> SUFFICES ASSUME Init PROVE IInv
  OBVIOUS
<1>1. /\ NoCall \in Call /\ NoOutcome \in Outcome
  BY DEF NoCall, Call, Phases, NoOutcome, Outcome, Results
<1>2. <<>> \in Seq(Entities) /\ Range(<<>>) = {}
  BY DEF Range
<1>3. TypeOK
  BY <1>1, <1>2 DEF Init, TypeOK
<1>4. ASSUME NEW w \in WaitSets PROVE WaitInv(w) /\ OutcomeInv(w)
  <2>1. /\ dds_attached[w] = {} /\ attached[w] = <<>> /\ call[w] = NoCall
        /\ outcome[w] = NoOutcome
    BY DEF Init
  <2>2. RecordInv(w)
    BY <1>2, <2>1 DEF RecordInv
  <2>3. CallInv(w)
    BY <2>1 DEF CallInv, NoCall
  <2>4. OutcomeInv(w)
    BY <2>1 DEF OutcomeInv, NoOutcome, GoodWaitFailed
  <2> QED BY <2>2, <2>3, <2>4 DEF WaitInv
<1>5. TriggerIsNotLost
  BY DEF Init, TriggerIsNotLost
<1> QED BY <1>3, <1>4, <1>5 DEF IInv

\* Every step keeps the invariant.
LEMMA IInvIsInductive == IInv /\ [Next]_vars => IInv'
<1> SUFFICES ASSUME IInv, [Next]_vars PROVE IInv'
  OBVIOUS
<1>1. ASSUME NEW w \in WaitSets,
             NEW request \in Requests, rmw_wait(w, request)
      PROVE  IInv'
  BY <1>1, CallKeeps, CallTriggersAreKept DEF IInv
<1>2. ASSUME NEW w \in WaitSets, Detach(w) PROVE IInv'
  BY <1>2, DetachKeeps, CallTriggersAreKept DEF IInv
<1>3. ASSUME NEW w \in WaitSets, Attach(w) PROVE IInv'
  BY <1>3, AttachKeeps, CallTriggersAreKept DEF IInv
<1>4. ASSUME NEW w \in WaitSets, Wake(w) \/ TimeOut(w) PROVE IInv'
  BY <1>4, WakeKeeps, CallTriggersAreKept DEF IInv
<1>5. ASSUME NEW w \in WaitSets, Collect(w) PROVE IInv'
  BY <1>5, CollectKeeps, CollectTriggersAreKept DEF IInv
<1>6. ASSUME NEW w \in WaitSets, Renew(w) PROVE IInv'
  BY <1>6, RenewKeeps, CallTriggersAreKept DEF IInv
<1>7. ASSUME NEW g \in Guards, rmw_trigger_guard_condition(g) PROVE IInv'
  <2>1. UNCHANGED <<exists, dds_attached, attached, call, outcome>>
    BY <1>7 DEF rmw_trigger_guard_condition
  <2>2. TypeOK'
    BY <1>7 DEF rmw_trigger_guard_condition, IInv, TypeOK, Entities
  <2>3. TriggerIsNotLost'
    BY <1>7, OtherTriggersAreKept
  <2> QED BY <2>1, <2>2, <2>3, TriggersLeaveWaitSetsAlone DEF IInv
<1>8. ASSUME NEW s \in Subscriptions, DataArrives(s) \/ TakeLastSample(s)
      PROVE  IInv'
  <2>1. UNCHANGED <<exists, dds_attached, attached, call, outcome>>
    BY <1>8 DEF DataArrives, TakeLastSample
  <2>2. TypeOK'
    BY <1>8 DEF DataArrives, TakeLastSample, IInv, TypeOK, Entities
  <2>3. TriggerIsNotLost'
    BY <1>8, OtherTriggersAreKept
  <2> QED BY <2>1, <2>2, <2>3, TriggersLeaveWaitSetsAlone DEF IInv
<1>9. ASSUME NEW e \in Entities, Destroy(e) PROVE IInv'
  BY <1>9, DestroyKeeps, OtherTriggersAreKept DEF IInv
<1>10. ASSUME NEW e \in Entities, Create(e) PROVE IInv'
  BY <1>10, CreateKeeps, OtherTriggersAreKept DEF IInv
<1>11. CASE UNCHANGED vars
  <2>1. TypeOK' /\ TriggerIsNotLost'
    BY <1>11 DEF vars, IInv, TypeOK, TriggerIsNotLost
  <2> QED BY <1>11, <2>1, TriggersLeaveWaitSetsAlone DEF IInv, vars
<1> QED BY <1>1, <1>2, <1>3, <1>4, <1>5, <1>6, <1>7, <1>8, <1>9, <1>10, <1>11
        DEF Next, WaitStep

\* The invariant holds in every reachable state.
THEOREM WaitSetInvAlways == Spec => []IInv
<1>1. Init => IInv
  BY IInvInitially
<1>2. IInv /\ [Next]_vars => IInv'
  BY IInvIsInductive
<1> QED BY <1>1, <1>2, PTL DEF Spec

\* Every variable of rmw_wait and of the calls around it keeps its type.
THEOREM TypeCorrect == Spec => []TypeOK
<1>1. IInv => TypeOK
  BY DEF IInv
<1> QED BY <1>1, WaitSetInvAlways, PTL

\* rmw_wait records what DDS has attached, on its error paths too, for any
\* number of wait sets, entities and requests.
THEOREM AttachmentsAlwaysRecorded == Spec => []AttachmentsAreRecorded
<1>1. IInv => AttachmentsAreRecorded
  BY DEF IInv, WaitInv, RecordInv, AttachmentsAreRecorded
<1> QED BY <1>1, WaitSetInvAlways, PTL

\* No interleaving of rmw_trigger_guard_condition with the steps of any number
\* of rmw_wait calls, sharing guard conditions or not, loses a trigger.
THEOREM TriggersAreNeverLost == Spec => []TriggerIsNotLost
<1>1. IInv => TriggerIsNotLost
  BY DEF IInv
<1> QED BY <1>1, WaitSetInvAlways, PTL

\* RMW_RET_OK comes with an entity to handle and RMW_RET_TIMEOUT with none.
THEOREM OutcomesAreHonest == Spec => []OutcomeIsHonest
<1>1. IInv => OutcomeIsHonest
  BY DEF IInv, OutcomeInv, OutcomeIsHonest
<1> QED BY <1>1, WaitSetInvAlways, PTL

\* A good wait fails only when an entity its wait set had attached was
\* destroyed, whatever the wait set was asked before.
THEOREM GoodWaitsAlwaysRecover == Spec => []GoodWaitsRecover
<1>1. IInv => GoodWaitsRecover
  BY DEF IInv, OutcomeInv, GoodWaitsRecover
<1> QED BY <1>1, WaitSetInvAlways, PTL
=============================================================================
