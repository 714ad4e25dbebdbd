------------------------- MODULE SwapDecisionProofs -------------------------
(***************************************************************************)
(* For any number of groups, requests, operators and reasons: the types of *)
(* SwapDecision, and that the audit trail of update_exchange_group_decision *)
(* only ever records transitions that are legal from the state their       *)
(* request had loaded, while the decision row mirrors its last event; what *)
(* callers are told agrees with the trail, and the row's group is never    *)
(* from an older prescription than its first one.                          *)
(***************************************************************************)
EXTENDS SwapDecision, TLAPS, SequenceTheorems

(* Decision rows are never deleted: the row a handler loaded is still      *)
(* there when it writes.                                                   *)
RowsStay ==
  \A r \in Requests :
    pc[r] \in {"prescribe", "write"} /\ loaded[r] # NoRow
      => decision[body[r].key] # NoRow

(* A handler past Load holds a true copy of some earlier state of its row: *)
(* the one the basis-th event of the key left behind.                      *)
LoadedFromBasis ==
  \A r \in Requests :
    pc[r] \in {"prescribe", "write"} =>
      LET log == events[body[r].key] IN
      /\ basis[r] \in 0..Len(log)
      /\ loaded[r] = NoRow <=> basis[r] = 0
      /\ loaded[r] # NoRow =>
           /\ loaded[r].status = log[basis[r]].status
           /\ loaded[r].updated_at = log[basis[r]].at
           /\ body[r].status \in AllowedTransitions[loaded[r].status]

(* Two requests never carry the same time stamp. *)
StampsDistinct ==
  \A r \in Requests :
    pc[r] # "idle" =>
      /\ body[r].at <= clock
      /\ \A q \in Requests :
           pc[q] # "idle" /\ body[q].at = body[r].at => q = r

(* An event belongs to a finished request and carries its time stamp. *)
EventsOwned ==
  \A k \in Keys : \A i \in 1..Len(events[k]) :
    LET q == events[k][i].request IN
    /\ pc[q] = "done"
    /\ events[k][i].at = body[q].at

IInv ==
  /\ TypeOK
  /\ RowsStay
  /\ RowMirrorsLastEvent
  /\ EventsLegalFromBasis
  /\ LoadedFromBasis
  /\ StampsDistinct
  /\ EventsOwned

-----------------------------------------------------------------------------
(* What the helpers build has the type of what it is stored as. *)
LEMMA InsertedRowType ==
  ASSUME NEW b \in Bodies, NEW g \in Nat
  PROVE  InsertedRow(b, g) \in Rows
  BY DEF InsertedRow, Rows, Bodies

(* So has the row an UPDATE leaves. *)
LEMMA UpdatedRowType ==
  ASSUME NEW row \in Rows, NEW seen \in Rows, NEW b \in Bodies, NEW g \in Nat
  PROVE  UpdatedRow(row, seen, b, g) \in Rows
  BY DEF UpdatedRow, Flushed, Rows, Bodies

(* A write whose status and time differ from the row its handler loaded    *)
(* carries both columns, whatever is stored by then.                       *)
LEMMA UpdatedRowColumns ==
  ASSUME NEW row \in Rows, NEW seen \in Rows, NEW b \in Bodies, NEW g \in Nat,
         b.status # seen.status, b.at # seen.updated_at
  PROVE  /\ UpdatedRow(row, seen, b, g).status = b.status
         /\ UpdatedRow(row, seen, b, g).updated_at = b.at
  BY DEF UpdatedRow, Flushed, Rows, Bodies

(* And so has the audit event. *)
LEMMA EventType ==
  ASSUME TypeOK, NEW r \in Requests, pc[r] # "idle"
  PROVE  Event(r) \in Events
  BY DEF TypeOK, Event, Events, Bodies

(* An event of the trail, and the position it was based on, are typed. *)
LEMMA StoredEvent ==
  ASSUME TypeOK, NEW k \in Keys, NEW i \in 1..Len(events[k])
  PROVE  events[k][i] \in Events /\ events[k][i].request \in Requests
  <1>1. events[k] \in Seq(Events)
    BY DEF TypeOK
  <1>2. events[k][i] \in Events
    BY <1>1, ElementOfSeq
  <1> QED
    BY <1>2 DEF Events

(* Committing keeps the types of the two audit tables. *)
LEMMA RecordType ==
  ASSUME TypeOK, NEW r \in Requests, pc[r] = "write",
         NEW row \in Rows, Record(r, row)
  PROVE  TypeOK'
  <1>1. body[r].key \in Keys
    BY DEF TypeOK, Bodies
  <1>2. Event(r) \in Events
    BY EventType
  <1>3. events' \in [Keys -> Seq(Events)]
    BY <1>1, <1>2 DEF TypeOK, Record
  <1>4. decision' \in [Keys -> Rows \cup {NoRow}]
    BY <1>1 DEF TypeOK, Record
  <1> QED
    BY <1>3, <1>4 DEF TypeOK, Record, Finish, Answers

(* Answering without writing keeps types and rows. *)
LEMMA FinishType ==
  ASSUME TypeOK, RowsStay, NEW r \in Requests, pc[r] # "idle",
         NEW told \in Answers, Finish(r, told),
         UNCHANGED <<prescribed, generation, decision, events, clock, body>>
  PROVE  TypeOK' /\ RowsStay'
  <1>1. TypeOK'
    BY DEF Finish, TypeOK
  <1>2. RowsStay'
    BY DEF Finish, TypeOK, RowsStay
  <1> QED
    BY <1>1, <1>2

(* The initial state is well typed. *)
LEMMA TypeInit == Init => TypeOK /\ RowsStay
  BY DEF Init, TypeOK, Answers, RowsStay

(* Every step keeps the types, and no row is ever deleted. *)
LEMMA TypeStep == TypeOK /\ RowsStay /\ [Next]_vars => TypeOK' /\ RowsStay'
  <1> SUFFICES ASSUME TypeOK, RowsStay, [Next]_vars PROVE TypeOK' /\ RowsStay'
    OBVIOUS
  <1>1. CASE RefreshPrescription
    BY <1>1, BoundAssumption DEF RefreshPrescription, TypeOK, RowsStay, handler
  <1>2. ASSUME NEW r \in Requests, NEW k \in Keys, NEW s \in Statuses,
               NEW o \in Operators, NEW x \in Reasons \cup {NoReason},
               Receive(r, k, s, o, x)
        PROVE  TypeOK' /\ RowsStay'
    BY <1>2 DEF Receive, TypeOK, RowsStay
  <1>3. ASSUME NEW r \in Requests, Load(r) PROVE TypeOK' /\ RowsStay'
    <2>1. body[r].key \in Keys
      BY <1>3 DEF Load, TypeOK, Bodies
    <2>2. /\ decision[body[r].key] \in Rows \cup {NoRow}
          /\ Len(events[body[r].key]) \in Nat
      BY <2>1 DEF TypeOK
    <2>3. UNCHANGED <<prescribed, generation, decision, events, clock, body>>
      BY <1>3 DEF Load
    <2>4. CASE GoOn(r, decision[body[r].key])
      <3>1. TypeOK'
        <4>1. pc[r] = "load"
          BY <1>3 DEF Load
        <4> QED
          BY <2>2, <2>3, <2>4, <4>1 DEF GoOn, TypeOK
      <3>2. RowsStay'
        BY <2>3, <2>4 DEF GoOn, TypeOK, RowsStay
      <3> QED
        BY <3>1, <3>2
    <2>5. ASSUME NEW told \in Answers, Finish(r, told) PROVE TypeOK' /\ RowsStay'
      BY <1>3, <2>3, <2>5, FinishType DEF Load
    <2> QED
      BY <1>3, <2>4, <2>5 DEF Load, Answers
  <1>4. ASSUME NEW r \in Requests, Prescribe(r) PROVE TypeOK' /\ RowsStay'
    <2>1. CASE body[r].key \in prescribed
      <3>1. /\ pc[r] = "prescribe"
            /\ pc' = [pc EXCEPT ![r] = "write"]
            /\ group' = [group EXCEPT ![r] = generation]
            /\ UNCHANGED <<prescribed, generation, decision, events, clock,
                           body, loaded, basis, answer>>
        BY <1>4, <2>1 DEF Prescribe, Finish
      <3>2. TypeOK'
        BY <3>1 DEF TypeOK
      <3>3. RowsStay'
        BY <3>1 DEF TypeOK, RowsStay
      <3> QED
        BY <3>2, <3>3
    <2>2. CASE body[r].key \notin prescribed
      BY <1>4, <2>2, FinishType DEF Prescribe, Answers
    <2> QED
      BY <2>1, <2>2
  <1>5. ASSUME NEW r \in Requests, NEW row \in Rows, pc[r] = "write", Record(r, row)
        PROVE  TypeOK' /\ RowsStay'
    <2>1. TypeOK'
      BY <1>5, RecordType
    <2>2. RowsStay'
      BY <1>5, RowAssumption DEF Record, Finish, TypeOK, RowsStay, Bodies
    <2> QED
      BY <2>1, <2>2
  <1>6. ASSUME NEW r \in Requests, InsertDecision(r) PROVE TypeOK' /\ RowsStay'
    BY <1>5, <1>6, InsertedRowType DEF InsertDecision, TypeOK
  <1>7. ASSUME NEW r \in Requests, UpdateDecision(r) PROVE TypeOK' /\ RowsStay'
    <2>1. /\ decision[body[r].key] \in Rows
          /\ loaded[r] \in Rows
          /\ body[r] \in Bodies
          /\ group[r] \in Nat
      BY <1>7 DEF UpdateDecision, TypeOK, RowsStay, Bodies
    <2> QED
      BY <1>5, <1>7, <2>1, UpdatedRowType DEF UpdateDecision
  <1>8. ASSUME NEW r \in Requests, InsertCollides(r) PROVE TypeOK' /\ RowsStay'
    BY <1>8, FinishType DEF InsertCollides, Answers
  <1>9. ASSUME NEW r \in Requests, Fail(r) PROVE TypeOK' /\ RowsStay'
    BY <1>9, FinishType DEF Fail, Answers
  <1>10. CASE UNCHANGED vars
    BY <1>10 DEF vars, handler, TypeOK, RowsStay
  <1> QED
    BY <1>1, <1>2, <1>3, <1>4, <1>6, <1>7, <1>8, <1>9, <1>10 DEF Next, Handle

(* Every state of the decision service is well typed. *)
THEOREM TypeCorrect == Spec => []TypeOK
  <1>1. TypeOK /\ RowsStay /\ [Next]_vars => (TypeOK /\ RowsStay)'
    BY TypeStep
  <1> QED
    BY TypeInit, <1>1, PTL DEF Spec

-----------------------------------------------------------------------------
(* A step that touches neither the row nor the trail, and only moves one   *)
(* handler out of its transaction, keeps what was recorded.                *)
LEMMA AnswerKeeps ==
  ASSUME IInv, TypeOK', RowsStay', NEW r \in Requests,
         pc[r] \in {"load", "prescribe", "write"},
         NEW told, Finish(r, told),
         UNCHANGED <<decision, events, clock, body>>
  PROVE  IInv'
  <1>0. /\ pc' = [pc EXCEPT ![r] = "done"]
        /\ \A q \in Requests : q # r => loaded'[q] = loaded[q] /\ basis'[q] = basis[q]
    BY DEF Finish, IInv, TypeOK
  <1> USE <1>0 DEF IInv, TypeOK
  <1>1. RowMirrorsLastEvent'
    BY DEF RowMirrorsLastEvent
  <1>2. EventsLegalFromBasis'
    BY DEF EventsLegalFromBasis
  <1>3. LoadedFromBasis'
    BY DEF LoadedFromBasis
  <1>4. StampsDistinct'
    BY DEF StampsDistinct
  <1>5. EventsOwned'
    <2>1. \A k \in Keys : \A i \in 1..Len(events[k]) : events[k][i].request \in Requests
      BY StoredEvent
    <2> QED
      BY <2>1 DEF EventsOwned
  <1> QED
    BY <1>1, <1>2, <1>3, <1>4, <1>5

(* What a handler holds when it commits lets it append its event: the row  *)
(* it writes has the status and the time of the event.                     *)
LEMMA RecordKeeps ==
  ASSUME IInv, TypeOK', RowsStay', NEW r \in Requests, pc[r] = "write",
         NEW row \in Rows,
         row.status = body[r].status,
         row.updated_at = body[r].at,
         loaded[r] = NoRow => decision[body[r].key] = NoRow,
         Record(r, row)
  PROVE  IInv'
  <1> DEFINE key == body[r].key
             log == events[key]
  <1>1. /\ key \in Keys
        /\ body[r] \in Bodies
        /\ log \in Seq(Events)
        /\ Event(r) \in Events
        /\ basis[r] \in 0..Len(log)
    BY EventType DEF IInv, TypeOK, LoadedFromBasis, Bodies
  <1>2. /\ events'[key] = Append(log, Event(r))
        /\ decision'[key] = row
        /\ \A k \in Keys \ {key} :
             events'[k] = events[k] /\ decision'[k] = decision[k]
        /\ Len(events'[key]) = Len(log) + 1
        /\ events'[key][Len(log) + 1] = Event(r)
        /\ \A i \in 1..Len(log) : events'[key][i] = log[i]
    BY <1>1 DEF Record, IInv, TypeOK
  <1>3. RowMirrorsLastEvent'
    <2> SUFFICES ASSUME NEW k \in Keys
                 PROVE  /\ decision'[k] = NoRow <=> events'[k] = << >>
                        /\ events'[k] # << >> =>
                             /\ decision'[k].status = events'[k][Len(events'[k])].status
                             /\ decision'[k].updated_at = events'[k][Len(events'[k])].at
      BY DEF RowMirrorsLastEvent
    <2>1. CASE k = key
      <3>1. Event(r).status = row.status /\ Event(r).at = row.updated_at
        BY DEF Event
      <3>2. events'[key] # << >> /\ events'[key][Len(events'[key])] = Event(r)
        BY <1>1, <1>2
      <3>3. decision'[key] = row /\ row # NoRow
        BY <1>2, RowAssumption
      <3> QED
        BY <2>1, <3>1, <3>2, <3>3
    <2>2. CASE k # key
      BY <1>2, <2>2 DEF IInv, RowMirrorsLastEvent
    <2> QED
      BY <2>1, <2>2
  <1>4. EventsLegalFromBasis'
    <2> SUFFICES ASSUME NEW k \in Keys, NEW i \in 1..Len(events'[k])
                 PROVE  LET e == events'[k][i] IN
                        /\ e.basis = 0 => i = 1
                        /\ e.basis # 0 =>
                             /\ e.basis < i
                             /\ e.status \in AllowedTransitions[events'[k][e.basis].status]
      BY DEF EventsLegalFromBasis
    <2>1. CASE k # key
      BY <1>2, <2>1 DEF IInv, EventsLegalFromBasis
    <2>2. CASE k = key /\ i # Len(log) + 1
      <3>1. i \in 1..Len(log)
        BY <1>1, <1>2, <2>2
      <3>2. log[i] \in Events /\ log[i].basis \in Nat
        <4> HIDE DEF log
        <4>1. log[i] \in Events
          BY <1>1, <3>1, ElementOfSeq
        <4> QED
          BY <4>1 DEF Events
      <3>3. log[i].basis # 0 => log[i].basis \in 1..Len(log)
        BY <1>1, <3>1, <3>2 DEF IInv, EventsLegalFromBasis
      <3>4. /\ log[i].basis = 0 => i = 1
            /\ log[i].basis # 0 =>
                 /\ log[i].basis < i
                 /\ log[i].status \in AllowedTransitions[log[log[i].basis].status]
        BY <1>1, <3>1 DEF IInv, EventsLegalFromBasis
      <3>5. /\ events'[k][i] = log[i]
            /\ log[i].basis # 0 => events'[k][log[i].basis] = log[log[i].basis]
        BY <1>2, <2>2, <3>1, <3>3
      <3> QED
        BY <3>4, <3>5
    <2>3. CASE k = key /\ i = Len(log) + 1
      <3>1. Event(r).basis = basis[r] /\ Event(r).status = body[r].status
        BY DEF Event
      <3>2. CASE basis[r] = 0
        <4>1. loaded[r] = NoRow
          BY <3>2 DEF IInv, LoadedFromBasis
        <4>2. log = << >>
          BY <1>1, <4>1 DEF IInv, RowMirrorsLastEvent
        <4> QED
          BY <1>2, <2>3, <3>1, <3>2, <4>2
      <3>3. CASE basis[r] # 0
        <4>1. /\ loaded[r].status = log[basis[r]].status
              /\ body[r].status \in AllowedTransitions[loaded[r].status]
          BY <3>3 DEF IInv, LoadedFromBasis
        <4>2. basis[r] \in 1..Len(log) /\ Len(log) \in Nat
          BY <1>1, <3>3
        <4>3. events'[key][basis[r]] = log[basis[r]] /\ basis[r] < i
          BY <1>2, <2>3, <4>2
        <4>4. events'[k][i] = Event(r)
          BY <1>2, <2>3
        <4>5. body[r].status \in AllowedTransitions[events'[key][basis[r]].status]
          BY <4>1, <4>3
        <4> QED
          BY <2>3, <3>1, <3>3, <4>3, <4>4, <4>5
      <3> QED
        BY <3>2, <3>3
    <2> QED
      BY <2>1, <2>2, <2>3
  <1>5. LoadedFromBasis'
    <2> SUFFICES ASSUME NEW q \in Requests, pc'[q] \in {"prescribe", "write"}
                 PROVE  LET now == events'[body'[q].key] IN
                        /\ basis'[q] \in 0..Len(now)
                        /\ loaded'[q] = NoRow <=> basis'[q] = 0
                        /\ loaded'[q] # NoRow =>
                             /\ loaded'[q].status = now[basis'[q]].status
                             /\ loaded'[q].updated_at = now[basis'[q]].at
                             /\ body'[q].status \in AllowedTransitions[loaded'[q].status]
      BY DEF LoadedFromBasis
    <2>1. /\ q # r
          /\ pc'[q] = pc[q]
          /\ body' = body
          /\ basis'[q] = basis[q]
          /\ loaded'[q] = loaded[q]
      BY DEF Record, Finish, IInv, TypeOK
    <2>2. body[q].key \in Keys
      BY <2>1 DEF IInv, TypeOK, Bodies
    <2>3. /\ Len(events[body[q].key]) \in Nat
          /\ Len(events'[body[q].key]) \in Nat
          /\ Len(events[body[q].key]) <= Len(events'[body[q].key])
          /\ \A i \in 1..Len(events[body[q].key]) :
               events'[body[q].key][i] = events[body[q].key][i]
      <3>1. events[body[q].key] \in Seq(Events)
        BY <2>2 DEF IInv, TypeOK
      <3>2. CASE body[q].key = key
        BY <1>1, <1>2, <3>2, LenProperties
      <3>3. CASE body[q].key # key
        BY <1>2, <2>2, <3>1, <3>3, LenProperties
      <3> QED
        BY <3>2, <3>3
    <2>4. basis[q] \in 0..Len(events[body[q].key])
      BY <2>1 DEF IInv, LoadedFromBasis
    <2>5. basis[q] # 0 => basis[q] \in 1..Len(events[body[q].key])
      BY <2>3, <2>4
    <2>6. /\ loaded[q] = NoRow <=> basis[q] = 0
          /\ loaded[q] # NoRow =>
               /\ loaded[q].status = events[body[q].key][basis[q]].status
               /\ loaded[q].updated_at = events[body[q].key][basis[q]].at
               /\ body[q].status \in AllowedTransitions[loaded[q].status]
      BY <2>1 DEF IInv, LoadedFromBasis
    <2>7. basis[q] # 0 =>
            events'[body[q].key][basis[q]] = events[body[q].key][basis[q]]
      BY <2>3, <2>5
    <2>8. basis[q] \in 0..Len(events'[body[q].key])
      BY <2>3, <2>4
    <2> QED
      BY <2>1, <2>6, <2>7, <2>8
  <1>6. StampsDistinct'
    BY DEF Record, Finish, IInv, TypeOK, StampsDistinct
  <1>7. EventsOwned'
    <2> SUFFICES ASSUME NEW k \in Keys, NEW i \in 1..Len(events'[k])
                 PROVE  /\ pc'[events'[k][i].request] = "done"
                        /\ events'[k][i].at = body'[events'[k][i].request].at
      BY DEF EventsOwned
    <2>1. /\ pc' = [pc EXCEPT ![r] = "done"]
          /\ body' = body
      BY DEF Record, Finish
    <2>2. CASE k = key /\ i = Len(log) + 1
      BY <1>2, <2>1, <2>2 DEF Event, IInv, TypeOK
    <2>3. CASE ~(k = key /\ i = Len(log) + 1)
      <3>1. /\ i \in 1..Len(events[k])
            /\ events'[k][i] = events[k][i]
        <4>1. CASE k = key
          <5>1. Len(log) \in Nat
            BY <1>1
          <5>2. i \in 1..Len(events'[key]) /\ i # Len(log) + 1
            BY <2>3, <4>1
          <5>3. i \in 1..Len(log)
            BY <1>2, <5>1, <5>2
          <5> QED
            BY <1>2, <4>1, <5>3
        <4>2. CASE k # key
          BY <1>2, <4>2
        <4> QED
          BY <4>1, <4>2
      <3>2. events[k][i].request \in Requests
        BY <3>1, StoredEvent DEF IInv
      <3> QED
        BY <2>1, <3>1, <3>2 DEF IInv, TypeOK, EventsOwned
    <2> QED
      BY <2>2, <2>3
  <1> QED
    BY <1>3, <1>4, <1>5, <1>6, <1>7 DEF IInv

(* The inductive invariant holds initially. *)
LEMMA IInvInit == Init => IInv
  <1> SUFFICES ASSUME Init PROVE IInv
    OBVIOUS
  <1>1. TypeOK /\ RowsStay
    BY TypeInit
  <1>2. /\ \A k \in Keys : decision[k] = NoRow /\ events[k] = << >>
        /\ \A r \in Requests : pc[r] = "idle"
    BY DEF Init
  <1>3. RowMirrorsLastEvent /\ EventsLegalFromBasis /\ EventsOwned
    BY <1>2 DEF RowMirrorsLastEvent, EventsLegalFromBasis, EventsOwned
  <1>4. LoadedFromBasis /\ StampsDistinct
    BY <1>2 DEF LoadedFromBasis, StampsDistinct
  <1> QED
    BY <1>1, <1>3, <1>4 DEF IInv

(* Every action keeps the inductive invariant. *)
LEMMA IInvStep == IInv /\ [Next]_vars => IInv'
  <1> SUFFICES ASSUME IInv, [Next]_vars PROVE IInv'
    OBVIOUS
  <1>0. TypeOK' /\ RowsStay'
    BY TypeStep DEF IInv
  <1>1. CASE RefreshPrescription
    BY <1>0, <1>1 DEF RefreshPrescription, handler, IInv, RowMirrorsLastEvent,
       EventsLegalFromBasis, LoadedFromBasis, StampsDistinct, EventsOwned
  <1>2. ASSUME NEW r \in Requests, NEW k \in Keys, NEW s \in Statuses,
               NEW o \in Operators, NEW x \in Reasons \cup {NoReason},
               Receive(r, k, s, o, x)
        PROVE  IInv'
    <2>1. /\ pc[r] = "idle"
          /\ pc' = [pc EXCEPT ![r] = "load"]
          /\ \A q \in Requests : q # r => body'[q] = body[q]
          /\ body'[r].at = clock + 1
          /\ clock' = clock + 1
          /\ UNCHANGED <<decision, events, loaded, basis>>
      BY <1>2 DEF Receive, IInv, TypeOK
    <2>2. RowMirrorsLastEvent' /\ EventsLegalFromBasis'
      BY <2>1 DEF IInv, RowMirrorsLastEvent, EventsLegalFromBasis
    <2>3. LoadedFromBasis'
      BY <2>1 DEF IInv, TypeOK, LoadedFromBasis
    <2>4. StampsDistinct'
      <3>1. \A q \in Requests : pc[q] # "idle" => body[q].at \in Nat
        BY DEF IInv, TypeOK, Bodies
      <3>2. clock \in Nat
        BY DEF IInv, TypeOK
      <3> QED
        BY <2>1, <3>1, <3>2 DEF IInv, TypeOK, StampsDistinct
    <2>5. EventsOwned'
      <3> SUFFICES ASSUME NEW l \in Keys, NEW i \in 1..Len(events[l])
                   PROVE  /\ pc'[events[l][i].request] = "done"
                          /\ events[l][i].at = body'[events[l][i].request].at
        BY <2>1 DEF EventsOwned
      <3>1. /\ events[l][i].request \in Requests
            /\ pc[events[l][i].request] = "done"
            /\ events[l][i].at = body[events[l][i].request].at
        BY StoredEvent DEF IInv, EventsOwned
      <3> QED
        BY <2>1, <3>1 DEF IInv, TypeOK
    <2> QED
      BY <1>0, <2>2, <2>3, <2>4, <2>5 DEF IInv
  <1>3. ASSUME NEW r \in Requests, Load(r) PROVE IInv'
    <2> DEFINE key == body[r].key
               existing == decision[key]
               log == events[key]
    <2>1. /\ pc[r] = "load"
          /\ UNCHANGED <<decision, events, clock, body>>
      BY <1>3 DEF Load
    <2>2. key \in Keys
      BY <2>1 DEF IInv, TypeOK, Bodies
    <2>3. ASSUME NEW told, Finish(r, told) PROVE IInv'
      BY <1>0, <2>1, <2>3, AnswerKeeps
    <2>4. CASE /\ GoOn(r, existing)
               /\ existing # NoRow => body[r].status \in AllowedTransitions[existing.status]
      <3>0. /\ pc' = [pc EXCEPT ![r] = "prescribe"]
            /\ loaded' = [loaded EXCEPT ![r] = existing]
            /\ basis' = [basis EXCEPT ![r] = Len(log)]
        BY <2>4 DEF GoOn
      <3>1. RowMirrorsLastEvent' /\ EventsLegalFromBasis'
        BY <2>1 DEF IInv, RowMirrorsLastEvent, EventsLegalFromBasis
      <3>2. /\ Len(log) \in Nat
            /\ existing = NoRow <=> Len(log) = 0
            /\ existing # NoRow => /\ existing.status = log[Len(log)].status
                                  /\ existing.updated_at = log[Len(log)].at
        BY <2>2 DEF IInv, TypeOK, RowMirrorsLastEvent
      <3>3. /\ Len(log) \in 0..Len(log)
            /\ loaded'[r] = existing
            /\ basis'[r] = Len(log)
        BY <3>0, <3>2 DEF IInv, TypeOK
      <3>4. LoadedFromBasis'
        BY <2>1, <2>4, <3>0, <3>2, <3>3 DEF IInv, TypeOK, LoadedFromBasis
      <3>5. StampsDistinct'
        BY <2>1, <3>0 DEF IInv, TypeOK, StampsDistinct
      <3>6. EventsOwned'
        BY <2>1, <3>0 DEF IInv, TypeOK, EventsOwned
      <3> QED
        BY <1>0, <3>1, <3>4, <3>5, <3>6 DEF IInv
    <2> QED
      BY <1>3, <2>3, <2>4 DEF Load
  <1>4. ASSUME NEW r \in Requests, Prescribe(r) PROVE IInv'
    <2>1. CASE body[r].key \notin prescribed
      BY <1>0, <1>4, <2>1, AnswerKeeps DEF Prescribe
    <2>2. CASE body[r].key \in prescribed
      <3>1. /\ pc[r] = "prescribe"
            /\ pc' = [pc EXCEPT ![r] = "write"]
            /\ UNCHANGED <<decision, events, clock, body, loaded, basis>>
        BY <1>4, <2>2 DEF Prescribe
      <3>2. RowMirrorsLastEvent' /\ EventsLegalFromBasis'
        BY <3>1 DEF IInv, RowMirrorsLastEvent, EventsLegalFromBasis
      <3>3. LoadedFromBasis'
        BY <3>1 DEF IInv, TypeOK, LoadedFromBasis
      <3>4. StampsDistinct' /\ EventsOwned'
        BY <3>1 DEF IInv, TypeOK, StampsDistinct, EventsOwned
      <3> QED
        BY <1>0, <3>2, <3>3, <3>4 DEF IInv
    <2> QED
      BY <2>1, <2>2
  <1>5. ASSUME NEW r \in Requests, InsertDecision(r) PROVE IInv'
    <2>1. body[r] \in Bodies /\ group[r] \in Nat
      BY <1>5 DEF InsertDecision, IInv, TypeOK
    <2> DEFINE row == InsertedRow(body[r], group[r])
    <2>2. row \in Rows /\ row.status = body[r].status /\ row.updated_at = body[r].at
      BY <2>1, InsertedRowType DEF InsertedRow
    <2> HIDE DEF row
    <2>3. pc[r] = "write" /\ decision[body[r].key] = NoRow /\ Record(r, row)
      BY <1>5 DEF InsertDecision, row
    <2> QED
      BY <1>0, <2>2, <2>3, RecordKeeps
  <1>6. ASSUME NEW r \in Requests, UpdateDecision(r) PROVE IInv'
    <2>1. /\ body[r] \in Bodies
          /\ group[r] \in Nat
          /\ loaded[r] \in Rows
          /\ decision[body[r].key] \in Rows
      BY <1>6 DEF UpdateDecision, IInv, TypeOK, RowsStay, Bodies
    <2>2. body[r].status # loaded[r].status
      BY <1>6, <2>1 DEF UpdateDecision, IInv, LoadedFromBasis, AllowedTransitions,
                        Rows, Statuses
    <2>3. body[r].at # loaded[r].updated_at
      <3> DEFINE log == events[body[r].key]
                 seen == log[basis[r]]
      <3>1. body[r].key \in Keys /\ pc[r] = "write" /\ loaded[r] # NoRow
        BY <1>6, <2>1 DEF UpdateDecision, Bodies
      <3>2. basis[r] \in 1..Len(log) /\ loaded[r].updated_at = seen.at
        <4>1. Len(log) \in Nat
          BY <3>1 DEF IInv, TypeOK
        <4> QED
          BY <3>1, <4>1 DEF IInv, LoadedFromBasis
      <3>3. seen.request \in Requests
        BY <3>1, <3>2, StoredEvent DEF IInv
      <3>4. pc[seen.request] = "done" /\ seen.at = body[seen.request].at
        BY <3>1, <3>2 DEF IInv, EventsOwned
      <3> QED
        BY <3>1, <3>2, <3>3, <3>4 DEF IInv, StampsDistinct
    <2> DEFINE row == UpdatedRow(decision[body[r].key], loaded[r], body[r], group[r])
    <2>4. row \in Rows /\ row.status = body[r].status /\ row.updated_at = body[r].at
      BY <2>1, <2>2, <2>3, UpdatedRowType, UpdatedRowColumns
    <2> HIDE DEF row
    <2>5. pc[r] = "write" /\ loaded[r] # NoRow /\ Record(r, row)
      BY <1>6 DEF UpdateDecision, row
    <2> QED
      BY <1>0, <2>4, <2>5, RecordKeeps
  <1>7. ASSUME NEW r \in Requests, InsertCollides(r) PROVE IInv'
    BY <1>0, <1>7, AnswerKeeps DEF InsertCollides
  <1>8. ASSUME NEW r \in Requests, Fail(r) PROVE IInv'
    BY <1>0, <1>8, AnswerKeeps DEF Fail
  <1>9. CASE UNCHANGED vars
    BY <1>0, <1>9 DEF vars, handler, IInv, RowMirrorsLastEvent,
       EventsLegalFromBasis, LoadedFromBasis, StampsDistinct, EventsOwned
  <1> QED
    BY <1>1, <1>2, <1>3, <1>4, <1>5, <1>6, <1>7, <1>8, <1>9 DEF Next, Handle

(* The inductive invariant holds in every reachable state. *)
LEMMA Invariance == Spec => []IInv
  <1>1. IInv /\ [Next]_vars => IInv'
    BY IInvStep
  <1> QED
    BY IInvInit, <1>1, PTL DEF Spec

(* Whatever stale row a request writes over, it only records a transition  *)
(* that was legal from the state it had loaded, and only the first request *)
(* opens the trail of a group.                                             *)
THEOREM TrailLegal == Spec => []EventsLegalFromBasis
  <1>1. IInv => EventsLegalFromBasis
    BY DEF IInv
  <1> QED
    BY Invariance, <1>1, PTL

(* The row operators see has the status and the time of the last event of  *)
(* its trail, and exists exactly when the trail is not empty.              *)
THEOREM RowAndTrailAgree == Spec => []RowMirrorsLastEvent
  <1>1. IInv => RowMirrorsLastEvent
    BY DEF IInv
  <1> QED
    BY Invariance, <1>1, PTL

-----------------------------------------------------------------------------
(* The statuses of a trail are a sequence of statuses, and appending an    *)
(* event appends its status.                                               *)
LEMMA StatusesOfType ==
  ASSUME NEW log \in Seq(Events)
  PROVE  /\ StatusesOf(log) \in Seq(Statuses)
         /\ Len(StatusesOf(log)) = Len(log)
  <1>1. Len(log) \in Nat
    BY LenProperties
  <1>2. \A i \in 1..Len(log) : log[i] \in Events
    BY ElementOfSeq
  <1>3. \A i \in 1..Len(log) : log[i].status \in Statuses
    BY <1>2 DEF Events
  <1> QED
    BY <1>1, <1>3, IsASeq DEF StatusesOf

(* Appending an event appends its status. *)
LEMMA StatusesOfAppend ==
  ASSUME NEW log \in Seq(Events), NEW e \in Events
  PROVE  StatusesOf(Append(log, e)) = Append(StatusesOf(log), e.status)
  <1>1. e.status \in Statuses
    BY DEF Events
  <1>2. /\ Append(log, e) \in Seq(Events)
        /\ Len(Append(log, e)) = Len(log) + 1
        /\ Len(log) \in Nat
        /\ \A i \in 1..Len(log) : Append(log, e)[i] = log[i]
        /\ Append(log, e)[Len(log) + 1] = e
    BY LenProperties, AppendProperties
  <1>3. /\ StatusesOf(log) \in Seq(Statuses)
        /\ Len(StatusesOf(log)) = Len(log)
        /\ StatusesOf(Append(log, e)) \in Seq(Statuses)
        /\ Len(StatusesOf(Append(log, e))) = Len(log) + 1
    BY <1>2, StatusesOfType
  <1>4. /\ Append(StatusesOf(log), e.status) \in Seq(Statuses)
        /\ Len(Append(StatusesOf(log), e.status)) = Len(log) + 1
    BY <1>1, <1>3, AppendProperties
  <1>5. ASSUME NEW i \in 1..(Len(log) + 1)
        PROVE  StatusesOf(Append(log, e))[i] = Append(StatusesOf(log), e.status)[i]
    <2>1. CASE i = Len(log) + 1
      BY <1>1, <1>2, <1>3, <2>1, AppendProperties DEF StatusesOf
    <2>2. CASE i # Len(log) + 1
      <3>1. i \in 1..Len(log)
        BY <1>2, <2>2
      <3> QED
        BY <1>1, <1>2, <1>3, <3>1, AppendProperties DEF StatusesOf
    <2> QED
      BY <2>1, <2>2
  <1> QED
    BY <1>3, <1>4, <1>5, SeqEqual

(* A step that leaves the trail alone is a stutter of the log. *)
LEMMA TrailStutters ==
  ASSUME UNCHANGED events PROVE UNCHANGED trail
  BY DEF trail, StatusesOf

(* Committing a decision is Open on an empty trail and Follow otherwise. *)
LEMMA RecordRefines ==
  ASSUME IInv, NEW r \in Requests, pc[r] = "write", NEW row, Record(r, row),
         loaded[r] = NoRow => decision[body[r].key] = NoRow
  PROVE  Log!Next
  <1> DEFINE key == body[r].key
             log == events[key]
             s == body[r].status
  <1>1. /\ key \in Keys
        /\ s \in Statuses
        /\ log \in Seq(Events)
        /\ Event(r) \in Events
        /\ Event(r).status = s
    BY EventType DEF IInv, TypeOK, Bodies, Event
  <1>2. events' = [events EXCEPT ![key] = Append(log, Event(r))]
    BY DEF Record
  <1>3. StatusesOf(Append(log, Event(r))) = Append(StatusesOf(log), s)
    BY <1>1, StatusesOfAppend
  <1>4. trail' = [trail EXCEPT ![key] = Append(@, s)]
    <2> HIDE DEF key, s
    <2>1. \A k \in Keys : events'[k] = IF k = key THEN Append(log, Event(r)) ELSE events[k]
      BY <1>1, <1>2 DEF IInv, TypeOK
    <2>2. trail' = [k \in Keys |-> IF k = key THEN Append(StatusesOf(log), s)
                                              ELSE StatusesOf(events[k])]
      BY <1>3, <2>1 DEF trail, StatusesOf
    <2> QED
      BY <1>1, <2>2 DEF trail
  <1>5. trail[key] = StatusesOf(log)
    BY <1>1 DEF trail
  <1>6. CASE basis[r] = 0
    <2>1. log = << >>
      BY <1>1, <1>6 DEF IInv, LoadedFromBasis, RowMirrorsLastEvent
    <2>2. trail[key] = << >>
      <3>1. StatusesOf(log) \in Seq(Statuses) /\ Len(StatusesOf(log)) = 0
        BY <1>1, <2>1, StatusesOfType
      <3> QED
        BY <1>5, <3>1, EmptySeq
    <2>3. Log!Open(key, s)
      BY <1>1, <1>4, <2>2 DEF Log!Open
    <2> QED
      BY <1>1, <2>3 DEF Log!Next, Log!Statuses, Statuses
  <1>7. CASE basis[r] # 0
    <2>1. /\ basis[r] \in 1..Len(log)
          /\ s \in AllowedTransitions[log[basis[r]].status]
      <3>1. Len(log) \in Nat
        BY <1>1, LenProperties
      <3> QED
        BY <1>7, <3>1 DEF IInv, LoadedFromBasis
    <2>2. /\ Len(trail[key]) = Len(log)
          /\ trail[key][basis[r]] = log[basis[r]].status
      BY <1>1, <1>5, <2>1, StatusesOfType DEF StatusesOf
    <2>3. Log!Follow(key, s)
      BY <1>4, <2>1, <2>2 DEF Log!Follow, Log!AllowedTransitions, Log!Statuses,
                              AllowedTransitions, Statuses
    <2> QED
      BY <1>1, <2>3 DEF Log!Next, Log!Statuses, Statuses
  <1> QED
    BY <1>6, <1>7

(* The initial trail is an initial log. *)
LEMMA RefinesInit == Init => Log!Init
  <1> SUFFICES ASSUME Init PROVE Log!Init
    OBVIOUS
  <1>1. ASSUME NEW k \in Keys PROVE trail[k] = << >>
    <2>1. events[k] = << >>
      BY DEF Init
    <2>2. StatusesOf(events[k]) \in Seq(Statuses) /\ Len(StatusesOf(events[k])) = 0
      BY <2>1, StatusesOfType, EmptySeq
    <2> QED
      BY <2>2, EmptySeq DEF trail
  <1>2. trail = [k \in Keys |-> << >>]
    BY <1>1 DEF trail
  <1> QED
    BY <1>2 DEF Log!Init

(* Every step is a step of the log or leaves it alone. *)
LEMMA RefinesStep == IInv /\ [Next]_vars => [Log!Next]_trail
  <1> SUFFICES ASSUME IInv, [Next]_vars PROVE [Log!Next]_trail
    OBVIOUS
  <1>1. ASSUME NEW r \in Requests, InsertDecision(r) PROVE [Log!Next]_trail
    BY <1>1, RecordRefines DEF InsertDecision
  <1>2. ASSUME NEW r \in Requests, UpdateDecision(r) PROVE [Log!Next]_trail
    BY <1>2, RecordRefines DEF UpdateDecision
  <1>3. CASE UNCHANGED events
    BY <1>3, TrailStutters
  <1> QED
    BY <1>1, <1>2, <1>3 DEF Next, Handle, vars, RefreshPrescription, Receive,
                            Load, Prescribe, InsertCollides, Fail

(* Every behaviour of the decision service is one of the log: only a first *)
(* decision is taken from nothing, every later one follows an earlier one. *)
THEOREM Refinement == Spec => ImplementsLog
  <1>1. IInv /\ [Next]_vars => [Log!Next]_trail
    BY RefinesStep
  <1> QED
    BY RefinesInit, Invariance, <1>1, PTL DEF Spec, ImplementsLog, Log!Spec

-----------------------------------------------------------------------------
(* A request is answered when it is done, and not before. *)
AnsweredWhenDone ==
  \A r \in Requests : pc[r] # "done" => answer[r] = "none"

AuditInv == AnsweredWhenDone /\ AuditAgreesWithAnswers

(* A request that is not done has no event. *)
LEMMA UnansweredUnaudited ==
  ASSUME AuditInv, NEW r \in Requests, pc[r] # "done", NEW k \in Keys
  PROVE  EventsOf(r, k) = {}
  BY DEF AuditInv, AnsweredWhenDone, AuditAgreesWithAnswers

(* A step that commits no event keeps the trail in agreement if the one    *)
(* request it moves is not told "recorded".                                *)
LEMMA AnswerKeepsAudit ==
  ASSUME TypeOK, AuditInv, NEW r \in Requests, pc[r] # "done", UNCHANGED events,
         \A q \in Requests \ {r} :
           pc'[q] = pc[q] /\ answer'[q] = answer[q] /\ body'[q] = body[q],
         answer'[r] # "recorded",
         pc'[r] # "done" => answer'[r] = "none"
  PROVE  AuditInv'
  <1>1. AnsweredWhenDone'
    BY DEF AuditInv, AnsweredWhenDone
  <1>2. ASSUME NEW q \in Requests, NEW k \in Keys
        PROVE  LET own == EventsOf(q, k)' IN
               /\ \A i, j \in own : i = j
               /\ own # {} => answer'[q] \in {"recorded", "error"} /\ body'[q].key = k
               /\ answer'[q] = "recorded" /\ body'[q].key = k => own # {}
    <2>1. EventsOf(q, k)' = EventsOf(q, k)
      BY DEF EventsOf
    <2>2. CASE q = r
      BY <2>1, <2>2, UnansweredUnaudited
    <2>3. CASE q # r
      BY <2>1, <2>3 DEF AuditInv, AuditAgreesWithAnswers
    <2> QED
      BY <2>2, <2>3
  <1> QED
    BY <1>1, <1>2 DEF AuditInv, AuditAgreesWithAnswers

(* Answering without writing keeps the agreement. *)
LEMMA FinishKeepsAudit ==
  ASSUME TypeOK, AuditInv, NEW r \in Requests, pc[r] # "done",
         NEW told, told # "recorded", Finish(r, told), UNCHANGED <<events, body>>
  PROVE  AuditInv'
  <1>1. pc'[r] = "done" /\ answer'[r] = told
    BY DEF Finish, TypeOK
  <1>2. \A q \in Requests \ {r} :
          pc'[q] = pc[q] /\ answer'[q] = answer[q] /\ body'[q] = body[q]
    BY DEF Finish, TypeOK
  <1> QED
    BY <1>1, <1>2, AnswerKeepsAudit

(* A commit gives its request the one event it has. *)
LEMMA RecordKeepsAudit ==
  ASSUME TypeOK, AuditInv, NEW r \in Requests, pc[r] = "write", NEW row, Record(r, row)
  PROVE  AuditInv'
  <1> DEFINE key == body[r].key
             log == events[key]
  <1>1. key \in Keys /\ log \in Seq(Events) /\ Event(r) \in Events /\ Event(r).request = r
    BY EventType DEF TypeOK, Bodies, Event
  <1>2. /\ pc'[r] = "done" /\ answer'[r] \in {"recorded", "error"} /\ body' = body
        /\ \A q \in Requests \ {r} : pc'[q] = pc[q] /\ answer'[q] = answer[q]
    BY DEF Record, Finish, TypeOK
  <1>3. /\ events'[key] = Append(log, Event(r))
        /\ \A k \in Keys \ {key} : events'[k] = events[k]
    BY <1>1 DEF Record, TypeOK
  <1>4. /\ Len(log) \in Nat
        /\ Len(events'[key]) = Len(log) + 1
        /\ events'[key][Len(log) + 1] = Event(r)
        /\ \A i \in 1..Len(log) : events'[key][i] = log[i]
    BY <1>1, <1>3, LenProperties, AppendProperties
  <1>5. AnsweredWhenDone'
    BY <1>2 DEF AuditInv, AnsweredWhenDone
  <1>6. ASSUME NEW q \in Requests, NEW k \in Keys
        PROVE  LET own == EventsOf(q, k)' IN
               /\ \A i, j \in own : i = j
               /\ own # {} => answer'[q] \in {"recorded", "error"} /\ body'[q].key = k
               /\ answer'[q] = "recorded" /\ body'[q].key = k => own # {}
    <2>1. EventsOf(q, k)' = IF q = r /\ k = key THEN {Len(log) + 1} ELSE EventsOf(q, k)
      <3>1. CASE k # key
        <4>1. events'[k] = events[k]
          BY <1>3, <3>1
        <4> QED
          BY <3>1, <4>1 DEF EventsOf
      <3>2. CASE k = key /\ q # r
        <4>1. \A i \in 1..Len(log) : events'[key][i] = log[i]
          BY <1>4
        <4>2. events'[key][Len(log) + 1].request # q
          BY <1>1, <1>4, <3>2
        <4>3. \A i \in 1..(Len(log) + 1) : i = Len(log) + 1 \/ i \in 1..Len(log)
          BY <1>4
        <4>4. 1..Len(log) \subseteq 1..(Len(log) + 1)
          BY <1>4
        <4>5. events[key] = log
          OBVIOUS
        <4> HIDE DEF key, log
        <4>6. {i \in 1..(Len(log) + 1) : events'[key][i].request = q}
                = {i \in 1..Len(log) : log[i].request = q}
          BY <4>1, <4>2, <4>3, <4>4
        <4> QED
          BY <1>4, <3>2, <4>5, <4>6 DEF EventsOf
      <3>3. CASE k = key /\ q = r
        <4>1. \A i \in 1..Len(log) : events'[key][i].request # r
          BY <1>1, <1>4, UnansweredUnaudited DEF EventsOf
        <4>2. events'[key][Len(log) + 1].request = r
          BY <1>1, <1>4
        <4>3. \A i \in 1..(Len(log) + 1) : i = Len(log) + 1 \/ i \in 1..Len(log)
          BY <1>4
        <4> HIDE DEF key, log
        <4>4. {i \in 1..(Len(log) + 1) : events'[key][i].request = r} = {Len(log) + 1}
          BY <1>4, <4>1, <4>2, <4>3
        <4> QED
          BY <1>4, <3>3, <4>4 DEF EventsOf
      <3> QED
        BY <3>1, <3>2, <3>3
    <2>2. CASE q = r
      <3>1. EventsOf(r, k) = {}
        BY UnansweredUnaudited
      <3> QED
        BY <1>2, <2>1, <2>2, <3>1
    <2>3. CASE q # r
      BY <1>2, <2>1, <2>3 DEF AuditInv, AuditAgreesWithAnswers
    <2> QED
      BY <2>2, <2>3
  <1> QED
    BY <1>5, <1>6 DEF AuditInv, AuditAgreesWithAnswers

(* Nothing is answered and nothing audited at first. *)
LEMMA AuditInit == Init => AuditInv
  BY DEF Init, AuditInv, AnsweredWhenDone, AuditAgreesWithAnswers, EventsOf

(* Every action keeps answers and trail in agreement. *)
LEMMA AuditStep == TypeOK /\ AuditInv /\ [Next]_vars => AuditInv'
  <1> SUFFICES ASSUME TypeOK, AuditInv, [Next]_vars PROVE AuditInv'
    OBVIOUS
  <1>1. CASE UNCHANGED <<events, pc, answer, body>>
    BY <1>1 DEF AuditInv, AnsweredWhenDone, AuditAgreesWithAnswers, EventsOf
  <1>2. ASSUME NEW r \in Requests, NEW k \in Keys, NEW s \in Statuses,
               NEW o \in Operators, NEW x \in Reasons \cup {NoReason},
               Receive(r, k, s, o, x)
        PROVE  AuditInv'
    <2>1. /\ pc[r] = "idle" /\ UNCHANGED <<events, answer>>
          /\ \A q \in Requests \ {r} : pc'[q] = pc[q] /\ body'[q] = body[q]
      BY <1>2 DEF Receive, TypeOK
    <2>2. answer[r] = "none"
      BY <2>1 DEF AuditInv, AnsweredWhenDone
    <2> QED
      BY <2>1, <2>2, AnswerKeepsAudit
  <1>3. ASSUME NEW r \in Requests, Load(r) PROVE AuditInv'
    <2>1. pc[r] = "load" /\ UNCHANGED <<events, body>>
      BY <1>3 DEF Load
    <2>2. CASE GoOn(r, decision[body[r].key])
      <3>1. /\ answer' = answer
            /\ \A q \in Requests \ {r} : pc'[q] = pc[q]
        BY <2>2 DEF GoOn, TypeOK
      <3>2. answer[r] = "none"
        BY <2>1 DEF AuditInv, AnsweredWhenDone
      <3> QED
        BY <2>1, <3>1, <3>2, AnswerKeepsAudit
    <2> QED
      BY <1>3, <2>1, <2>2, FinishKeepsAudit DEF Load
  <1>4. ASSUME NEW r \in Requests, Prescribe(r) PROVE AuditInv'
    <2>1. pc[r] = "prescribe" /\ UNCHANGED <<events, body>>
      BY <1>4 DEF Prescribe
    <2>2. CASE body[r].key \in prescribed
      <3>1. /\ answer' = answer
            /\ \A q \in Requests \ {r} : pc'[q] = pc[q]
        BY <1>4, <2>2 DEF Prescribe, TypeOK
      <3>2. answer[r] = "none"
        BY <2>1 DEF AuditInv, AnsweredWhenDone
      <3> QED
        BY <2>1, <3>1, <3>2, AnswerKeepsAudit
    <2> QED
      BY <1>4, <2>1, <2>2, FinishKeepsAudit DEF Prescribe
  <1>5. ASSUME NEW r \in Requests, InsertDecision(r) PROVE AuditInv'
    BY <1>5, RecordKeepsAudit DEF InsertDecision
  <1>6. ASSUME NEW r \in Requests, UpdateDecision(r) PROVE AuditInv'
    BY <1>6, RecordKeepsAudit DEF UpdateDecision
  <1>7. ASSUME NEW r \in Requests, InsertCollides(r) PROVE AuditInv'
    BY <1>7, FinishKeepsAudit DEF InsertCollides
  <1>8. ASSUME NEW r \in Requests, Fail(r) PROVE AuditInv'
    BY <1>8, FinishKeepsAudit DEF Fail
  <1> QED
    BY <1>1, <1>2, <1>3, <1>4, <1>5, <1>6, <1>7, <1>8
       DEF Next, Handle, vars, handler, RefreshPrescription

(* What callers were told and what was audited agree: one event for every  *)
(* confirmed change, none for a refusal, at most one for an error.         *)
THEOREM AnswersAudited == Spec => []AuditAgreesWithAnswers
  <1>1. AuditInv => AuditAgreesWithAnswers
    BY DEF AuditInv
  <1>2. TypeOK /\ AuditInv /\ [Next]_vars => AuditInv'
    BY AuditStep
  <1> QED
    BY TypeCorrect, AuditInit, <1>1, <1>2, PTL DEF Spec

-----------------------------------------------------------------------------
(* No stored or remembered generation is ahead of the prescription, and a  *)
(* handler that updates a row found its group no earlier than the row's    *)
(* first writer did.                                                       *)
SnapshotInv ==
  /\ SnapshotColumnsOrdered
  /\ \A k \in Keys : decision[k] # NoRow => decision[k].snapshot_generated_at <= generation
  /\ \A r \in Requests : group[r] <= generation
  /\ \A r \in Requests :
       pc[r] = "write" /\ loaded[r] # NoRow
         => decision[body[r].key].snapshot_generated_at <= group[r]

(* A write leaves snapshot_generated_at alone if the row is there, and     *)
(* group_snapshot not before it.                                           *)
LEMMA UpdatedRowSnapshots ==
  ASSUME NEW row \in Rows, NEW seen \in Rows, NEW b \in Bodies, NEW g \in Nat,
         row.snapshot_generated_at <= row.group_snapshot,
         row.snapshot_generated_at <= g
  PROVE  LET new == UpdatedRow(row, seen, b, g) IN
         /\ new.snapshot_generated_at = row.snapshot_generated_at
         /\ new.snapshot_generated_at <= new.group_snapshot
  BY DEF UpdatedRow, Flushed, Rows, Bodies

(* A commit keeps the order of the snapshot columns. *)
LEMMA RecordKeepsSnapshots ==
  ASSUME TypeOK, RowsStay, SnapshotInv, NEW r \in Requests, pc[r] = "write",
         NEW row \in Rows, Record(r, row),
         row.snapshot_generated_at <= row.group_snapshot,
         row.snapshot_generated_at <= generation,
         decision[body[r].key] # NoRow =>
           row.snapshot_generated_at = decision[body[r].key].snapshot_generated_at
  PROVE  SnapshotInv'
  <1> DEFINE key == body[r].key
  <1>1. key \in Keys
    BY DEF TypeOK, Bodies
  <1>2. /\ decision'[key] = row
        /\ \A k \in Keys \ {key} : decision'[k] = decision[k]
        /\ UNCHANGED <<generation, body>>
    BY <1>1 DEF Record, TypeOK
  <1>3. /\ pc'[r] = "done" /\ group'[r] = 0
        /\ \A q \in Requests \ {r} :
             pc'[q] = pc[q] /\ group'[q] = group[q] /\ loaded'[q] = loaded[q]
    BY DEF Record, Finish, TypeOK
  <1>4. SnapshotColumnsOrdered'
    BY <1>2 DEF SnapshotInv, SnapshotColumnsOrdered
  <1>5. \A k \in Keys :
          decision'[k] # NoRow => decision'[k].snapshot_generated_at <= generation'
    BY <1>2 DEF SnapshotInv
  <1>6. \A q \in Requests : group'[q] <= generation'
    <2>1. generation \in Nat
      BY DEF TypeOK
    <2> QED
      BY <1>2, <1>3, <2>1 DEF SnapshotInv
  <1>7. ASSUME NEW q \in Requests, pc'[q] = "write", loaded'[q] # NoRow
        PROVE  decision'[body'[q].key].snapshot_generated_at <= group'[q]
    <2>1. q # r /\ pc[q] = "write" /\ loaded[q] # NoRow /\ group'[q] = group[q]
      BY <1>3, <1>7
    <2>2. /\ body[q].key \in Keys
          /\ decision[body[q].key] # NoRow
          /\ decision[body[q].key].snapshot_generated_at <= group[q]
      BY <2>1 DEF TypeOK, Bodies, RowsStay, SnapshotInv
    <2>3. CASE body[q].key = key
      BY <1>2, <2>1, <2>2, <2>3
    <2>4. CASE body[q].key # key
      BY <1>2, <2>1, <2>2, <2>4
    <2> QED
      BY <2>3, <2>4
  <1> QED
    BY <1>4, <1>5, <1>6, <1>7 DEF SnapshotInv

(* Nothing is decided at first. *)
LEMMA SnapshotInit == Init => SnapshotInv
  BY DEF Init, SnapshotInv, SnapshotColumnsOrdered

(* Every action keeps the order of the snapshot columns. *)
LEMMA SnapshotStep == TypeOK /\ RowsStay /\ SnapshotInv /\ [Next]_vars => SnapshotInv'
  <1> SUFFICES ASSUME TypeOK, RowsStay, SnapshotInv, [Next]_vars PROVE SnapshotInv'
    OBVIOUS
  <1>0. /\ generation \in Nat
        /\ \A k \in Keys : decision[k] # NoRow => decision[k].snapshot_generated_at \in Nat
        /\ \A r \in Requests : group[r] \in Nat
    BY DEF TypeOK, Rows
  <1>1. CASE RefreshPrescription
    BY <1>0, <1>1 DEF RefreshPrescription, handler, SnapshotInv, SnapshotColumnsOrdered
  <1>2. CASE UNCHANGED vars
    BY <1>2 DEF vars, handler, SnapshotInv, SnapshotColumnsOrdered
  <1>3. ASSUME NEW r \in Requests, pc'[r] # "write",
               UNCHANGED <<generation, decision>>,
               group'[r] \in {group[r], 0},
               \A q \in Requests \ {r} : /\ pc'[q] = pc[q]
                                         /\ group'[q] = group[q]
                                         /\ loaded'[q] = loaded[q]
                                         /\ body'[q] = body[q]
        PROVE  SnapshotInv'
    <2>1. \A q \in Requests : group'[q] <= generation'
      BY <1>0, <1>3 DEF SnapshotInv
    <2>2. ASSUME NEW q \in Requests, pc'[q] = "write", loaded'[q] # NoRow
          PROVE  decision'[body'[q].key].snapshot_generated_at <= group'[q]
      BY <1>3, <2>2 DEF SnapshotInv
    <2> QED
      BY <1>3, <2>1, <2>2 DEF SnapshotInv, SnapshotColumnsOrdered
  <1>4. ASSUME NEW r \in Requests, NEW told, Finish(r, told),
               UNCHANGED <<generation, decision, body>>
        PROVE  SnapshotInv'
    <2>1. /\ pc'[r] = "done" /\ group'[r] = 0
          /\ \A q \in Requests \ {r} : /\ pc'[q] = pc[q]
                                        /\ group'[q] = group[q]
                                        /\ loaded'[q] = loaded[q]
      BY <1>4 DEF Finish, TypeOK
    <2> QED
      BY <1>3, <1>4, <2>1
  <1>5. ASSUME NEW r \in Requests, NEW k \in Keys, NEW s \in Statuses,
               NEW o \in Operators, NEW x \in Reasons \cup {NoReason},
               Receive(r, k, s, o, x)
        PROVE  SnapshotInv'
    <2>1. /\ UNCHANGED <<generation, decision, group, loaded>>
          /\ pc'[r] = "load"
          /\ \A q \in Requests \ {r} : pc'[q] = pc[q] /\ body'[q] = body[q]
      BY <1>5 DEF Receive, TypeOK
    <2> QED
      BY <1>3, <2>1
  <1>6. ASSUME NEW r \in Requests, Load(r) PROVE SnapshotInv'
    <2>1. UNCHANGED <<generation, decision, body>>
      BY <1>6 DEF Load
    <2>2. CASE GoOn(r, decision[body[r].key])
      <3>1. /\ pc'[r] = "prescribe" /\ group' = group
            /\ \A q \in Requests \ {r} : pc'[q] = pc[q] /\ loaded'[q] = loaded[q]
        BY <2>2 DEF GoOn, TypeOK
      <3> QED
        BY <1>3, <2>1, <3>1
    <2> QED
      BY <1>4, <1>6, <2>1, <2>2 DEF Load
  <1>7. ASSUME NEW r \in Requests, Prescribe(r) PROVE SnapshotInv'
    <2>1. pc[r] = "prescribe" /\ UNCHANGED <<generation, decision, body>>
      BY <1>7 DEF Prescribe
    <2>2. CASE body[r].key \in prescribed
      <3>1. /\ group'[r] = generation /\ loaded' = loaded
            /\ \A q \in Requests \ {r} : pc'[q] = pc[q] /\ group'[q] = group[q]
        BY <1>7, <2>2 DEF Prescribe, TypeOK
      <3>2. loaded[r] # NoRow =>
              /\ body[r].key \in Keys
              /\ decision[body[r].key].snapshot_generated_at <= generation
        BY <2>1 DEF TypeOK, Bodies, RowsStay, SnapshotInv
      <3>3. \A q \in Requests : group'[q] <= generation'
        BY <1>0, <2>1, <3>1 DEF SnapshotInv
      <3>4. \A q \in Requests :
              pc'[q] = "write" /\ loaded'[q] # NoRow
                => decision'[body'[q].key].snapshot_generated_at <= group'[q]
        BY <2>1, <3>1, <3>2 DEF SnapshotInv
      <3> QED
        BY <2>1, <3>3, <3>4 DEF SnapshotInv, SnapshotColumnsOrdered
    <2> QED
      BY <1>4, <1>7, <2>1, <2>2 DEF Prescribe
  <1>8. ASSUME NEW r \in Requests, InsertDecision(r) PROVE SnapshotInv'
    <2>1. /\ pc[r] = "write" /\ decision[body[r].key] = NoRow
          /\ body[r] \in Bodies /\ group[r] \in Nat /\ group[r] <= generation
          /\ Record(r, InsertedRow(body[r], group[r]))
      BY <1>8 DEF InsertDecision, TypeOK, SnapshotInv
    <2> DEFINE row == InsertedRow(body[r], group[r])
    <2>2. row \in Rows /\ row.snapshot_generated_at = group[r] /\ row.group_snapshot = group[r]
      BY <2>1, InsertedRowType DEF InsertedRow
    <2> HIDE DEF row
    <2>3. Record(r, row)
      BY <2>1 DEF row
    <2> QED
      BY <2>1, <2>2, <2>3, RecordKeepsSnapshots
  <1>9. ASSUME NEW r \in Requests, UpdateDecision(r) PROVE SnapshotInv'
    <2> DEFINE old == decision[body[r].key]
               row == UpdatedRow(old, loaded[r], body[r], group[r])
    <2>1. /\ pc[r] = "write" /\ loaded[r] # NoRow
          /\ body[r] \in Bodies /\ body[r].key \in Keys
          /\ group[r] \in Nat /\ loaded[r] \in Rows
          /\ old \in Rows /\ old # NoRow
      BY <1>9, RowAssumption DEF UpdateDecision, TypeOK, RowsStay, Bodies
    <2>2. /\ old.snapshot_generated_at <= old.group_snapshot
          /\ old.snapshot_generated_at <= generation
          /\ old.snapshot_generated_at <= group[r]
      BY <2>1 DEF SnapshotInv, SnapshotColumnsOrdered
    <2>3. /\ row \in Rows
          /\ row.snapshot_generated_at = old.snapshot_generated_at
          /\ row.snapshot_generated_at <= row.group_snapshot
      BY <2>1, <2>2, UpdatedRowType, UpdatedRowSnapshots
    <2>4. Record(r, row)
      BY <1>9 DEF UpdateDecision
    <2> HIDE DEF row
    <2> QED
      BY <2>1, <2>2, <2>3, <2>4, RecordKeepsSnapshots
  <1>10. ASSUME NEW r \in Requests, InsertCollides(r) PROVE SnapshotInv'
    BY <1>4, <1>10 DEF InsertCollides
  <1>11. ASSUME NEW r \in Requests, Fail(r) PROVE SnapshotInv'
    BY <1>4, <1>11 DEF Fail
  <1> QED
    BY <1>1, <1>2, <1>5, <1>6, <1>7, <1>8, <1>9, <1>10, <1>11 DEF Next, Handle

(* However many requests write over copies they loaded at different times, *)
(* a row's group is never from before the prescription it was first        *)
(* decided on.                                                             *)
THEOREM SnapshotsOrdered == Spec => []SnapshotColumnsOrdered
  <1>1. SnapshotInv => SnapshotColumnsOrdered
    BY DEF SnapshotInv
  <1>2. TypeOK /\ RowsStay /\ [Next]_vars => (TypeOK /\ RowsStay)'
    BY TypeStep
  <1>3. TypeOK /\ RowsStay /\ SnapshotInv /\ [Next]_vars => SnapshotInv'
    BY SnapshotStep
  <1> QED
    BY TypeInit, SnapshotInit, <1>1, <1>2, <1>3, PTL DEF Spec

=============================================================================
