---------------------------- MODULE SwapDecision ----------------------------
(***************************************************************************)
(* The decision on an exchange group (update_exchange_group_decision),     *)
(* served concurrently by the API.  A request is one HTTP call and one     *)
(* database transaction: it loads the decision row, asks for the current   *)
(* prescription, then flushes and commits a row write together with one    *)
(* audit event.  PostgreSQL runs the statements READ COMMITTED and the row *)
(* is not locked on load, so other requests commit in between; the ORM's   *)
(* UPDATE carries only the columns that differ from the loaded ones.       *)
(***************************************************************************)
EXTENDS Naturals, Sequences

CONSTANTS
  Keys,           \* execution keys of exchange groups
  Requests,       \* HTTP calls to the decision endpoints
  Operators,      \* who signs a decision
  Reasons,        \* non-blank rejection reasons
  NoReason,       \* rejection_reason = None
  NoRow,          \* session.get(...) = None
  MaxGeneration   \* bound on the changes of the prescription in a behaviour

ASSUME ReasonAssumption == NoReason \notin Reasons
ASSUME BoundAssumption == MaxGeneration \in Nat

VARIABLES
  prescribed,   \* keys of the groups in the current prescription
  generation,   \* how often what the prescription is computed from changed
  decision,     \* audit.vehicle_swap_decisions, by execution_key
  events,       \* audit.vehicle_swap_decision_events, in commit order
  clock,        \* datetime.now() of the API process
  pc,           \* where the handler of each request stands
  body,         \* the request as validated
  loaded,       \* the row as the handler's session loaded it
  basis,        \* how many events the key had when the row was loaded
  group,        \* generation of the prescription the handler found it in
  answer        \* what the caller was told

handler == <<pc, body, loaded, basis, group, answer>>
vars == <<prescribed, generation, decision, events, clock, handler>>

Statuses == {"in_analysis", "claimed", "executed", "rejected"}
Final == {"executed", "rejected"}

AllowedTransitions ==
  [s \in Statuses |->
     CASE s = "in_analysis" -> {"claimed", "executed", "rejected"}
       [] s = "claimed"     -> {"executed", "rejected"}
       [] OTHER             -> {}]

(* UpdateExchangeGroupDecisionRequest: a reason exactly when rejecting. *)
Bodies ==
  {b \in [key : Keys, status : Statuses, actor : Operators,
          reason : Reasons \cup {NoReason}, at : Nat] :
     (b.status = "rejected") <=> (b.reason \in Reasons)}

Rows == [status : Statuses, updated_by : Operators, updated_at : Nat,
         reason : Reasons \cup {NoReason}, group_snapshot : Nat,
         snapshot_generated_at : Nat]

ASSUME RowAssumption == NoRow \notin Rows

Events == [request : Requests, status : Statuses, actor : Operators,
           reason : Reasons \cup {NoReason}, at : Nat, basis : Nat]

Answers == {"recorded", "already", "conflict", "not_current", "error", "none"}

(* Types: a handler past "idle" works on a validated body, also while     *)
(* others commit around it.                                                *)
TypeOK ==
  /\ prescribed \in SUBSET Keys
  /\ generation \in Nat
  /\ decision \in [Keys -> Rows \cup {NoRow}]
  /\ events \in [Keys -> Seq(Events)]
  /\ clock \in Nat
  /\ pc \in [Requests -> {"idle", "load", "prescribe", "write", "done"}]
  /\ body \in [Requests -> Bodies \cup {NoRow}]
  /\ loaded \in [Requests -> Rows \cup {NoRow}]
  /\ basis \in [Requests -> Nat]
  /\ group \in [Requests -> Nat]
  /\ answer \in [Requests -> Answers]
  /\ \A r \in Requests : pc[r] # "idle" => body[r] \in Bodies

Init ==
  /\ prescribed \in SUBSET Keys
  /\ generation = 0
  /\ decision = [k \in Keys |-> NoRow]
  /\ events = [k \in Keys |-> << >>]
  /\ clock = 0
  /\ pc = [r \in Requests |-> "idle"]
  /\ body = [r \in Requests |-> NoRow]
  /\ loaded = [r \in Requests |-> NoRow]
  /\ basis = [r \in Requests |-> 0]
  /\ group = [r \in Requests |-> 0]
  /\ answer = [r \in Requests |-> "none"]

-----------------------------------------------------------------------------
(* The prescription is computed on demand from the newest snapshots, the   *)
(* positions and the time of day: the worker commits some of them, or time *)
(* passes, and other groups may be prescribed.  What a handler stores of   *)
(* its prescription, the time stamp of the snapshot or the group, is      *)
(* represented by the generation it was computed from.                     *)
RefreshPrescription ==
  /\ generation < MaxGeneration
  /\ generation' = generation + 1
  /\ prescribed' \in SUBSET Keys
  /\ UNCHANGED <<decision, events, clock, handler>>

(* Mutant of Receive: the body is not validated. *)
ReceiveUnvalidated(r, k, s, o, x) ==
  /\ pc[r] = "idle"
  /\ clock' = clock + 1
  /\ body' = [body EXCEPT ![r] = [key |-> k, status |-> s, actor |-> o, reason |-> x,
                                 at |-> clock + 1]]
  /\ pc' = [pc EXCEPT ![r] = "load"]
  /\ UNCHANGED <<prescribed, generation, decision, events, loaded, basis, group, answer>>

(* The endpoint stamps the request with datetime.now() before any await. *)
Receive(r, k, s, o, x) ==
  LET request == [key |-> k, status |-> s, actor |-> o, reason |-> x,
                  at |-> clock + 1]
  IN /\ pc[r] = "idle"
     /\ request \in Bodies
     /\ clock' = clock + 1
     /\ body' = [body EXCEPT ![r] = request]
     /\ pc' = [pc EXCEPT ![r] = "load"]
     /\ UNCHANGED <<prescribed, generation, decision, events,
                    loaded, basis, group, answer>>

(* The handler answers and its session closes, forgetting what it loaded. *)
Finish(r, told) ==
  /\ pc' = [pc EXCEPT ![r] = "done"]
  /\ answer' = [answer EXCEPT ![r] = told]
  /\ loaded' = [loaded EXCEPT ![r] = NoRow]
  /\ basis' = [basis EXCEPT ![r] = 0]
  /\ group' = [group EXCEPT ![r] = 0]

(* session.get(...) put the row into the handler's session. *)
GoOn(r, existing) ==
  /\ pc' = [pc EXCEPT ![r] = "prescribe"]
  /\ loaded' = [loaded EXCEPT ![r] = existing]
  /\ basis' = [basis EXCEPT ![r] = Len(events[body[r].key])]
  /\ UNCHANGED <<group, answer>>

(* Mutant of Load: an operator may sign again for the status already held. *)
LoadResigning(r) ==
  LET existing == decision[body[r].key]
      wanted == body[r].status
      legal == existing # NoRow =>
                 wanted \in AllowedTransitions[existing.status] \cup {existing.status}
  IN /\ pc[r] = "load"
     /\ \/ legal /\ GoOn(r, existing)
        \/ ~legal /\ Finish(r, "conflict")
     /\ UNCHANGED <<prescribed, generation, decision, events, clock, body>>

(* existing = await session.get(...), then the two early exits. *)
Load(r) ==
  LET existing == decision[body[r].key]
      wanted == body[r].status
  IN /\ pc[r] = "load"
     /\ \/ /\ existing # NoRow
           /\ existing.status = wanted
           /\ Finish(r, "already")
        \/ /\ existing # NoRow
           /\ existing.status # wanted
           /\ wanted \notin AllowedTransitions[existing.status]
           /\ Finish(r, "conflict")
        \/ /\ existing # NoRow => wanted \in AllowedTransitions[existing.status]
           /\ GoOn(r, existing)
     /\ UNCHANGED <<prescribed, generation, decision, events, clock, body>>

(* Mutant of Prescribe: a prescription cached by some API process is used. *)
PrescribeFromCache(r) ==
  /\ pc[r] = "prescribe"
  /\ \E cached \in 0..generation : group' = [group EXCEPT ![r] = cached]
  /\ pc' = [pc EXCEPT ![r] = "write"]
  /\ UNCHANGED <<prescribed, generation, decision, events, clock,
                 body, loaded, basis, answer>>

(* await query_vehicle_swap_prescriptions(...): is the group still current? *)
Prescribe(r) ==
  /\ pc[r] = "prescribe"
  /\ \/ /\ body[r].key \in prescribed
        /\ group' = [group EXCEPT ![r] = generation]
        /\ pc' = [pc EXCEPT ![r] = "write"]
        /\ UNCHANGED <<loaded, basis, answer>>
     \/ /\ body[r].key \notin prescribed
        /\ Finish(r, "not_current")
  /\ UNCHANGED <<prescribed, generation, decision, events, clock, body>>

(* The columns of an UPDATE: those the session changed since it loaded them. *)
Flushed(stored, seen, wanted) == IF wanted = seen THEN stored ELSE wanted

UpdatedRow(row, seen, b, g) ==
  [row EXCEPT
     !.status         = Flushed(@, seen.status, b.status),
     !.updated_by     = Flushed(@, seen.updated_by, b.actor),
     !.updated_at     = Flushed(@, seen.updated_at, b.at),
     !.reason         = Flushed(@, seen.reason, b.reason),
     !.group_snapshot = Flushed(@, seen.group_snapshot, g)]

InsertedRow(b, g) ==
  [status |-> b.status, updated_by |-> b.actor, updated_at |-> b.at,
   reason |-> b.reason, group_snapshot |-> g, snapshot_generated_at |-> g]

Event(r) ==
  [request |-> r, status |-> body[r].status, actor |-> body[r].actor,
   reason |-> body[r].reason, at |-> body[r].at, basis |-> basis[r]]

(* The row write and the audit event become visible together. *)
Record(r, row) ==
  /\ decision' = [decision EXCEPT ![body[r].key] = row]
  /\ events' = [events EXCEPT ![body[r].key] = Append(@, Event(r))]
  \* the connection may drop after COMMIT: the caller then sees an error
  /\ \E told \in {"recorded", "error"} : Finish(r, told)
  /\ UNCHANGED <<prescribed, generation, clock, body>>

(* Mutant of InsertDecision: ON CONFLICT DO UPDATE instead of a plain INSERT. *)
UpsertDecision(r) ==
  /\ pc[r] = "write"
  /\ loaded[r] = NoRow
  /\ Record(r, InsertedRow(body[r], group[r]))

InsertDecision(r) ==
  /\ pc[r] = "write"
  /\ loaded[r] = NoRow
  /\ decision[body[r].key] = NoRow
  /\ Record(r, InsertedRow(body[r], group[r]))

UpdateDecision(r) ==
  /\ pc[r] = "write"
  /\ loaded[r] # NoRow
  /\ Record(r, UpdatedRow(decision[body[r].key], loaded[r], body[r], group[r]))

(* Mutant of InsertCollides: the integrity error is taken for a success. *)
CollisionSwallowed(r) ==
  /\ pc[r] = "write"
  /\ loaded[r] = NoRow
  /\ decision[body[r].key] # NoRow
  /\ Finish(r, "recorded")
  /\ UNCHANGED <<prescribed, generation, decision, events, clock, body>>

(* Another request inserted the row first: primary key violation, HTTP 500. *)
InsertCollides(r) ==
  /\ pc[r] = "write"
  /\ loaded[r] = NoRow
  /\ decision[body[r].key] # NoRow
  /\ Finish(r, "error")
  /\ UNCHANGED <<prescribed, generation, decision, events, clock, body>>

(* A lost connection or an API restart rolls the transaction back. *)
Fail(r) ==
  /\ pc[r] \in {"load", "prescribe", "write"}
  /\ Finish(r, "error")
  /\ UNCHANGED <<prescribed, generation, decision, events, clock, body>>

Handle(r) ==
  \/ Load(r)
  \/ Prescribe(r)
  \/ InsertDecision(r)
  \/ UpdateDecision(r)
  \/ InsertCollides(r)

Next ==
  \/ RefreshPrescription
  \/ \E r \in Requests :
       \/ \E k \in Keys, s \in Statuses, o \in Operators,
             x \in Reasons \cup {NoReason} : Receive(r, k, s, o, x)
       \/ Handle(r)
       \/ Fail(r)

Spec == Init /\ [][Next]_vars

(* The event loop keeps running the handlers it has started, and the       *)
(* database answers or drops the connection: a handler never hangs.        *)
FairSpec == Spec /\ \A r \in Requests : WF_vars(Handle(r))

-----------------------------------------------------------------------------
(* What follows is about update_exchange_group_decision under concurrency. *)

EventsOf(r, k) == {i \in 1..Len(events[k]) : events[k][i].request = r}

(* The answer a caller gets agrees with the audit trail: a confirmed       *)
(* change left exactly one event, a refusal none, an error one or none,    *)
(* and a request is never audited before it is answered.                   *)
AuditAgreesWithAnswers ==
  \A r \in Requests, k \in Keys :
    LET own == EventsOf(r, k) IN
    /\ \A i, j \in own : i = j
    /\ own # {} => answer[r] \in {"recorded", "error"} /\ body[r].key = k
    /\ answer[r] = "recorded" /\ body[r].key = k => own # {}

(* The row shown to operators exists exactly when something was audited,   *)
(* and holds the status and the time of the last event committed, whatever *)
(* stale row its writer loaded.  Whom it names is RowNamesTheActor.        *)
RowMirrorsLastEvent ==
  \A k \in Keys :
    LET log == events[k]
        row == decision[k]
    IN /\ row = NoRow <=> log = << >>
       /\ log # << >> => /\ row.status = log[Len(log)].status
                        /\ row.updated_at = log[Len(log)].at

(* Every audited change was a legal transition from the state its request  *)
(* had loaded: only the first event opens a group, and a request that saw  *)
(* a final decision never changes it.                                      *)
EventsLegalFromBasis ==
  \A k \in Keys : \A i \in 1..Len(events[k]) :
    LET e == events[k][i] IN
    /\ e.basis = 0 => i = 1
    /\ e.basis # 0 =>
         /\ e.basis < i
         /\ e.status \in AllowedTransitions[events[k][e.basis].status]

(* A row's group is never from an older prescription than the one it was   *)
(* first decided on, although snapshot_generated_at is written once and    *)
(* group_snapshot by every change that differs from the copy it loaded.    *)
SnapshotColumnsOrdered ==
  \A k \in Keys :
    decision[k] # NoRow =>
      decision[k].snapshot_generated_at <= decision[k].group_snapshot

(* The audit trail implements the log of SwapDecisionLog. *)
StatusesOf(log) == [i \in 1..Len(log) |-> log[i].status]
trail == [k \in Keys |-> StatusesOf(events[k])]

Log == INSTANCE SwapDecisionLog WITH history <- trail

ImplementsLog == Log!Spec

-----------------------------------------------------------------------------
(* What the repository says and the code does not keep. *)

(* "Este grupo ja possui uma decisao final e nao pode ser alterado." *)
FinalDecisionStands ==
  [][\A k \in Keys :
       decision[k] # NoRow /\ decision[k].status \in Final
         => decision'[k].status = decision[k].status]_vars

(* Every change of state names the person responsible for it: updated_by,  *)
(* reported as executed_by once executed, is who signed the last change.   *)
RowNamesTheActor ==
  \A k \in Keys :
    LET log == events[k] IN
    log # << >> => decision[k].updated_by = log[Len(log)].actor

=============================================================================
