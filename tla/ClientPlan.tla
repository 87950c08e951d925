----------------------------- MODULE ClientPlan -----------------------------
(***************************************************************************)
(* The work around a client in AfloStore: the monthly action plan,         *)
(* documents, appointments, notes, and the communications these announce   *)
(* under the client's notification preferences and consent.  Every         *)
(* operation is one synchronous call by a member of the organization;      *)
(* titles, categories and dates are valid, and left out, as are the audit  *)
(* log and the domain events.  Rows are never removed: a row is its place  *)
(* in its table.                                                           *)
(***************************************************************************)
EXTENDS Naturals, Sequences

CONSTANTS
  Members,            \* clients of the organization
  CommunicationOK,    \* those whose latest communication consent is a grant
  Preferable,         \* the (type, channel) pairs whose preference is ever set
  MaxRows,            \* bound: the rows written to all tables
  MaxTime             \* bound: the clock

ASSUME PlanAssumption == CommunicationOK \subseteq Members /\ MaxTime \in Nat

VARIABLES
  clock,
  actions,        \* monthlyActions
  documents,      \* documents
  appointments,   \* appointments
  notes,          \* notes
  preferences,    \* notificationPreferences
  communications  \* communicationsLog

planVars == <<clock, actions, documents, appointments, notes, preferences, communications>>

PlanInit ==
  /\ clock = 0
  /\ actions = <<>> /\ documents = <<>> /\ appointments = <<>> /\ notes = <<>>
  /\ preferences = <<>> /\ communications = <<>>

RowsOfPlan == Len(actions) + Len(documents) + Len(appointments) + Len(notes) + Len(preferences)

-----------------------------------------------------------------------------
(***************************************************************************)
(* The kernels: the workflows of actions and documents, the routing of     *)
(* notifications.                                                          *)
(***************************************************************************)
ACTION_ALLOWED ==
  [todo |-> {"in_progress", "done"}, in_progress |-> {"done", "todo"},
   done |-> {"todo", "in_progress"}]

\* Mutant: an approved document may be flagged again.
DOCUMENT_REFLAGGED ==
  [requested |-> {"uploaded"}, uploaded |-> {"in_review"},
   in_review |-> {"approved", "needs_attention"}, needs_attention |-> {"uploaded"},
   approved |-> {"needs_attention"}]

DOCUMENT_ALLOWED ==
  [requested |-> {"uploaded"}, uploaded |-> {"in_review"},
   in_review |-> {"approved", "needs_attention"}, needs_attention |-> {"uploaded"},
   approved |-> {}]

NOTIFICATION_DEFAULT_CHANNELS ==
  [appointment_scheduled |-> {"in_app", "email", "sms"},
   document_requested |-> {"in_app", "email"}, task_assigned |-> {"in_app"},
   roadmap_published |-> {"in_app", "email"}, report_published |-> {"in_app", "email"}]

IsExternalChannel(channel) == channel \in {"email", "sms"}

Matching(user, type, channel) ==
  {k \in DOMAIN preferences : /\ preferences[k].user = user /\ preferences[k].type = type
                              /\ preferences[k].channel = channel}

\* Mutant: of preferences recorded in the same millisecond the first wins.
IsChannelEnabledFirst(user, type, channel) ==
  LET own == Matching(user, type, channel)
      top == {k \in own : \A j \in own : preferences[j].at <= preferences[k].at}
  IN  IF own = {} THEN channel \in NOTIFICATION_DEFAULT_CHANNELS[type]
      ELSE \E k \in top : (\A j \in top : k <= j) /\ preferences[k].enabled

\* The latest by recordedAt, and of equals the last, or else the default.
IsChannelEnabled(user, type, channel) ==
  LET own == Matching(user, type, channel)
      top == {k \in own : \A j \in own : preferences[j].at <= preferences[k].at}
  IN  IF own = {} THEN channel \in NOTIFICATION_DEFAULT_CHANNELS[type]
      ELSE \E k \in top : (\A j \in top : j <= k) /\ preferences[k].enabled

DeliveryOutcome == {"sent", "CHANNEL_DISABLED", "NO_COMMUNICATION_CONSENT"}

\* resolveDelivery: what becomes of each default channel of the type.
ResolveDelivery(user, type) ==
  [channel \in NOTIFICATION_DEFAULT_CHANNELS[type] |->
     IF ~IsChannelEnabled(user, type, channel) THEN "CHANNEL_DISABLED"
     ELSE IF IsExternalChannel(channel) /\ user \notin CommunicationOK
          THEN "NO_COMMUNICATION_CONSENT"
     ELSE "sent"]

\* logNotification: one entry for the channels of one announcement.
LogNotification(user, type) ==
  communications' = Append(communications,
    [user |-> user, type |-> type, outcome |-> ResolveDelivery(user, type)])

-----------------------------------------------------------------------------

AddMonthlyAction(c) ==
  /\ actions' = Append(actions, [client |-> c, status |-> "todo"])
  /\ LogNotification(c, "task_assigned")
  /\ UNCHANGED <<clock, documents, appointments, notes, preferences>>

TransitionMonthlyAction(k, to) ==
  /\ to \in ACTION_ALLOWED[actions[k].status]
  /\ actions' = [actions EXCEPT ![k].status = to]
  /\ UNCHANGED <<clock, documents, appointments, notes, preferences, communications>>

RequestDocument(c) ==
  /\ documents' = Append(documents, [client |-> c, status |-> "requested"])
  /\ LogNotification(c, "document_requested")
  /\ UNCHANGED <<clock, actions, appointments, notes, preferences>>

TransitionDocument(k, to) ==
  /\ to \in DOCUMENT_ALLOWED[documents[k].status]
  /\ documents' = [documents EXCEPT ![k].status = to]
  /\ UNCHANGED <<clock, actions, appointments, notes, preferences, communications>>

\* In the future, with the acting member.
ScheduleAppointment(c, at) ==
  /\ at > clock
  /\ appointments' = Append(appointments, [client |-> c, at |-> at])
  /\ LogNotification(c, "appointment_scheduled")
  /\ UNCHANGED <<clock, actions, documents, notes, preferences>>

AddNote(c) ==
  /\ notes' = Append(notes, [client |-> c, at |-> clock])
  /\ UNCHANGED <<clock, actions, documents, appointments, preferences, communications>>

SetNotificationPreference(c, type, channel, enabled) ==
  /\ preferences' = Append(preferences,
       [user |-> c, type |-> type, channel |-> channel, enabled |-> enabled, at |-> clock])
  /\ UNCHANGED <<clock, actions, documents, appointments, notes, communications>>

Tick ==
  /\ clock < MaxTime /\ clock' = clock + 1
  /\ UNCHANGED <<actions, documents, appointments, notes, preferences, communications>>

PlanWrites ==
  \E c \in Members :
    \/ AddMonthlyAction(c)
    \/ RequestDocument(c)
    \/ \E at \in 0..MaxTime + 1 : ScheduleAppointment(c, at)
    \/ AddNote(c)
    \/ \E p \in Preferable, enabled \in BOOLEAN :
         SetNotificationPreference(c, p[1], p[2], enabled)

PlanMoves ==
  \/ \E k \in DOMAIN actions : \E to \in DOMAIN ACTION_ALLOWED : TransitionMonthlyAction(k, to)
  \/ \E k \in DOMAIN documents : \E to \in DOMAIN DOCUMENT_ALLOWED : TransitionDocument(k, to)
  \/ Tick

PlanNext == (RowsOfPlan < MaxRows /\ PlanWrites) \/ PlanMoves

PlanSpec == PlanInit /\ [][PlanNext]_planVars

-----------------------------------------------------------------------------
(***************************************************************************)
(* Properties.                                                             *)
(***************************************************************************)

\* Every row belongs to a client and has a status of its workflow.
PlanTypeOK ==
  /\ clock \in 0..MaxTime
  /\ actions \in Seq([client : Members, status : DOMAIN ACTION_ALLOWED])
  /\ documents \in Seq([client : Members, status : DOMAIN DOCUMENT_ALLOWED])
  /\ appointments \in Seq([client : Members, at : Nat \ {0}])
  /\ notes \in Seq([client : Members, at : 0..clock])
  /\ preferences \in Seq([user : Members, type : {p[1] : p \in Preferable},
                          channel : {p[2] : p \in Preferable}, enabled : BOOLEAN, at : 0..clock])
  /\ communications \in Seq([user : Members, type : DOMAIN NOTIFICATION_DEFAULT_CHANNELS,
       outcome : UNION {[NOTIFICATION_DEFAULT_CHANNELS[t] -> DeliveryOutcome] :
                        t \in DOMAIN NOTIFICATION_DEFAULT_CHANNELS}])

\* What a client said last, by the order they said it in.
LastWord(user, type, channel) ==
  LET own == Matching(user, type, channel)
  IN  IF own = {} THEN TRUE ELSE \E k \in own : (\A j \in own : j <= k) /\ preferences[k].enabled

\* Nothing goes out on a channel the client's last word disabled, nor on an
\* external one without consent, and a channel the client left alone or took
\* back, with consent where it takes one, is not withheld (logNotification).
LastWordGoverns ==
  [][\A k \in DOMAIN communications' \ DOMAIN communications :
       LET comm == communications'[k]
       IN  \A channel \in DOMAIN comm.outcome :
             comm.outcome[channel] = "sent" <=>
               /\ LastWord(comm.user, comm.type, channel)
               /\ IsExternalChannel(channel) => comm.user \in CommunicationOK]_planVars
=============================================================================
