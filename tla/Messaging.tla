----------------------------- MODULE Messaging -----------------------------
(***************************************************************************)
(* Conversations between staff and clients, in either runtime that         *)
(* resolveMessagingUiRuntime gives a process:                              *)
(*                                                                         *)
(*   "persistent": the route handlers over AuthorizedMessagingService and  *)
(*     DrizzleMessagingRepository.  A request authorizes on the thread it  *)
(*     loads and then runs a transaction that reads the thread's status    *)
(*     and writes, without a lock, so other requests come in between.      *)
(*   "demo": AfloStore's own operations, each one synchronous call.        *)
(*                                                                         *)
(* A caller is a resolved session context (SessionKernel).  The portal     *)
(* names a thread by its place in the caller's own list, which the gateway *)
(* resolves to an id by a first request, and may so name another of the    *)
(* client's threads than the one it showed.  Bodies, subjects and times    *)
(* are left out: a draft is valid or it is refused before any step here.   *)
(***************************************************************************)
EXTENDS SessionKernel, Sequences, FiniteSets

CONSTANTS
  Callers,       \* session contexts callers have resolved
  MsgClients,    \* clients
  MsgClientOrg,  \* the organization of a client
  Threads,       \* bound: the threads ever opened
  MsgRequests,   \* requests that run at the same time
  MaxMessages    \* bound: the messages ever posted

\* Contexts are BuildSessionContext's: a platform administrator has no organization.
ASSUME MessagingAssumption ==
  /\ DOMAIN MsgClientOrg = MsgClients /\ Nil \notin MsgClients
  /\ \A ctx \in Callers : ctx.role \in ROLES /\ (ctx.role = "platform_admin" => ctx.org = Nil)
  /\ MaxMessages \in Nat

VARIABLES
  runtime,    \* the runtime of this process
  threads,    \* conversation_threads
  messages,   \* messages, in the order they were written
  msgCalls,   \* what each request is doing
  counted     \* history: the messages read that readers were told, by thread and side

messagingVars == <<runtime, threads, messages, msgCalls, counted>>

NoThread == [status |-> "absent"]
NoCall == [stage |-> "idle"]
Sides == {"client", "staff"}

MessagingInit ==
  /\ runtime \in {"persistent", "demo"}
  /\ threads = [t \in Threads |-> NoThread]
  /\ messages = <<>>
  /\ msgCalls = [r \in MsgRequests |-> NoCall]
  /\ counted = [t \in Threads |-> [side \in Sides |-> 0]]

(***************************************************************************)
(* The kernel: validateMessageDraft and transitionThread.                  *)
(***************************************************************************)
MayPost(status) == status # "closed"

TransitionThread == [close |-> [from |-> "open", to |-> "closed"],
                     reopen |-> [from |-> "closed", to |-> "open"]]

(***************************************************************************)
(* AuthorizedMessagingService: requireOrg, check, deriveSender.            *)
(***************************************************************************)
MayOn(ctx, permission, client) ==
  ctx.org # Nil /\ Authorize(ctx, permission, ctx.org, client)

\* loadThread: under the caller's organization, then authorized on its client.
MayLoad(ctx, permission, t) ==
  /\ threads[t] # NoThread /\ threads[t].org = ctx.org
  /\ MayOn(ctx, permission, threads[t].client)

SideOf(ctx) == IF ctx.role = "client" THEN "client" ELSE "staff"

SenderOf(ctx) == IF ctx.role = "client" THEN ctx.client ELSE ctx.user

OpenRow(client) == [status |-> "open", org |-> MsgClientOrg[client], client |-> client]

\* A sender has read what they sent.
Message(t, side, sender) ==
  [thread |-> t, client |-> threads[t].client, side |-> side, sender |-> sender,
   read |-> [s \in Sides |-> s = side], readers |-> {}]

CallOf(r, call) == msgCalls' = [msgCalls EXCEPT ![r] = call]

Persistent == runtime = "persistent" /\ UNCHANGED runtime

(***************************************************************************)
(* What is shown: the threads of a client, the messages of a thread, and   *)
(* the unread badges of either side.                                       *)
(***************************************************************************)
ThreadsOf(org, client) ==
  {t \in Threads : threads[t] # NoThread /\ threads[t].org = org /\ threads[t].client = client}

ThreadsShown(ctx, client) ==
  IF MayOn(ctx, "message.read", client) THEN ThreadsOf(ctx.org, client) ELSE {}

MessagesShown(ctx, t) ==
  {n \in DOMAIN messages : MayLoad(ctx, "message.read", t) /\ messages[n].thread = t}

\* Client messages no staff has read, of one thread.
UnreadForStaff(t) ==
  Cardinality({n \in DOMAIN messages : /\ messages[n].thread = t
                                       /\ messages[n].side = "client"
                                       /\ ~messages[n].read["staff"]})

UnreadByClient(t) ==
  {n \in DOMAIN messages :
     messages[n].thread = t /\ messages[n].side = "staff" /\ ~messages[n].read["client"]}

\* The thread as its client sees it: their own words and the advisor's.
ClientThreadView(t) ==
  LET shown == SelectSeq(messages, LAMBDA m : m.thread = t)
  IN  [status |-> threads[t].status,
       messages |-> [k \in DOMAIN shown |-> IF shown[k].side = "client" THEN "you" ELSE "advisor"],
       unread |-> Cardinality(UnreadByClient(t))]

\* Unread advisor messages over all of a client's threads.
UnreadForClient(client) ==
  Cardinality({n \in DOMAIN messages : /\ messages[n].client = client
                                       /\ messages[n].side = "staff"
                                       /\ ~messages[n].read["client"]})

(***************************************************************************)
(* handleCreateThread.  The staff gateway's openThread posts next.         *)
(***************************************************************************)
CreateThread(r, ctx, t, client) ==
  /\ Persistent /\ msgCalls[r] = NoCall /\ threads[t] = NoThread
  /\ MayOn(ctx, "message.send", client)
  /\ MsgClientOrg[client] = ctx.org
  /\ threads' = [threads EXCEPT ![t] = OpenRow(client)]
  /\ CallOf(r, [stage |-> "opened", thread |-> t, ctx |-> ctx])
  /\ UNCHANGED <<messages, counted>>

\* threadIdAt: the thread the portal's position stands for just now.
NameThread(r, ctx, t) ==
  /\ Persistent /\ msgCalls[r] = NoCall
  /\ ctx.client # Nil /\ t \in ThreadsShown(ctx, ctx.client)
  /\ CallOf(r, [stage |-> "named", thread |-> t, ctx |-> ctx])
  /\ UNCHANGED <<threads, messages, counted>>

\* A request of its own, or the second of a gateway's call.
Calls(r, ctx, t, first) ==
  msgCalls[r] \in {NoCall} \cup {[stage |-> s, thread |-> t, ctx |-> ctx] : s \in first}

\* handlePostMessage up to the reads of postMessage's transaction.
Drafted(ctx, t) ==
  /\ MayLoad(ctx, "message.send", t)
  /\ SideOf(ctx) = "client" => SenderOf(ctx) = threads[t].client
  /\ MayPost(threads[t].status)

BeginPost(r, ctx, t) ==
  /\ Persistent
  /\ Calls(r, ctx, t, {"opened", "named"})
  /\ Drafted(ctx, t)
  /\ CallOf(r, [stage |-> "post", thread |-> t, ctx |-> ctx])
  /\ UNCHANGED <<threads, messages, counted>>

\* The insert, whatever has become of the thread, and the commit.
CommitPost(r) ==
  /\ Persistent /\ msgCalls[r].stage = "post" /\ Len(messages) < MaxMessages
  /\ messages' = Append(messages,
       Message(msgCalls[r].thread, SideOf(msgCalls[r].ctx), SenderOf(msgCalls[r].ctx)))
  /\ CallOf(r, NoCall)
  /\ UNCHANGED <<threads, counted>>

\* Mutant: a reader is told of every message of the other side.
MarkAllRead(t, side, reader) ==
  LET read == {n \in DOMAIN messages : messages[n].thread = t /\ messages[n].side # side}
  IN  /\ messages' = [n \in DOMAIN messages |->
           IF n \in read
           THEN [messages[n] EXCEPT !.read[side] = TRUE, !.readers = @ \cup {reader}]
           ELSE messages[n]]
      /\ counted' = [counted EXCEPT ![t][side] = @ + Cardinality(read)]

\* What a side has not read: the other side's messages.
MarkUnread(t, side, reader) ==
  LET unread == {n \in DOMAIN messages :
                   messages[n].thread = t /\ messages[n].side # side /\ ~messages[n].read[side]}
  IN  /\ messages' = [n \in DOMAIN messages |->
           IF n \in unread
           THEN [messages[n] EXCEPT !.read[side] = TRUE, !.readers = @ \cup {reader}]
           ELSE messages[n]]
      /\ counted' = [counted EXCEPT ![t][side] = @ + Cardinality(unread)]

\* handleMarkThreadRead: one UPDATE of the rows still unread, which counts them.
MarkThreadRead(r, ctx, t) ==
  /\ Persistent /\ Calls(r, ctx, t, {"named"})
  /\ MayLoad(ctx, "message.read", t)
  /\ MarkUnread(t, SideOf(ctx), SenderOf(ctx))
  /\ CallOf(r, NoCall)
  /\ UNCHANGED threads

\* handleSetThreadStatus: the transition on the status read, then the UPDATE.
BeginSetStatus(r, ctx, t, action) ==
  /\ Persistent /\ msgCalls[r] = NoCall
  /\ MayLoad(ctx, "message.close", t)
  /\ threads[t].status = TransitionThread[action].from
  /\ CallOf(r, [stage |-> "status", thread |-> t, to |-> TransitionThread[action].to])
  /\ UNCHANGED <<threads, messages, counted>>

CommitSetStatus(r) ==
  /\ Persistent /\ msgCalls[r].stage = "status"
  /\ threads' = [threads EXCEPT ![msgCalls[r].thread].status = msgCalls[r].to]
  /\ CallOf(r, NoCall)
  /\ UNCHANGED <<messages, counted>>

\* The transaction rolls back, or the gateway's second call is refused.
GiveUp(r) ==
  /\ Persistent /\ msgCalls[r] # NoCall
  /\ CallOf(r, NoCall)
  /\ UNCHANGED <<threads, messages, counted>>

(***************************************************************************)
(* The demo runtime.  The store verifies who it is told is calling: staff  *)
(* of the organization, or the thread's own client.                        *)
(***************************************************************************)
Demo == runtime = "demo" /\ UNCHANGED <<runtime, msgCalls>>

IsStaff(ctx) == ctx.role \notin {"client", "platform_admin"} /\ ctx.org # Nil

\* openThread: the thread and its first message.
OpenThread(ctx, t, client) ==
  /\ Demo /\ threads[t] = NoThread /\ Len(messages) < MaxMessages
  /\ IsStaff(ctx) /\ MsgClientOrg[client] = ctx.org
  /\ threads' = [threads EXCEPT ![t] = OpenRow(client)]
  /\ messages' = Append(messages,
       [thread |-> t, client |-> client, side |-> "staff", sender |-> ctx.user,
        read |-> [s \in Sides |-> s = "staff"], readers |-> {}])
  /\ UNCHANGED counted

IsParty(ctx, t) ==
  /\ threads[t] # NoThread /\ threads[t].org = ctx.org
  /\ IsStaff(ctx) \/ (ctx.role = "client" /\ ctx.client = threads[t].client)

\* postReply and appendMessage.
PostReply(ctx, t) ==
  /\ Demo /\ IsParty(ctx, t) /\ MayPost(threads[t].status) /\ Len(messages) < MaxMessages
  /\ messages' = Append(messages, Message(t, SideOf(ctx), SenderOf(ctx)))
  /\ UNCHANGED <<threads, counted>>

\* markThreadRead: MessageRead carries the count.
ReadThread(ctx, t) ==
  /\ Demo /\ IsParty(ctx, t)
  /\ MarkUnread(t, SideOf(ctx), SenderOf(ctx))
  /\ UNCHANGED threads

\* closeThread, reopenThread.
ChangeThreadStatus(ctx, t, action) ==
  /\ Demo /\ IsStaff(ctx) /\ threads[t] # NoThread /\ threads[t].org = ctx.org
  /\ threads[t].status = TransitionThread[action].from
  /\ threads' = [threads EXCEPT ![t].status = TransitionThread[action].to]
  /\ UNCHANGED <<messages, counted>>

MessagingNext ==
  \/ \E r \in MsgRequests, ctx \in Callers, t \in Threads :
       \/ \E client \in MsgClients : CreateThread(r, ctx, t, client)
       \/ NameThread(r, ctx, t) \/ BeginPost(r, ctx, t) \/ MarkThreadRead(r, ctx, t)
       \/ \E action \in DOMAIN TransitionThread : BeginSetStatus(r, ctx, t, action)
  \/ \E r \in MsgRequests : CommitPost(r) \/ CommitSetStatus(r) \/ GiveUp(r)
  \/ \E ctx \in Callers, t \in Threads :
       \/ \E client \in MsgClients : OpenThread(ctx, t, client)
       \/ PostReply(ctx, t) \/ ReadThread(ctx, t)
       \/ \E action \in DOMAIN TransitionThread : ChangeThreadStatus(ctx, t, action)

MessagingSpec == MessagingInit /\ [][MessagingNext]_messagingVars

(***************************************************************************)
(* Properties.                                                             *)
(***************************************************************************)
Principals == MsgClients \cup {ctx.user : ctx \in Callers}

\* Threads and messages are well formed, and so is what a request holds.
MessagingTypeOK ==
  /\ runtime \in {"persistent", "demo"}
  /\ threads \in [Threads -> {NoThread} \cup
       {[status |-> s, org |-> MsgClientOrg[c], client |-> c] :
        s \in {"open", "closed"}, c \in MsgClients}]
  /\ messages \in Seq([thread : Threads, client : MsgClients, side : Sides, sender : Principals,
                        read : [Sides -> BOOLEAN], readers : SUBSET Principals])
  /\ msgCalls \in [MsgRequests -> {NoCall}
       \cup [stage : {"opened", "named", "post"}, thread : Threads, ctx : Callers]
       \cup [stage : {"status"}, thread : Threads, to : {"open", "closed"}]]
  /\ counted \in [Threads -> [Sides -> Nat]]

\* However many members and tabs of a client read a thread at once, and
\* however the posts fall between, each message is reported read once by the
\* side it was sent to, or is still in that side's unread badge: what readers
\* were told (the answer of markThreadRead, the count of MessageRead) and the
\* badge of the thread add up to the messages sent, and the client's overall
\* badge counts the messages the badges of their threads count, and no other
\* (a message has one thread, so this is the sum of those badges).
SentTo(t, side) == {n \in DOMAIN messages : messages[n].thread = t /\ messages[n].side # side}

ReceiptsAddUp ==
  /\ \A t \in Threads : threads[t] # NoThread =>
       /\ counted[t]["staff"] + UnreadForStaff(t) = Cardinality(SentTo(t, "staff"))
       /\ counted[t]["client"] + ClientThreadView(t).unread = Cardinality(SentTo(t, "client"))
  /\ \A c \in MsgClients :
       UnreadForClient(c) =
         Cardinality(UNION {UnreadByClient(t) : t \in ThreadsOf(MsgClientOrg[c], c)})

\* A conversation stays between the staff of its organization and its own
\* client: nobody else ever writes a message of it, is shown one or leaves a
\* receipt on one, whoever calls and whatever thread they name.
PartiesOf(t) ==
  {threads[t].client} \cup {ctx.user : ctx \in {c \in Callers : IsStaff(c) /\ c.org = threads[t].org}}

ConversationIsPrivate ==
  /\ \A n \in DOMAIN messages :
       {messages[n].sender} \cup messages[n].readers \subseteq PartiesOf(messages[n].thread)
  /\ runtime = "persistent" => \A ctx \in Callers, t \in Threads :
       MessagesShown(ctx, t) # {} => SenderOf(ctx) \in PartiesOf(t)

=============================================================================
