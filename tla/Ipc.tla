-------------------------------- MODULE Ipc ---------------------------------
(***************************************************************************)
(* The transport between a page and the host: hostSend and __IPC_EVENT__   *)
(* (frontend/js/ipc.js), dispatch and the replies                          *)
(* (crates/shell/src/ipc.rs), and the event loop that delivers them        *)
(* (crates/shell/src/main.rs).                                             *)
(*                                                                         *)
(* A page numbers its calls and keeps them pending.  The host handles the  *)
(* messages one at a time on the UI thread; some commands answer there,    *)
(* others spawn a thread that answers later, in any order.  A reply        *)
(* carries the id of the message it answers, which is not the number of    *)
(* the call when the command has a parameter named id: open_binary and     *)
(* remove_binary of the project page do (frontend/js/project.js).          *)
(***************************************************************************)
EXTENDS Integers, Sequences

CONSTANTS
    Sync,       \* commands answered by the handler itself
    Async,      \* commands answered by a spawned thread
    ById,       \* commands whose parameters have a field named `id`
    BinaryIds,  \* the values of that field: ids of binaries in the project
    MaxCalls    \* bound: calls a page makes

IpcAssumption ==
    /\ ById \subseteq Sync \cup Async
    /\ BinaryIds \subseteq Nat
    /\ MaxCalls \in Nat

Calls == 1..MaxCalls

VARIABLES
    nextId,    \* the id of the next call
    pending,   \* the messages of the calls whose promise is open
    settledBy, \* what settled each promise: {} or {the message answered}
    inbox,     \* messages posted to the host, in order
    threads,   \* messages a spawned thread is working on
    outbox,    \* replies on their way through the event loop, in order
    closed     \* the window is gone

wireVars == <<nextId, pending, settledBy, inbox, threads, outbox, closed>>

\* A message: the id field of the envelope, the command, and the call it is.
Message == [id : Nat, cmd : Sync \cup Async, call : Calls]

WireInit ==
    /\ nextId = 1
    /\ pending = {}
    /\ settledBy = [c \in Calls |-> {}]
    /\ inbox = <<>>
    /\ threads = {}
    /\ outbox = <<>>
    /\ closed = FALSE

WireTypeOK ==
    /\ nextId \in 1..(MaxCalls + 1)
    /\ pending \subseteq Message
    /\ settledBy \in [Calls -> {{}} \cup {{m} : m \in Message}]
    /\ inbox \in Seq(Message)
    /\ threads \subseteq Message
    /\ outbox \in Seq(Message)
    /\ closed \in BOOLEAN

\* hostSend builds {id, cmd} and then copies the parameters over it.
WireId(cmd, call) == IF cmd \in ById THEN BinaryIds ELSE {call}

Invoke ==
    /\ ~closed
    /\ nextId <= MaxCalls
    /\ \E cmd \in Sync \cup Async : \E id \in WireId(cmd, nextId) :
          LET m == [id |-> id, cmd |-> cmd, call |-> nextId] IN
          inbox' = Append(inbox, m) /\ pending' = pending \cup {m}
    /\ nextId' = nextId + 1
    /\ UNCHANGED <<settledBy, threads, outbox, closed>>

\* The handler echoes the id it found in the envelope.
ReplyTo(m) == m

Handle ==
    /\ inbox # <<>>
    /\ ~closed
    /\ inbox' = Tail(inbox)
    /\ IF Head(inbox).cmd \in Sync
         THEN /\ outbox' = Append(outbox, ReplyTo(Head(inbox)))
              /\ UNCHANGED threads
         ELSE /\ threads' = threads \cup {Head(inbox)}
              /\ UNCHANGED outbox
    /\ UNCHANGED <<nextId, pending, settledBy, closed>>

\* Mutant: the thread returns without a reply.
ThreadDies(m) ==
    /\ m \in threads
    /\ threads' = threads \ {m}
    /\ UNCHANGED <<nextId, pending, settledBy, inbox, outbox, closed>>

\* A spawned thread replies through the proxy, whether or not the window is
\* still there.
ThreadReplies(m) ==
    /\ m \in threads
    /\ threads' = threads \ {m}
    /\ outbox' = Append(outbox, ReplyTo(m))
    /\ UNCHANGED <<nextId, pending, settledBy, inbox, closed>>

\* Mutant: a reply settles the oldest open promise.
DeliverToOldest ==
    /\ outbox # <<>>
    /\ outbox' = Tail(outbox)
    /\ IF ~closed /\ pending # {}
         THEN LET oldest == CHOOSE m \in pending : \A n \in pending : m.call <= n.call IN
              /\ pending' = pending \ {oldest}
              /\ settledBy' = [settledBy EXCEPT ![oldest.call] = {Head(outbox)}]
         ELSE UNCHANGED <<pending, settledBy>>
    /\ UNCHANGED <<nextId, inbox, threads, closed>>

\* The promise a reply finds under its id.
WaitingFor(reply) == {m \in pending : m.call = reply.id}

\* The event loop evaluates the reply in the page: the promise pending under
\* its id is settled; a reply nobody waits for is ignored.  Without the window
\* it is dropped.
Deliver ==
    /\ outbox # <<>>
    /\ outbox' = Tail(outbox)
    /\ LET reply == Head(outbox) IN
       IF ~closed /\ WaitingFor(reply) # {}
         THEN /\ pending' = pending \ WaitingFor(reply)
              /\ settledBy' = [settledBy EXCEPT ![reply.id] = {reply}]
         ELSE UNCHANGED <<pending, settledBy>>
    /\ UNCHANGED <<nextId, inbox, threads, closed>>

Close ==
    /\ ~closed
    /\ closed' = TRUE
    /\ UNCHANGED <<nextId, pending, settledBy, inbox, threads, outbox>>

WireNext ==
    \/ Invoke \/ Handle \/ Deliver \/ Close
    \/ \E m \in threads : ThreadReplies(m)

\* The UI thread serves its queues and every spawned thread ends.
WireFairness ==
    /\ WF_wireVars(Handle)
    /\ WF_wireVars(Deliver)
    /\ WF_wireVars(\E m \in threads : ThreadReplies(m))

WireSpec == WireInit /\ [][WireNext]_wireVars /\ WireFairness

-----------------------------------------------------------------------------
(* Properties.                                                             *)

\* However the answers overtake each other, a promise is settled by the reply
\* to its own call, or by the reply of a command whose parameter `id` happens
\* to be the promise's number.
OwnReply ==
    \A c \in Calls : \A m \in settledBy[c] : m.call = c \/ (m.cmd \in ById /\ m.id = c)

\* The contract of ipc.js, "DS.invoke(cmd, params) -> Promise<data>": a
\* promise is settled by the reply to its own call and by no other.
ReplyIsTheCalls == \A c \in Calls : \A m \in settledBy[c] : m.call = c

\* Every promise whose message went out under its own number is settled, in a
\* window that stays open.
EveryCallSettles ==
    \A c \in Calls :
        (\E m \in pending : m.call = c /\ m.id = c) ~> (settledBy[c] # {} \/ closed)
=============================================================================
