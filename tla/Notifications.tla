--------------------------- MODULE Notifications ---------------------------
(***************************************************************************)
(* The notification service (notification-service) and the queue the other *)
(* services publish to (shared/notify).                                    *)
(*                                                                         *)
(* The process loads its templates, connects to the broker, giving up      *)
(* after MAX_RETRIES refusals, and consumes the queue without              *)
(* acknowledging: the broker forgets a message when it hands it over.  A   *)
(* message is parsed asynchronously, so several are handled at a time, and *)
(* is then sent to each of its receivers by calls nobody waits for.  Such  *)
(* a call that fails is an unhandled rejection, which ends the process;    *)
(* the deployment starts it again.                                         *)
(***************************************************************************)
EXTENDS Naturals, Sequences, SequencesExt

CONSTANTS Message, Receiver,
          to,             \* the receivers of a message
          Renders,        \* messages that parse and whose template exists
          MAX_RETRIES,
          MaxRefusals,    \* bound: connections the broker refuses
          MaxKills        \* bound: times the process is killed from outside

\* A message has receivers; the counts are numbers.
ASSUME NotificationsAssumption ==
    /\ to \in [Message -> SUBSET Receiver] /\ Renders \subseteq Message
    /\ MAX_RETRIES \in Nat /\ MaxRefusals \in Nat /\ MaxKills \in Nat

VARIABLES published,      \* messages the services have published
          queue,          \* the durable queue
          process, retries,
          handling,       \* messages whose callback awaits the parser
          sending,        \* calls to the mail or SMS provider
          sent,           \* how often a receiver was sent a message
          failed,         \* history: calls the provider refused
          refusals, kills

vars == <<published, queue, process, retries, handling, sending, sent, failed,
          refusals, kills>>

Call == {c \in Message \X Receiver : c[2] \in to[c[1]]}

Init ==
    /\ published = {} /\ queue = << >>
    /\ process = "down" /\ retries = 0
    /\ handling = {} /\ sending = {} /\ sent = [c \in Call |-> 0] /\ failed = {}
    /\ refusals = 0 /\ kills = 0

-----------------------------------------------------------------------------
\* Notify.Send of a Go service.  A publication that fails is only logged.
Send(m) ==
    /\ m \notin published
    /\ published' = published \cup {m}
    /\ queue' = Append(queue, m)
    /\ UNCHANGED <<process, retries, handling, sending, sent, failed, refusals, kills>>

\* The configuration is valid and the templates are loaded.
Start ==
    /\ process = "down"
    /\ process' = "connecting" /\ retries' = 0
    /\ UNCHANGED <<published, queue, handling, sending, sent, failed, refusals, kills>>

\* Mutant: the loop ends with the last retry, without a channel and without an error.
ConnectBeforeLast ==
    /\ process = "connecting" /\ retries < MAX_RETRIES
    /\ process' = "consuming"
    /\ UNCHANGED <<published, queue, retries, handling, sending, sent, failed, refusals, kills>>

Connect ==
    /\ process = "connecting"
    /\ process' = "consuming"
    /\ UNCHANGED <<published, queue, retries, handling, sending, sent, failed, refusals, kills>>

\* Mutant: one retry too many.
ConnectRefusedOnceMore ==
    /\ process = "connecting" /\ refusals < MaxRefusals
    /\ refusals' = refusals + 1
    /\ IF retries <= MAX_RETRIES
       THEN retries' = retries + 1 /\ UNCHANGED process
       ELSE process' = "down" /\ UNCHANGED retries
    /\ UNCHANGED <<published, queue, handling, sending, sent, failed, kills>>

\* ECONNREFUSED: another attempt after two seconds, or the end of the process.
ConnectRefused ==
    /\ process = "connecting" /\ refusals < MaxRefusals
    /\ refusals' = refusals + 1
    /\ IF retries < MAX_RETRIES
       THEN retries' = retries + 1 /\ UNCHANGED process
       ELSE process' = "down" /\ UNCHANGED retries
    /\ UNCHANGED <<published, queue, handling, sending, sent, failed, kills>>

\* consume with noAck: the message leaves the queue with its delivery.
Receive ==
    /\ process = "consuming" /\ queue # << >>
    /\ queue' = Tail(queue)
    /\ handling' = handling \cup {Head(queue)}
    /\ UNCHANGED <<published, process, retries, sending, sent, failed, refusals, kills>>

\* The calls a message makes: one per receiver.
Calls(m) == {<<m, r>> : r \in to[m]}

\* The parser is done.  A message that does not parse or names no template
\* throws; the error is logged and the message dropped.
Handle(m) ==
    /\ m \in handling
    /\ handling' = handling \ {m}
    /\ sending' = IF m \in Renders THEN sending \cup Calls(m) ELSE sending
    /\ UNCHANGED <<published, queue, process, retries, sent, failed, refusals, kills>>

Accepted(c) ==
    /\ c \in sending
    /\ sending' = sending \ {c}
    /\ sent' = [sent EXCEPT ![c] = @ + 1]
    /\ UNCHANGED <<published, queue, process, retries, handling, failed, refusals, kills>>

\* Mutant: messages being handled go back to the queue.
ExitRequeueing(S) ==
    /\ process' = "down"
    /\ handling' = {} /\ sending' = {}
    /\ sent' = [c \in Call |-> IF c \in S THEN sent[c] + 1 ELSE sent[c]]
    /\ queue' = queue \o SetToSeq({c[1] : c \in sending})

\* The process ends.  The calls S of those under way have reached the provider.
Exit(S) ==
    /\ process' = "down"
    /\ handling' = {} /\ sending' = {}
    /\ sent' = [c \in Call |-> IF c \in S THEN sent[c] + 1 ELSE sent[c]]
    /\ UNCHANGED queue

\* The provider refuses a call, or cannot be reached.
Rejected(c) ==
    /\ c \in sending
    /\ failed' = failed \cup {c}
    /\ \E S \in SUBSET (sending \ {c}) : Exit(S)
    /\ UNCHANGED <<published, retries, refusals, kills>>

Kill ==
    /\ process # "down" /\ kills < MaxKills
    /\ kills' = kills + 1
    /\ \E S \in SUBSET sending : Exit(S)
    /\ UNCHANGED <<published, retries, failed, refusals>>

Next ==
    \/ \E m \in Message : Send(m) \/ Handle(m)
    \/ Start \/ Connect \/ ConnectRefused \/ Receive \/ Kill
    \/ \E c \in Call : Accepted(c) \/ Rejected(c)

\* The deployment restarts the process; the broker and the event loop go on.
Fairness ==
    /\ WF_vars(Start) /\ WF_vars(Connect) /\ WF_vars(Receive)
    /\ \A m \in Message : WF_vars(Handle(m))
    /\ \A c \in Call : WF_vars(Accepted(c))

Spec == Init /\ [][Next]_vars /\ Fairness

-----------------------------------------------------------------------------
Queued == Range(queue)

TypeOK ==
    /\ published \subseteq Message /\ queue \in Seq(published)
    /\ process \in {"down", "connecting", "consuming"} /\ retries \in 0..MAX_RETRIES
    /\ handling \subseteq published /\ sending \subseteq Call /\ failed \subseteq Call
    /\ sent \in [Call -> Nat] /\ refusals \in 0..MaxRefusals /\ kills \in 0..MaxKills

\* No receiver is sent a message twice, wherever the process ended.
NotSentTwice == \A c \in Call : sent[c] <= 1

Accounted(m) ==
    \/ m \in Queued \/ m \in handling
    \/ \A r \in to[m] : LET c == <<m, r>> IN c \in sending \/ c \in failed \/ sent[c] = 1

\* As long as the process was not ended, by a kill or by a refused call, every
\* receiver of every message that renders was sent it or still will be.
NothingLostWhileUp ==
    kills = 0 /\ failed = {} => \A m \in published \cap Renders : Accounted(m)

\* Both, of the queue and the calls of notification-service: nothing twice, nothing lost.
MessagesAccounted == NotSentTwice /\ NothingLostWhileUp

\* A message leaves the queue in the end, also when those before it do not
\* parse, the broker refuses connections and the process is killed.
QueueDrains == \A m \in Message : (m \in Queued) ~> (m \notin Queued)

\* Errors of one message are caught: they lose no other message.
FailureIsLocal ==
    kills = 0 => \A m \in published \cap Renders : Accounted(m)

=============================================================================
