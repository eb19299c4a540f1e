--------------------------- MODULE SettingsChannel ---------------------------
(***************************************************************************)
(* The settings traffic of Messaging: the server broadcasts NewTimeout and *)
(* UpdateStatus over a fanout exchange; every client applies timeouts and  *)
(* reports its settings, on demand and by its own timer, over a direct     *)
(* exchange.                                                               *)
(*                                                                         *)
(* RabbitMqClient consumes its queue, acknowledging automatically, before  *)
(* anybody has subscribed a handler: what is dispatched then is lost.  A   *)
(* connection's dispatcher hands out one message at a time; timer callbacks*)
(* run on other threads.  The k-th broadcast timeout is the number k, the  *)
(* client's own first value is 0.                                          *)
(***************************************************************************)
EXTENDS Integers, Sequences, SequencesExt

CONSTANTS Clients,
          MaxTimeouts, MaxAsks, MaxReports, MaxRuns  \* bounds

ASSUME BoundsAssumption == /\ MaxTimeouts \in Nat /\ MaxAsks \in Nat
                           /\ MaxReports \in Nat /\ MaxRuns \in Nat

VARIABLES
  client,    \* "down", "bound", "hooked", "ticking", "ready"
  timeout,   \* Settings.Timeout of each client
  report,    \* the message a thread of a client has built, not yet sent
  inbox,     \* the clients' queues
  reports,   \* bound: reports the timer of a client has started
  server,    \* "down", "bound", "ticking", "hooked"
  runs,      \* bound: how often the server was started
  queue,     \* the server's queue
  latest,    \* how many timeouts were broadcast
  asks,      \* how many UpdateStatus were broadcast
  due,       \* history: clients that had their handler at the last NewTimeout
  printed    \* history: the last report the server printed for each client

clientVars == <<client, timeout, report, reports>>
serverVars == <<server, runs, asks, latest, due, printed>>
vars == <<clientVars, serverVars, inbox, queue>>

Threads == {"dispatcher", "timer"}

Command == [kind : {"NewTimeout"}, value : Nat]
           \cup [kind : {"UpdateStatus"}, least : [Clients -> Nat]]
\* guid: FALSE for Guid.Empty; least: no older timeout may be reported.
Report == [from : Clients, by : Threads, guid : BOOLEAN, timeout : Nat,
           least : Nat]
Nothing == [by |-> "none"]

TypeOK ==
  /\ client \in [Clients -> {"down", "bound", "hooked", "ticking", "ready"}]
  /\ timeout \in [Clients -> 0..latest]
  /\ report \in [Clients -> [Threads -> Report \cup {Nothing}]]
  /\ inbox \in [Clients -> Seq(Command)]
  /\ reports \in [Clients -> Nat]
  /\ server \in {"down", "bound", "ticking", "hooked"}
  /\ runs \in Nat
  /\ queue \in Seq(Report)
  /\ latest \in Nat /\ asks \in Nat
  /\ due \subseteq Clients
  /\ printed \in [Clients -> Report \cup {Nothing}]

Hooked(c) == client[c] \in {"hooked", "ticking", "ready"}
-----------------------------------------------------------------------------
Init ==
  /\ client = [c \in Clients |-> "down"]
  /\ timeout = [c \in Clients |-> 0]
  /\ report = [c \in Clients |-> [t \in Threads |-> Nothing]]
  /\ inbox = [c \in Clients |-> << >>]
  /\ reports = [c \in Clients |-> 0]
  /\ server = "down" /\ runs = 0 /\ queue = << >>
  /\ latest = 0 /\ asks = 0 /\ due = {}
  /\ printed = [c \in Clients |-> Nothing]

(* Program.Main of a client: RabbitMqClient binds and consumes its queue,  *)
(* then the proxy's constructor subscribes, starts its timer and, last,    *)
(* chooses its Guid.                                                       *)
ClientStep(c, from, to) ==
  /\ client[c] = from
  /\ client' = [client EXCEPT ![c] = to]
  /\ UNCHANGED <<timeout, report, reports, serverVars, inbox, queue>>

ClientMain(c) == \/ ClientStep(c, "down", "bound")
                 \/ ClientStep(c, "bound", "hooked")
                 \/ ClientStep(c, "hooked", "ticking")
                 \/ ClientStep(c, "ticking", "ready")

(* Msg: the settings as the reporting thread reads them.                   *)
Msg(c, t, least) == [from |-> c, by |-> t, guid |-> client[c] = "ready",
                     timeout |-> timeout[c], least |-> least]

\* Mutant: messages are handed out on several threads, in any order.
DispatchAnyOrder(c) ==
  /\ client[c] # "down" /\ inbox[c] # << >>
  /\ report[c]["dispatcher"] = Nothing
  /\ \E i \in DOMAIN inbox[c] :
       LET m == inbox[c][i]
       IN /\ inbox' = [inbox EXCEPT ![c] = RemoveAt(@, i)]
          /\ \/ /\ ~Hooked(c)
                /\ UNCHANGED <<timeout, report>>
             \/ /\ Hooked(c) /\ m.kind = "NewTimeout"
                /\ timeout' = [timeout EXCEPT ![c] = m.value]
                /\ UNCHANGED report
             \/ /\ Hooked(c) /\ m.kind = "UpdateStatus"
                /\ report' = [report EXCEPT ![c]["dispatcher"] =
                                              Msg(c, "dispatcher", m.least[c])]
                /\ UNCHANGED timeout
  /\ UNCHANGED <<client, reports, serverVars, queue>>

(* The dispatcher hands the head of the queue to OnRecieveEventHandler, or *)
(* to nobody; it waits while its handler sends.                            *)
Dispatch(c) ==
  /\ client[c] # "down" /\ inbox[c] # << >>
  /\ report[c]["dispatcher"] = Nothing
  /\ inbox' = [inbox EXCEPT ![c] = Tail(@)]
  /\ LET m == Head(inbox[c])
     IN \/ /\ ~Hooked(c)
           /\ UNCHANGED <<timeout, report>>
        \/ /\ Hooked(c) /\ m.kind = "NewTimeout"
           /\ timeout' = [timeout EXCEPT ![c] = m.value]
           /\ UNCHANGED report
        \/ /\ Hooked(c) /\ m.kind = "UpdateStatus"
           /\ report' = [report EXCEPT ![c]["dispatcher"] =
                                         Msg(c, "dispatcher", m.least[c])]
           /\ UNCHANGED timeout
  /\ UNCHANGED <<client, reports, serverVars, queue>>

(* TimerCallback of the proxy, every ten seconds.                          *)
ReportByTimer(c) ==
  /\ client[c] \in {"ticking", "ready"}
  /\ report[c]["timer"] = Nothing /\ reports[c] < MaxReports
  /\ reports' = [reports EXCEPT ![c] = @ + 1]
  /\ report' = [report EXCEPT ![c]["timer"] = Msg(c, "timer", 0)]
  /\ UNCHANGED <<client, timeout, serverVars, inbox, queue>>

\* Mutant: sending waits for a consumer.
SendMsgWaits(c, t) ==
  /\ report[c][t] # Nothing /\ server # "down"
  /\ report' = [report EXCEPT ![c][t] = Nothing]
  /\ queue' = Append(queue, report[c][t])
  /\ UNCHANGED <<client, timeout, reports, serverVars, inbox>>

(* SendMsg publishes what was built; without the server's queue it is gone.*)
SendMsg(c, t) ==
  /\ report[c][t] # Nothing
  /\ report' = [report EXCEPT ![c][t] = Nothing]
  /\ queue' = IF server = "down" THEN queue ELSE Append(queue, report[c][t])
  /\ UNCHANGED <<client, timeout, reports, serverVars, inbox>>
-----------------------------------------------------------------------------
(* Program.Main of the server: the queue is consumed first, then Start sets*)
(* the timer and subscribes.                                               *)
ServerMain ==
  /\ \/ server = "down" /\ runs < MaxRuns /\ server' = "bound" /\ runs' = runs + 1
     \/ server = "bound" /\ server' = "ticking" /\ UNCHANGED runs
     \/ server = "ticking" /\ server' = "hooked" /\ UNCHANGED runs
  /\ UNCHANGED <<clientVars, inbox, queue, latest, asks, due, printed>>

\* Mutant: a client that has a command waiting gets no other.
BroadcastToIdle(m) ==
  inbox' = [c \in Clients |-> IF client[c] = "down" \/ inbox[c] # << >>
                              THEN inbox[c] ELSE Append(inbox[c], m)]

\* A fanout exchange copies a message to every queue bound to it.
Broadcast(m) == inbox' = [c \in Clients |-> IF client[c] = "down" THEN inbox[c]
                                            ELSE Append(inbox[c], m)]

(* TimerCallback of the server, by the random numbers it draws.            *)
SendUpdateStatus ==
  /\ server \in {"ticking", "hooked"} /\ asks < MaxAsks
  /\ asks' = asks + 1
  /\ Broadcast([kind |-> "UpdateStatus",
                least |-> [c \in Clients |-> IF c \in due THEN latest ELSE 0]])
  /\ UNCHANGED <<clientVars, server, runs, queue, latest, due, printed>>

SendNewTimeout ==
  /\ server \in {"ticking", "hooked"} /\ latest < MaxTimeouts
  /\ latest' = latest + 1
  /\ Broadcast([kind |-> "NewTimeout", value |-> latest + 1])
  /\ due' = {c \in Clients : Hooked(c)}
  /\ UNCHANGED <<clientVars, server, runs, queue, asks, printed>>

(* The server's OnRecieveEventHandler prints the report, if it is there.    *)
OnServerRecieve ==
  /\ server # "down" /\ queue # << >>
  /\ queue' = Tail(queue)
  /\ printed' = IF server = "hooked"
                THEN [printed EXCEPT ![Head(queue).from] = Head(queue)]
                ELSE printed
  /\ UNCHANGED <<clientVars, server, runs, inbox, latest, asks, due>>

(* Dispose: timer and connection end, and the exclusive queue with them.   *)
ServerExit ==
  /\ server # "down"
  /\ server' = "down" /\ queue' = << >>
  /\ UNCHANGED <<clientVars, runs, inbox, latest, asks, due, printed>>

Next == \/ \E c \in Clients : \/ ClientMain(c) \/ Dispatch(c) \/ ReportByTimer(c)
                              \/ \E t \in Threads : SendMsg(c, t)
        \/ ServerMain \/ SendUpdateStatus \/ SendNewTimeout \/ OnServerRecieve
        \/ ServerExit

Fairness == \A c \in Clients :
              /\ WF_vars(Dispatch(c))
              /\ \A t \in Threads : WF_vars(SendMsg(c, t))

Spec == Init /\ [][Next]_vars
FairSpec == Spec /\ Fairness
-----------------------------------------------------------------------------
(* The timeout a client will have when it has handled what is queued.      *)
Settled(c) ==
  LET T == {i \in DOMAIN inbox[c] : inbox[c][i].kind = "NewTimeout"}
  IN IF T = {} THEN timeout[c]
     ELSE inbox[c][CHOOSE i \in T : \A j \in T : j <= i].value

(* Every client that had its handler when the last timeout was broadcast   *)
(* ends up with that timeout, so all of them agree; neither the order in   *)
(* which they drain their queues nor a restart of the server changes it.   *)
TimeoutsConverge == \A c \in due : Settled(c) = latest

(* An answer to UpdateStatus reports no timeout older than the last one    *)
(* broadcast before the question, all the way to the server's console, and *)
(* the answers of one client arrive in the order of their timeouts (not so *)
(* a report of the timer, which may be built before a newer one and        *)
(* published after it).                                                    *)
AnswersFresh ==
  /\ \A i \in DOMAIN queue : queue[i].timeout >= queue[i].least
  /\ \A c \in Clients :
       /\ report[c]["dispatcher"] # Nothing =>
            report[c]["dispatcher"].timeout >= report[c]["dispatcher"].least
       /\ printed[c] # Nothing => printed[c].timeout >= printed[c].least
  /\ \A i, j \in DOMAIN queue :
       /\ i < j /\ queue[i].from = queue[j].from
       /\ queue[i].by = "dispatcher" /\ queue[j].by = "dispatcher"
       => queue[i].timeout <= queue[j].timeout

(* A client whose handler is set comes to have the last timeout: its queue *)
(* never stays blocked behind a report it sends.                           *)
TimeoutsArrive ==
  \A c \in Clients : c \in due ~> timeout[c] = latest
=============================================================================
