------------------------------- MODULE Realtime -------------------------------
(***************************************************************************)
(* The channel hub of the API process (realtime/channels.py) and the handler   *)
(* of a web socket (realtime/ws.py): a dictionary from sockets to sets of       *)
(* channels, read by publishers that wait for every single send and changed by *)
(* the handlers meanwhile.                                                   *)
(*                                                                          *)
(* A publisher iterates over a copy of the dictionary, not of the sets in it:   *)
(* the sets are objects.  subs[c] lists the sets a socket ever had; the last    *)
(* one is the one in the dictionary.  The order of a snapshot is left open.     *)
(***************************************************************************)
EXTENDS Naturals, FiniteSets, Sequences

CONSTANTS
    Clients,            \* sockets; each connects once
    Channels,           \* KNOWN_CHANNELS
    Ticks,              \* the channel of the ticks
    Unlisted,            \* a name that is none of them
    Asked,              \* the sets of names a socket may ask for
    MaxRequests,        \* bound on the changes the sockets ask for
    Calls               \* bound on the publish calls

VARIABLES
    registry,   \* the keys of _clients
    subs,       \* the sets of channels a socket had
    handler,    \* where the handler of a socket is
    peer,       \* whether somebody is at the other end
    asked,      \* requests made
    task        \* the publish calls

rtVars == <<registry, subs, handler, peer, asked, task>>

Publishers == 1..Calls
Current(c) == subs[c][Len(subs[c])]
Listening(c, channel) == c \in registry /\ channel \in Current(c)
NoTask == [at |-> "none", todo |-> {}, to |-> Unlisted, dead |-> {}, owed |-> {}]

RtInit ==
    /\ registry = {} /\ subs = [c \in Clients |-> <<>>]
    /\ handler = [c \in Clients |-> "none"] /\ peer = [c \in Clients |-> "none"]
    /\ asked = 0
    /\ task = [p \in Publishers |-> NoTask]

(* Those no longer owed the messages on their way.                            *)
Leave(leavers, tasks) ==
    [p \in Publishers |-> IF tasks[p].at = "done" THEN tasks[p]
                          ELSE [tasks[p] EXCEPT !.owed = @ \ leavers]]

-----------------------------------------------------------------------------
(* The handler of a socket                                                   *)

Connect(c) ==
    /\ peer[c] = "none"
    /\ peer' = [peer EXCEPT ![c] = "open"]
    /\ registry' = registry \cup {c} /\ subs' = [subs EXCEPT ![c] = <<{}>>]
    /\ handler' = [handler EXCEPT ![c] = "receiving"]
    /\ UNCHANGED <<asked, task>>

Request(c) ==
    /\ handler[c] = "receiving" /\ asked < MaxRequests
    /\ asked' = asked + 1
    /\ handler' = [handler EXCEPT ![c] = "replying"]

(* subscribe: a socket that is not in the dictionary (any more) is put there     *)
(* with a new set; unknown names are refused.                                *)
Subscribe(c, names) ==
    /\ Request(c)
    /\ subs' = IF c \in registry THEN [subs EXCEPT ![c][Len(subs[c])] = @ \cup (names \cap Channels)]
               ELSE [subs EXCEPT ![c] = Append(@, names \cap Channels)]
    /\ registry' = registry \cup {c}
    /\ UNCHANGED <<peer, task>>

(* unsubscribe: names leave the set; a socket without any leaves the dictionary. *)
Unsubscribe(c, names) ==
    /\ Request(c)
    /\ IF c \notin registry THEN UNCHANGED <<registry, subs, task>>
       ELSE /\ subs' = [subs EXCEPT ![c][Len(subs[c])] = @ \ names]
            /\ registry' = IF Current(c) \subseteq names THEN registry \ {c} ELSE registry
            /\ task' = Leave(IF Ticks \in names THEN {c} ELSE {}, task)
    /\ UNCHANGED peer

(* The reply is sent; if it cannot be, the handler ends by its finally.        *)
Reply(c) ==
    /\ handler[c] = "replying"
    /\ IF peer[c] = "open"
       THEN handler' = [handler EXCEPT ![c] = "receiving"] /\ UNCHANGED registry
       ELSE handler' = [handler EXCEPT ![c] = "ended"] /\ registry' = registry \ {c}
    /\ UNCHANGED <<subs, peer, asked, task>>

(* The other end goes away; the handler notices when it waits for a frame.      *)
Gone(c) ==
    /\ peer[c] = "open"
    /\ peer' = [peer EXCEPT ![c] = "gone"] /\ task' = Leave({c}, task)
    /\ UNCHANGED <<registry, subs, handler, asked>>

HangUp(c) ==
    /\ handler[c] = "receiving" /\ peer[c] = "gone"
    /\ handler' = [handler EXCEPT ![c] = "ended"] /\ registry' = registry \ {c}
    /\ UNCHANGED <<subs, peer, asked, task>>

-----------------------------------------------------------------------------
(* publish                                                                   *)

(* publish, on the channel of the ticks: TickPublisher schedules it and does not  *)
(* wait.  The list of sockets is taken when it begins.                       *)
Publish(p) ==
    /\ task[p].at = "none" /\ \A q \in 1..(p - 1) : task[q].at # "none"
    /\ task' = [task EXCEPT ![p] = [NoTask EXCEPT
                   !.at = "running", !.todo = {<<c, Len(subs[c])>> : c \in registry},
                   !.owed = {c \in registry : Listening(c, Ticks) /\ peer[c] = "open"}]]
    /\ UNCHANGED <<registry, subs, handler, peer, asked>>

(* Those of the list whose set has the channel now; the others are skipped.      *)
Due(p) == {next \in task[p].todo : Ticks \in subs[next[1]][next[2]]}

SendNext(p) ==
    /\ task[p].at = "running"
    /\ \E next \in Due(p) :
         task' = [task EXCEPT ![p].at = "sending", ![p].to = next[1], ![p].todo = @ \ {next}]
    /\ UNCHANGED <<registry, subs, handler, peer, asked>>

(* Slip: an exception of a send ends the round.                              *)
SendReturnsOrEnds(p) ==
    /\ task[p].at = "sending"
    /\ LET c == task[p].to IN
       task' = IF peer[c] = "open" THEN [task EXCEPT ![p].at = "running", ![p].owed = @ \ {c}]
               ELSE [task EXCEPT ![p].at = "running", ![p].dead = {c}, ![p].todo = {}]
    /\ UNCHANGED <<registry, subs, handler, peer, asked>>

(* A send returns; to one who is gone it raises, or is buffered in vain.        *)
SendReturns(p) ==
    /\ task[p].at = "sending"
    /\ LET c == task[p].to IN
       \/ /\ peer[c] = "open"
          /\ task' = [task EXCEPT ![p].at = "running", ![p].owed = @ \ {c}]
       \/ /\ peer[c] = "gone"
          /\ \E dead \in {{}, {c}} :
               task' = [task EXCEPT ![p].at = "running", ![p].dead = @ \cup dead]
    /\ UNCHANGED <<registry, subs, handler, peer, asked>>

(* The dead are dropped at the end, whoever they are by then.                 *)
Finish(p) ==
    /\ task[p].at = "running" /\ Due(p) = {}
    /\ registry' = registry \ task[p].dead
    /\ task' = Leave(task[p].dead, [task EXCEPT ![p] = [NoTask EXCEPT !.at = "done", !.owed = task[p].owed]])
    /\ UNCHANGED <<subs, handler, peer, asked>>

Handle(c) == Reply(c) \/ HangUp(c)
Deliver(p) == SendNext(p) \/ SendReturns(p) \/ Finish(p)

RtNext ==
    \/ \E c \in Clients :
         \/ Connect(c) \/ Gone(c) \/ Handle(c)
         \/ \E names \in Asked : Subscribe(c, names) \/ Unsubscribe(c, names)
    \/ \E p \in Publishers : Deliver(p) \/ Publish(p)

(* The event loop resumes every coroutine that can go on; a send returns or      *)
(* raises in the end.                                                       *)
RtFairness ==
    /\ \A c \in Clients : WF_rtVars(Handle(c))
    /\ \A p \in Publishers : WF_rtVars(Deliver(p))

-----------------------------------------------------------------------------
(* Properties                                                               *)

(* A message reaches the right audience.  Whoever listened when a publish began,   *)
(* and neither left the channel nor went away until it ended, got it, whatever   *)
(* the others did meanwhile; and no send is begun to one who has unsubscribed,   *)
(* though the publisher took its list of sockets earlier.                      *)
RightAudience ==
    /\ [](\A p \in Publishers : task[p].at = "done" => task[p].owed = {})
    /\ [][\A p \in Publishers, c \in Clients :
            task[p].at = "running" /\ task'[p].at = "sending" /\ task'[p].to = c =>
              Listening(c, Ticks) \/ peer[c] = "gone"]_rtVars

(* One who is gone is taken out of the hub for good, whichever of a publisher    *)
(* and its own handler notices first and whatever it still asks for.           *)
GoneAreForgotten ==
    \A c \in Clients : peer[c] = "gone" ~> [](c \notin registry)

(* What the hub owes its clients, those who stay and those who are gone.           *)
HubServes == RightAudience /\ GoneAreForgotten

=============================================================================
