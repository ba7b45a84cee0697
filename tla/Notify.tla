------------------------------- MODULE Notify -------------------------------
(***************************************************************************)
(* Events, the inbox and the delivery to integrations (gpp-notify): emit   *)
(* and dispatch one statement and one HTTP request at a time.              *)
(***************************************************************************)
EXTENDS Commands, Bags

VARIABLES
  events,        \* the table events: [type, target, dispatched]
  inbox,         \* the table notifications: [event, to, read]
  integrations,  \* the table integrations, a function from row ids: [backend, types]
  deliveryLog,   \* the table integration_log: [event, backend, status]
  arrived        \* external: how often a request <<event, backend>> reached the backend

notifyVars == <<events, inbox, integrations, deliveryLog, arrived>>

Outbox   == <<"outbox">>
AllTypes == "*"
EventTypes == {"changeset.promoted", "review.approved", "review.rejected", "review.changes_requested"}
Outcome  == {"delivered", "refused", "unreachable"}

Subscribed(i, type) == AllTypes \in i.types \/ type \in i.types

Mailbox(who) == {n \in DOMAIN inbox : inbox[n].to = who}
-----------------------------------------------------------------------------
(* What a command emits.                                                   *)
EventType(c) ==
  CASE c.op = "promote" -> "changeset.promoted"
    [] c.op = "decide" /\ c.decision = "approve" -> "review.approved"
    [] c.op = "decide" /\ c.decision = "reject"  -> "review.rejected"
    [] c.op = "decide" /\ c.decision = "request_changes" -> "review.changes_requested"

(* emit: the event, then one row of the inbox for each recipient.          *)
EmitEvent(p) ==
  /\ At(p, "emit")
  /\ events' = Append(events, [type |-> EventType(Cmd(p)), target |-> Cmd(p).cs, dispatched |-> FALSE])
  /\ IF proc[p].to = {} THEN Continue(p, Return(p))
     ELSE Continue(p, Goto(p, "emit.notify", Len(events) + 1))
  /\ UNCHANGED <<inbox, integrations, deliveryLog, arrived>>

EmitNotify(p) ==
  /\ At(p, "emit.notify")
  /\ \E to \in proc[p].to :
       LET left == proc[p].to \ {to}
       IN  /\ \A other \in left : to[1] <= other[1]
           /\ inbox' = Append(inbox, [event |-> Mem(p), to |-> to[2], read |-> FALSE])
           /\ Continue(p, [IF left = {} THEN Return(p) ELSE proc[p] EXCEPT !.to = left])
  /\ UNCHANGED <<events, integrations, deliveryLog, arrived>>
-----------------------------------------------------------------------------
(* dispatch: the undispatched events and then the integrations are read;   *)
(* each event is sent to each subscriber and logged, and then marked, sent *)
(* or not.                                                                 *)
(* Mutant of Undispatched: what was dispatched is dispatched again.         *)
Undispatched_All == DOMAIN events

Undispatched == {e \in DOMAIN events : ~events[e].dispatched}

Dispatch(p, c) ==
  /\ c.op = "dispatch"
  /\ Begin(p, c, "dispatch.integrations", Outbox, Undispatched, <<>>)
  /\ UNCHANGED notifyVars

Subscribers(from, e) == {k \in DOMAIN from : Subscribed(from[k], events[e].type)}

(* The event and the subscriber whose turn it is: the lowest numbers left. *)
Event(p)  == Min(Mem(p).left)
Target(p) == Min(Mem(p).subs)
Receiver(p) == Mem(p).from[Target(p)].backend
Tried(p)  == [event |-> Event(p), backend |-> Receiver(p), status |-> Mem(p).status]

(* Mutant of DispatchLog: the first subscriber that is down ends the round. *)
DispatchLog_GivesUp(p) ==
  LET subs == IF Mem(p).status = "failed" THEN {} ELSE Mem(p).subs \ {Target(p)}
  IN  /\ At(p, "dispatch.log")
      /\ deliveryLog' = deliveryLog \cup {Tried(p)}
      /\ Continue(p, Goto(p, IF subs = {} THEN "dispatch.mark" ELSE "dispatch.send",
                          [left |-> Mem(p).left, from |-> Mem(p).from, subs |-> subs]))
      /\ UNCHANGED <<events, inbox, integrations, arrived>>

(* Where dispatch stands with the events left: before a request, before    *)
(* the mark of the first, or at the end.                                   *)
Sending(p, left, from) ==
  IF left = {} THEN Return(p)
  ELSE LET subs == Subscribers(from, Min(left))
       IN  Goto(p, IF subs = {} THEN "dispatch.mark" ELSE "dispatch.send",
                [left |-> left, from |-> from, subs |-> subs])

DispatchIntegrations(p) ==
  /\ At(p, "dispatch.integrations")
  /\ Continue(p, Sending(p, Mem(p), integrations))
  /\ UNCHANGED notifyVars

(* A backend that answers at all counts as sent, whatever it answers.      *)
DispatchSend(p) ==
  /\ At(p, "dispatch.send")
  /\ \E outcome \in Outcome :
       /\ arrived' = IF outcome = "unreachable" THEN arrived
                     ELSE arrived (+) SetToBag({<<Event(p), Receiver(p)>>})
       /\ Continue(p, Goto(p, "dispatch.log",
                           Replaced(Mem(p), "status", IF outcome = "unreachable" THEN "failed" ELSE "sent")))
  /\ UNCHANGED <<events, inbox, integrations, deliveryLog>>

DispatchLog(p) ==
  LET subs == Mem(p).subs \ {Target(p)}
  IN  /\ At(p, "dispatch.log")
      /\ deliveryLog' = deliveryLog \cup {Tried(p)}
      /\ Continue(p, Goto(p, IF subs = {} THEN "dispatch.mark" ELSE "dispatch.send",
                          [left |-> Mem(p).left, from |-> Mem(p).from, subs |-> subs]))
      /\ UNCHANGED <<events, inbox, integrations, arrived>>

DispatchMark(p) ==
  /\ At(p, "dispatch.mark")
  /\ events' = [events EXCEPT ![Event(p)].dispatched = TRUE]
  /\ Continue(p, Sending(p, Mem(p).left \ {Event(p)}, Mem(p).from))
  /\ UNCHANGED <<inbox, integrations, deliveryLog, arrived>>
-----------------------------------------------------------------------------
Without(backend) ==
  [k \in {i \in DOMAIN integrations : integrations[i].backend # backend} |-> integrations[k]]

AddIntegration(p, c) ==
  /\ c.op = "integrate"
  /\ Only(p, c)
  /\ integrations' = Replaced(Without(c.backend), NextId(integrations), [backend |-> c.backend, types |-> c.types])
  /\ UNCHANGED <<events, inbox, deliveryLog, arrived>>

RemoveIntegration(p, c) ==
  /\ c.op = "disconnect"
  /\ Only(p, c)
  /\ integrations' = Without(c.backend)
  /\ UNCHANGED <<events, inbox, deliveryLog, arrived>>

(* ack takes any number, ack_all what is addressed to the caller.          *)
Ack(p, c) ==
  /\ c.op = "ack"
  /\ Only(p, c)
  /\ inbox' = [n \in DOMAIN inbox |-> IF n = c.id THEN [inbox[n] EXCEPT !.read = TRUE] ELSE inbox[n]]
  /\ UNCHANGED <<events, integrations, deliveryLog, arrived>>

AckAll(p, c) ==
  /\ c.op = "ackall"
  /\ Only(p, c)
  /\ inbox' = [n \in DOMAIN inbox |-> IF n \in Mailbox(c.by) THEN [inbox[n] EXCEPT !.read = TRUE] ELSE inbox[n]]
  /\ UNCHANGED <<events, integrations, deliveryLog, arrived>>

NotifyBegin(p, c) ==
  Dispatch(p, c) \/ AddIntegration(p, c) \/ RemoveIntegration(p, c) \/ Ack(p, c) \/ AckAll(p, c)
NotifyStep(p) ==
  \/ EmitEvent(p) \/ EmitNotify(p)
  \/ DispatchIntegrations(p) \/ DispatchSend(p) \/ DispatchLog(p) \/ DispatchMark(p)
-----------------------------------------------------------------------------
(* A notification goes to a person once, and an event reaches a backend at *)
(* most once, unless two dispatches ran at once or one died between a      *)
(* request and the mark of its event.                                      *)
SentOnce ==
  /\ \A m, n \in DOMAIN inbox : inbox[m].event = inbox[n].event /\ inbox[m].to = inbox[n].to => m = n
  /\ \A k \in DOMAIN arrived : arrived[k] > 1 => Outbox \in tainted

(* An event is put aside only after an attempt at every integration        *)
(* subscribed to it when the dispatch began was made and logged.           *)
MarkedAfterTried ==
  [][\A e \in DOMAIN events : events'[e].dispatched /\ ~events[e].dispatched =>
       \E p \in Proc : /\ At(p, "dispatch.mark") /\ Event(p) = e
                       /\ \A k \in Subscribers(Mem(p).from, e) : \E d \in deliveryLog :
                            d.event = e /\ d.backend = Mem(p).from[k].backend]_
    <<cmdVars, notifyVars>>
=============================================================================
