------------------------------ MODULE MonitorPage ------------------------------
(***************************************************************************)
(* What the pages of the dashboard show of the monitor's state.  Every     *)
(* callback of the spin thread, and every bias request of the loop, ends   *)
(* in a broadcast: a payload is made of the state under the lock, and      *)
(* handed to the loop afterwards.  The loop starts the broadcasts in the   *)
(* order they were handed in; each sends to one page after the other, and  *)
(* is suspended while a page is slow, so that a later one can overtake it. *)
(* A page that connects is sent the whole state by the loop, after it has  *)
(* been added to those that get payloads.                                  *)
(*                                                                         *)
(* The state is two version numbers: of the last wrench, and of all the    *)
(* rest.  A payload has the wrench and its history in it, and JSON has no  *)
(* text for a number that is not finite: a page cannot read such a one.    *)
(***************************************************************************)
EXTENDS Naturals, Sequences, FiniteSets

CONSTANTS
    Pages,       \* the pages that are open in a browser
    Tasks,       \* bound: the broadcasts that are suspended at once
    MaxWrench,   \* bound: the wrenches
    MaxRest,     \* bound: the changes of the rest of the state
    MaxQueue,    \* bound: the payloads the loop has been handed
    MaxLost      \* bound: the connections lost

PageAssumption ==
    MaxWrench \in Nat /\ MaxRest \in Nat /\ MaxQueue \in Nat \ {0} /\ MaxLost \in Nat

Threads == {"spin", "loop"}
Nothing == [type |-> "nothing"]

VARIABLES
    version, \* the version of the last wrench
    finite,  \* the wrench and its history are of finite numbers
    rest,    \* the version of the checks, diagnostics, interfaces and so on
    hold,    \* the payload that a thread has made and not handed in
    queue,   \* the payloads that the loop has been handed
    sending, \* what a suspended broadcast sends, and the pages it has left
    socket,  \* external: of each page, "closed", "added" or "open"
    page,    \* external: what each page shows
    lost     \* bound: the connections lost

vars == <<version, finite, rest, hold, queue, sending, socket, page, lost>>

Payloads ==
    [type : {"full"}, wrench : Nat, finite : BOOLEAN, rest : Nat, by : Threads]
        \cup [type : {"wrench"}, wrench : Nat, finite : BOOLEAN, by : Threads]

TypeOK ==
    /\ version \in 0 .. MaxWrench /\ rest \in 0 .. MaxRest
    /\ finite \in BOOLEAN
    /\ hold \in [Threads -> Payloads \cup {Nothing}]
    /\ queue \in Seq(Payloads) /\ Len(queue) <= MaxQueue
    /\ sending \in [Tasks -> [payload : Payloads, left : SUBSET Pages] \cup {Nothing}]
    /\ socket \in [Pages -> {"closed", "added", "open"}]
    /\ page \in [Pages -> [wrench : 0 .. version, rest : 0 .. rest,
                           by : Threads \cup {"first"}]]
    /\ lost \in 0 .. MaxLost

\* No page is there, however long the node has run.
Init ==
    /\ version = 0 /\ rest = 0 /\ finite \in BOOLEAN
    /\ hold = [t \in Threads |-> Nothing]
    /\ queue = <<>> /\ sending = [b \in Tasks |-> Nothing]
    /\ socket = [g \in Pages |-> "closed"]
    /\ page = [g \in Pages |-> [wrench |-> 0, rest |-> 0, by |-> "first"]]
    /\ lost = 0

Full(t) ==
    [type |-> "full", wrench |-> version, finite |-> finite, rest |-> rest, by |-> t]
OnlyWrench(w, f, t) == [type |-> "wrench", wrench |-> w, finite |-> f, by |-> t]

\* _websockets
Connected == {g \in Pages : socket[g] # "closed"}
\* No payload is made for nobody.
Watched == Connected # {}
\* At the bound nothing makes one.
Room == Len(queue) + Cardinality({t \in Threads : hold[t] # Nothing}) < MaxQueue
\* The loop does one thing at a time.
Loop == hold["loop"] = Nothing /\ \A g \in Pages : socket[g] # "added"
Free(t) == hold[t] = Nothing /\ Room /\ (t = "loop" => Loop)

----------------------------------------------------------------------------
(* The state changes, and the payload of it is made. *)

\* _on_diagnostics, _on_interfaces, or a run of the checks, on either thread.
Change(t) ==
    /\ Free(t) /\ rest < MaxRest
    /\ rest' = rest + 1
    /\ hold' = [hold EXCEPT ![t] = IF Watched THEN [Full(t) EXCEPT !.rest = rest + 1]
                                              ELSE Nothing]
    /\ UNCHANGED <<version, finite, queue, sending, socket, page, lost>>

\* _schedule_full_broadcast, of the telemetry timer.
Telemetry ==
    /\ Free("spin") /\ Watched
    /\ hold' = [hold EXCEPT !["spin"] = Full("spin")]
    /\ UNCHANGED <<version, finite, rest, queue, sending, socket, page, lost>>

\* _on_wrench: one that comes too early after the last one sent is not sent.  One that
\* is not finite is sent like the others, and stays in the history until later ones
\* have pushed it out.
OnWrench(f, early) ==
    /\ Free("spin") /\ version < MaxWrench
    /\ version' = version + 1 /\ finite' = f
    /\ hold' = [hold EXCEPT !["spin"] =
                    IF Watched /\ ~early THEN OnlyWrench(version + 1, f, "spin") ELSE Nothing]
    /\ UNCHANGED <<rest, queue, sending, socket, page, lost>>

\* run_coroutine_threadsafe
HandIn(t) ==
    /\ hold[t] # Nothing
    /\ queue' = Append(queue, hold[t])
    /\ hold' = [hold EXCEPT ![t] = Nothing]
    /\ UNCHANGED <<version, finite, rest, sending, socket, page, lost>>

----------------------------------------------------------------------------
(* The loop and the pages. *)

\* Mutant: a full payload does not show the wrench.
ShowRest(g, p) ==
    CASE ~p.finite -> page[g]
      [] p.finite /\ p.type = "full" -> [page[g] EXCEPT !.rest = p.rest, !.by = p.by]
      [] p.finite /\ p.type = "wrench" -> [page[g] EXCEPT !.wrench = p.wrench]

\* onmessage: JSON.parse throws at what is not finite; applyFull and applyWrench.
Show(g, p) ==
    CASE ~p.finite -> page[g]
      [] p.finite /\ p.type = "full" -> [wrench |-> p.wrench, rest |-> p.rest, by |-> p.by]
      [] p.finite /\ p.type = "wrench" -> [page[g] EXCEPT !.wrench = p.wrench]

\* A payload is written to some pages.
Send(p, to) == page' = [g \in Pages |-> IF g \in to THEN Show(g, p) ELSE page[g]]
Unsent(p, left) == IF left = {} THEN Nothing ELSE [payload |-> p, left |-> left]

\* _broadcast, to the pages that are there when it starts, in any order.  It is
\* suspended, before or after it has written, where a send has to wait.
Broadcast ==
    /\ Loop /\ queue # <<>>
    /\ queue' = Tail(queue)
    /\ \E to \in SUBSET Connected :
        /\ Send(Head(queue), to)
        /\ \/ to = Connected /\ UNCHANGED sending
           \/ /\ to # Connected
              /\ \E b \in Tasks :
                    /\ sending[b] = Nothing
                    /\ sending' =
                        [sending EXCEPT ![b] = Unsent(Head(queue), Connected \ to)]
    /\ UNCHANGED <<version, finite, rest, hold, socket, lost>>

\* The page it waited for has taken its message, and it goes on to others.
Resume(b) ==
    /\ Loop /\ sending[b] # Nothing
    /\ \E to \in SUBSET sending[b].left \ {{}} :
        /\ Send(sending[b].payload, to)
        /\ sending' =
            [sending EXCEPT ![b] = Unsent(sending[b].payload, sending[b].left \ to)]
    /\ UNCHANGED <<version, finite, rest, hold, queue, socket, lost>>

\* The handler of a new connection adds it and then sends its first message; the
\* loop does nothing else between the two.
Connect(g) ==
    /\ Loop /\ socket[g] = "closed"
    /\ socket' = [socket EXCEPT ![g] = "added"]
    /\ UNCHANGED <<version, finite, rest, hold, queue, sending, page, lost>>

FirstMessage(g) ==
    /\ socket[g] = "added"
    /\ socket' = [socket EXCEPT ![g] = "open"]
    /\ Send(Full("first"), {g})
    /\ UNCHANGED <<version, finite, rest, hold, queue, sending, lost>>

\* A suspended broadcast fails at the connection that is gone.
Without(g) ==
    [b \in Tasks |-> IF sending[b] = Nothing THEN Nothing
                     ELSE Unsent(sending[b].payload, sending[b].left \ {g})]

\* The page connects again by itself; what is in the queue will be sent to it.
Lose(g) ==
    /\ Loop /\ socket[g] = "open" /\ lost < MaxLost
    /\ socket' = [socket EXCEPT ![g] = "closed"] /\ lost' = lost + 1
    /\ sending' = Without(g)
    /\ UNCHANGED <<version, finite, rest, hold, queue, page>>

SpinStep ==
    \/ \E f, early \in BOOLEAN : OnWrench(f, early)
    \/ Telemetry \/ Change("spin") \/ HandIn("spin")
LoopStep ==
    \/ Change("loop") \/ HandIn("loop") \/ Broadcast
    \/ \E b \in Tasks : Resume(b)
    \/ \E g \in Pages : Connect(g) \/ FirstMessage(g) \/ Lose(g)

Next == SpinStep \/ LoopStep

Spec == Init /\ [][Next]_vars

----------------------------------------------------------------------------
(* Properties. *)

\* A page goes back to an older state only from what one thread has made a payload
\* of to what the other had made one of earlier, around a bias request; or from its
\* first message to a payload that waited while it connected; or to what a broadcast
\* sends late that was suspended before it got to the page.
BackOnlyByRace ==
    [][\A g \in Pages : page'[g].rest < page[g].rest =>
        \/ page'[g].by # page[g].by
        \/ \E b \in Tasks : Resume(b) /\ g \in sending[b].left]_vars

\* A payload on its way is of a state the node had, and full ones of one thread are
\* handed to the loop in the order of the states they are of.
QueueInOrder ==
    \A i, j \in 1 .. Len(queue) :
        i < j /\ queue[i].type = "full" /\ queue[j].type = "full"
              /\ queue[i].by = queue[j].by =>
            queue[i].rest <= queue[j].rest /\ queue[i].wrench <= queue[j].wrench

\* When the state changes no more every page comes to show it, though a wrench was
\* held back, payloads overtook each other and connections were lost: unless the
\* history of the wrench keeps a number that is not finite, which no page can read.
PageCatchesUp ==
    <>[]finite => <>[](\A g \in Pages : page[g].wrench = version /\ page[g].rest = rest)
================================================================================
