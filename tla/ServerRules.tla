---------------------------- MODULE ServerRules ----------------------------
(***************************************************************************)
(* The firewall rules of the server: the iptables commands of tun_setup,   *)
(* tun_remove, Router::AddClient and Router::DeleteClient, one step each,  *)
(* over the life of one process after another.                             *)
(*                                                                         *)
(* SIGINT runs its handler on the main thread, in the middle of whatever   *)
(* main is doing: what comes after the handler is what main had left.  A   *)
(* process may also be killed at any step.  A chain is a list: iptables -A *)
(* adds a copy of a rule at its end, -I in front, -D takes away the first  *)
(* that matches, and the rules outlive the process.  The rules name the    *)
(* host's default interface as it was when the process started; the host's *)
(* changes.                                                                *)
(***************************************************************************)
EXTENDS Naturals, Sequences, SequencesExt

CONSTANTS
    Interfaces,   \* interfaces the default route may go out by
    NoInterface,  \* there is no default route
    MaxRuns       \* bound: processes started

ASSUME ServerRulesAssumption ==
    /\ NoInterface \notin Interfaces
    /\ MaxRuns \in Nat

\* The rule of tun_setup, which names no outer interface, and those of AddClient.
ClientKinds == {"nat", "in", "out", "nat6"}
Kinds == {"raw"} \cup ClientKinds

VARIABLES
    current,   \* the interface of the host's default route
    chain,     \* the chain of each rule, in order: the interfaces they name
    ext,       \* context->ExtIfName()
    proc,      \* main: where it is, the commands of AddClient left, whether
               \* the pointer `server' is set and whether IOWorker is stopped
    handler,   \* the signal handler: running or not, commands left
    runs,      \* processes started
    unclean    \* of those, the ones whose end was not their first SIGINT, come
               \* after Server::Run

vars == <<current, chain, ext, proc, handler, runs, unclean>>

NoProcess == [at |-> "down", cmds |-> <<>>, server |-> FALSE, stopped |-> FALSE]
NoHandler == [on |-> FALSE, cmds |-> <<>>]

\* Faulty: the second FORWARD rule is forgotten.
AddCommandsOneWay == <<"nat", "in", "nat6">>

AddCommands == <<"nat", "in", "out", "nat6">>
DeleteCommands == <<"nat", "in", "out", "nat6">>

Init ==
    /\ current \in Interfaces
    /\ chain = [k \in Kinds |-> <<>>]
    /\ ext = NoInterface
    /\ proc = NoProcess
    /\ handler = NoHandler
    /\ runs = 0
    /\ unclean = 0

\* Without an interface's name the command is malformed, and fails.
Appended(k) ==
    IF ext = NoInterface THEN chain ELSE [chain EXCEPT ![k] = Append(@, ext)]

\* Faulty: the rules of the interface that is the default now.
DeletedNow(k) == [chain EXCEPT ![k] = RemoveFirst(@, current)]

Deleted(k) == [chain EXCEPT ![k] = RemoveFirst(@, ext)]

-----------------------------------------------------------------------------
(* main, which stands still while the handler runs.                        *)

At(place) == proc.at = place /\ ~handler.on

GoTo(place) == proc' = [proc EXCEPT !.at = place]

Start ==
    /\ At("down") /\ runs < MaxRuns
    /\ GoTo("start")
    /\ runs' = runs + 1
    /\ UNCHANGED <<current, chain, ext, handler, unclean>>

Setup ==
    /\ At("start")
    /\ chain' = [chain EXCEPT !["raw"] = <<NoInterface>> \o @]
    /\ GoTo("setup")
    /\ UNCHANGED <<current, ext, handler, runs, unclean>>

\* Faulty: the interface is left at the member's initial value.
CaptureNothing ==
    /\ At("setup")
    /\ ext' = "auto"
    /\ GoTo("init")
    /\ UNCHANGED <<current, chain, handler, runs, unclean>>

Capture ==
    /\ At("setup")
    /\ ext' = current
    /\ GoTo("init")
    /\ UNCHANGED <<current, chain, handler, runs, unclean>>

MakeServer ==
    /\ At("init")
    /\ proc' = [proc EXCEPT !.at = "made", !.server = TRUE]
    /\ UNCHANGED <<current, chain, ext, handler, runs, unclean>>

\* The connection is made and bound; when the port is taken Run returns, and the
\* process goes on without a server.
Bind ==
    /\ At("made")
    /\ \E place \in {"bound", "unbound"} : GoTo(place)
    /\ UNCHANGED <<current, chain, ext, handler, runs, unclean>>

AddClient ==
    /\ At("bound")
    /\ proc' = [proc EXCEPT !.at = "adding", !.cmds = AddCommands]
    /\ UNCHANGED <<current, chain, ext, handler, runs, unclean>>

AddRule ==
    /\ At("adding") /\ proc.cmds # <<>>
    /\ chain' = Appended(Head(proc.cmds))
    /\ proc' = [proc EXCEPT !.cmds = Tail(@)]
    /\ UNCHANGED <<current, ext, handler, runs, unclean>>

Ends(clean) ==
    /\ proc' = NoProcess
    /\ handler' = NoHandler
    /\ unclean' = IF clean THEN unclean ELSE unclean + 1

\* Run is over, and logs what is in this->context, which a handler that met it in
\* AddClient has reset.
Added ==
    /\ At("adding") /\ proc.cmds = <<>>
    /\ IF proc.server
       THEN GoTo("serving") /\ UNCHANGED <<handler, unclean>>
       ELSE Ends(FALSE)
    /\ UNCHANGED <<current, chain, ext, runs>>

\* IOWorker::Run returns at once when IOWorker is stopped already.
Return ==
    /\ At("serving") \/ At("unbound")
    /\ proc.stopped
    /\ Ends(FALSE)
    /\ UNCHANGED <<current, chain, ext, runs>>

-----------------------------------------------------------------------------
(* SIGINT, and what ends a process without warning.                        *)

\* Before there is a server, or when it is gone, the handler only stops IOWorker.
Signal ==
    /\ proc.at # "down" /\ ~handler.on
    /\ IF proc.server
       THEN handler' = [on |-> TRUE, cmds |-> DeleteCommands] /\ UNCHANGED proc
       ELSE proc' = [proc EXCEPT !.stopped = TRUE] /\ UNCHANGED handler
    /\ UNCHANGED <<current, chain, ext, runs, unclean>>

DeleteRule ==
    /\ handler.on /\ handler.cmds # <<>>
    /\ chain' = Deleted(Head(handler.cmds))
    /\ handler' = [handler EXCEPT !.cmds = Tail(@)]
    /\ UNCHANGED <<current, ext, proc, runs, unclean>>

\* The rest of Stop.  It crashes when there is no connection yet, and main when
\* it goes on to AddClient without a context.  TunDevice::Close only posts
\* tun_remove, to a thread that IOWorker::Stop may end first; without a loop on
\* the tun device it does nothing.
Stopped ==
    /\ handler.on /\ handler.cmds = <<>>
    /\ CASE proc.at \in {"made", "bound"} ->
                Ends(FALSE) /\ UNCHANGED chain
         [] proc.at = "adding" ->
                /\ proc' = [proc EXCEPT !.server = FALSE, !.stopped = TRUE]
                /\ handler' = NoHandler
                /\ UNCHANGED <<chain, unclean>>
         [] proc.at = "unbound" ->
                Ends(~proc.stopped) /\ UNCHANGED chain
         [] proc.at = "serving" ->
                /\ Ends(~proc.stopped)
                /\ \/ UNCHANGED chain
                   \/ /\ ~proc.stopped
                      /\ chain' = [chain EXCEPT !["raw"] = RemoveFirst(@, NoInterface)]
    /\ UNCHANGED <<current, ext, runs>>

Kill ==
    /\ proc.at # "down"
    /\ Ends(FALSE)
    /\ UNCHANGED <<current, chain, ext, runs>>

Roam ==
    /\ current' \in Interfaces \cup {NoInterface}
    /\ UNCHANGED <<chain, ext, proc, handler, runs, unclean>>

Next ==
    \/ Start \/ Setup \/ Capture \/ MakeServer \/ Bind \/ AddClient \/ AddRule
    \/ Added \/ Return \/ Signal \/ DeleteRule \/ Stopped \/ Kill \/ Roam

Spec == Init /\ [][Next]_vars

-----------------------------------------------------------------------------
TypeOK ==
    /\ current \in Interfaces \cup {NoInterface}
    /\ chain \in [Kinds -> Seq(Interfaces \cup {NoInterface})]
    /\ ext \in Interfaces \cup {NoInterface}
    /\ proc.at \in {"down", "start", "setup", "init", "made", "bound", "unbound",
                    "adding", "serving"}
    /\ proc.server \in BOOLEAN /\ proc.stopped \in BOOLEAN
    /\ handler.on \in BOOLEAN
    /\ runs \in 0 .. MaxRuns
    /\ unclean \in 0 .. runs

\* A server that runs has all its rules, whatever earlier processes left behind
\* or took away.
RulesAreThere ==
    At("serving") =>
        /\ chain["raw"] # <<>>
        /\ ext # NoInterface => \A k \in ClientKinds : ext \in ToSet(chain[k])

\* The rules of a client do not pile up: those that are left over come one from
\* each process that did not get to stop its server, although the default
\* interface has changed in between.
NothingPilesUp ==
    \A k \in ClientKinds :
        Len(chain[k]) <= unclean + (IF proc.at \in {"adding", "serving"} THEN 1 ELSE 0)
=============================================================================
