-------------------------- MODULE ServerRules_proofs --------------------------
(***************************************************************************)
(* The safety properties of ServerRules, for any interfaces and any number *)
(* of processes.                                                           *)
(*                                                                         *)
(* Neither property is inductive.  That a server that serves has its rules *)
(* needs that no handler has met it while it was adding them; that rules   *)
(* do not pile up needs to say of each rule, at each step of the process   *)
(* and of its handler, whether the process still has a copy to take away,  *)
(* and that this copy can be found under the interface it was added with.  *)
(***************************************************************************)
EXTENDS ServerRules, ListLemmas

Places == {"down", "start", "setup", "init", "made", "bound", "unbound", "adding",
           "serving"}

Types ==
    /\ current \in Interfaces \cup {NoInterface}
    /\ chain \in [Kinds -> Seq(Interfaces \cup {NoInterface})]
    /\ ext \in Interfaces \cup {NoInterface}
    /\ proc \in [at : Places, cmds : Seq(ClientKinds), server : BOOLEAN, stopped : BOOLEAN]
    /\ handler \in [on : BOOLEAN, cmds : Seq(ClientKinds)]
    /\ runs \in 0 .. MaxRuns
    /\ unclean \in 0 .. runs

\* Where the process is when there is a server, a handler, commands to run; and
\* that one which has not ended is not yet counted.
Flow ==
    /\ proc.at # "down" => unclean < runs
    /\ proc.server => proc.at \in {"made", "bound", "unbound", "adding", "serving"}
    /\ proc.at = "serving" => proc.server /\ proc.cmds = <<>>
    /\ handler.on => proc.server
    /\ IsInjective(proc.cmds) /\ IsInjective(handler.cmds)

\* tun_setup has run, and tun_remove has not.
RawIsThere == proc.at \notin {"down", "start"} => chain["raw"] # <<>>

\* This process has run the command that adds rule k, ...
Adds(k) ==
    /\ ext # NoInterface
    /\ \/ proc.at = "adding" /\ k \notin ToSet(proc.cmds)
       \/ proc.at = "serving"

\* ... and its handler, if it met a server that serves, not yet the one that
\* deletes it.
Owes(k) ==
    /\ Adds(k)
    /\ proc.at = "serving" /\ handler.on => k \in ToSet(handler.cmds)

\* A process finds what it added, under the interface that it captured.  One
\* that was met by its handler while adding gets no further.
Present ==
    \A k \in ClientKinds :
        Owes(k) /\ proc.server /\ (proc.at = "adding" => ~handler.on) =>
            ext \in ToSet(chain[k])

\* One copy for each process that did not end clean, and one that is owed.
Bounded ==
    \A k \in ClientKinds : Len(chain[k]) <= unclean + (IF Owes(k) THEN 1 ELSE 0)

IInv == Types /\ Flow /\ RawIsThere /\ Present /\ Bounded

USE DEF Places

-----------------------------------------------------------------------------
LEMMA Commands ==
    /\ AddCommands \in Seq(ClientKinds) /\ DeleteCommands \in Seq(ClientKinds)
    /\ IsInjective(AddCommands) /\ IsInjective(DeleteCommands)
    /\ ToSet(AddCommands) = ClientKinds /\ ToSet(DeleteCommands) = ClientKinds
BY DEF AddCommands, DeleteCommands, ClientKinds, IsInjective, ToSet

LEMMA NoCommands ==
    /\ <<>> \in Seq(ClientKinds) /\ IsInjective(<<>>) /\ ToSet(<<>>) = {}
BY DEF IsInjective, ToSet

LEMMA KindsAre == ClientKinds \subseteq Kinds /\ "raw" \in Kinds /\ "raw" \notin ClientKinds
BY DEF Kinds, ClientKinds

\* The type of one chain.
LEMMA ChainTypes ==
    ASSUME Types, NEW k \in Kinds
    PROVE  chain[k] \in Seq(Interfaces \cup {NoInterface}) /\ Len(chain[k]) \in Nat
BY LenProperties DEF Types

\* A step that runs no command and ends no process leaves what is owed.
LEMMA Unmoved ==
    ASSUME IInv, UNCHANGED <<chain, ext, unclean>>,
           \A k \in ClientKinds : Owes(k)' <=> Owes(k),
           proc'.server /\ (proc'.at = "adding" => ~handler'.on) =>
               \/ proc.server /\ (proc.at = "adding" => ~handler.on)
               \/ \A k \in ClientKinds : ~Owes(k)
    PROVE  Present' /\ Bounded'
<1>1. Present'
  BY DEF IInv, Present
<1>2. Bounded'
  BY DEF IInv, Bounded
<1>q. QED
  BY <1>1, <1>2

\* Where a process is that owes nothing.
LEMMA OwesNothing ==
    /\ proc.at \notin {"adding", "serving"} => \A k \in ClientKinds : ~Owes(k)
    /\ proc'.at \notin {"adding", "serving"} => \A k \in ClientKinds : ~Owes(k)'
BY DEF Owes, Adds

LEMMA InitIInv == Init => IInv
<1> SUFFICES ASSUME Init PROVE IInv
  OBVIOUS
<1> USE DEF Init, NoProcess, NoHandler
<1>1. Types
  <2>1. chain \in [Kinds -> Seq(Interfaces \cup {NoInterface})]
    OBVIOUS
  <2>2. 0 \in 0 .. MaxRuns /\ 0 \in 0 .. 0
    BY ServerRulesAssumption
  <2>q. QED
    BY <2>1, <2>2, NoCommands DEF Types
<1>2. Flow /\ RawIsThere
  BY NoCommands DEF Flow, RawIsThere
<1>3. \A k \in ClientKinds : ~Owes(k)
  BY OwesNothing
<1>4. Present
  BY <1>3 DEF Present
<1>5. Bounded
  <2>1. ASSUME NEW k \in ClientKinds PROVE Len(chain[k]) = 0
    BY KindsAre
  <2>q. QED
    BY <1>3, <2>1 DEF Bounded
<1>q. QED
  BY <1>1, <1>2, <1>4, <1>5 DEF IInv

-----------------------------------------------------------------------------
(* main.                                                                   *)

\* Steps of main before it adds the rules of the client, and AddClient itself.
LEMMA StartStep ==
    ASSUME IInv, Start \/ Setup \/ Capture \/ MakeServer \/ Bind \/ AddClient
    PROVE  IInv'
<1> USE DEF IInv, At, GoTo
<1>0. /\ Types /\ Flow /\ RawIsThere /\ ~handler.on
      /\ UNCHANGED <<handler, unclean>>
  BY DEF Start, Setup, Capture, MakeServer, Bind, AddClient
<1>1. CASE Start
  <2>1. /\ proc.at = "down" /\ proc' = [proc EXCEPT !.at = "start"]
        /\ runs < MaxRuns /\ runs' = runs + 1
        /\ UNCHANGED <<current, chain, ext>>
    BY <1>1 DEF Start
  <2>2. Types'
    <3>1. proc' \in [at : Places, cmds : Seq(ClientKinds), server : BOOLEAN,
                     stopped : BOOLEAN]
      BY <1>0, <2>1 DEF Types
    <3>2. runs' \in 0 .. MaxRuns /\ unclean' \in 0 .. runs'
      BY <1>0, <2>1, ServerRulesAssumption DEF Types
    <3>q. QED
      BY <1>0, <2>1, <3>1, <3>2 DEF Types
  <2>3. Flow' /\ RawIsThere'
    BY <1>0, <2>1 DEF Types, Flow, RawIsThere
  <2>4. Present' /\ Bounded'
    <3>1. /\ proc.at \notin {"adding", "serving"} /\ proc'.at \notin {"adding", "serving"}
          /\ ~proc'.server
      BY <1>0, <2>1 DEF Types, Flow
    <3>q. QED
      BY <1>0, <2>1, <3>1, OwesNothing, Unmoved
  <2>q. QED
    BY <2>2, <2>3, <2>4
<1>2. CASE Setup
  <2>1. /\ proc.at = "start" /\ proc' = [proc EXCEPT !.at = "setup"]
        /\ chain' = [chain EXCEPT !["raw"] = <<NoInterface>> \o @]
        /\ UNCHANGED <<current, ext, runs>>
    BY <1>2 DEF Setup
  <2>2. /\ chain' \in [Kinds -> Seq(Interfaces \cup {NoInterface})]
        /\ chain'["raw"] # <<>>
        /\ \A k \in ClientKinds : chain'[k] = chain[k]
    <3>1. chain["raw"] \in Seq(Interfaces \cup {NoInterface})
      BY <1>0, KindsAre, ChainTypes
    <3>2. <<NoInterface>> \in Seq(Interfaces \cup {NoInterface}) /\ Len(<<NoInterface>>) = 1
      OBVIOUS
    <3>3. /\ <<NoInterface>> \o chain["raw"] \in Seq(Interfaces \cup {NoInterface})
          /\ Len(<<NoInterface>> \o chain["raw"]) = 1 + Len(chain["raw"])
      BY <3>1, <3>2, ConcatProperties
    <3>4. <<NoInterface>> \o chain["raw"] # <<>>
      BY <3>1, <3>3, LenProperties, EmptySeq
    <3>q. QED
      BY <1>0, <2>1, <3>3, <3>4, KindsAre DEF Types
  <2>3. Types'
    BY <1>0, <2>1, <2>2 DEF Types
  <2>4. Flow' /\ RawIsThere'
    BY <1>0, <2>1, <2>2 DEF Types, Flow, RawIsThere
  <2>5. /\ \A k \in ClientKinds : ~Owes(k)
        /\ \A k \in ClientKinds : ~Owes(k)'
    BY <1>0, <2>1, OwesNothing DEF Types
  <2>6. Present' /\ Bounded'
    BY <1>0, <2>2, <2>5 DEF Present, Bounded
  <2>q. QED
    BY <2>3, <2>4, <2>6
<1>3. CASE Capture
  <2>1. /\ proc.at = "setup" /\ proc' = [proc EXCEPT !.at = "init"]
        /\ ext' = current
        /\ UNCHANGED <<current, chain, runs>>
    BY <1>3 DEF Capture
  <2>2. Types'
    BY <1>0, <2>1 DEF Types
  <2>3. Flow' /\ RawIsThere'
    BY <1>0, <2>1 DEF Types, Flow, RawIsThere
  <2>4. /\ \A k \in ClientKinds : ~Owes(k)
        /\ \A k \in ClientKinds : ~Owes(k)'
    BY <1>0, <2>1, OwesNothing DEF Types
  <2>5. Present' /\ Bounded'
    BY <1>0, <2>1, <2>4 DEF Present, Bounded
  <2>q. QED
    BY <2>2, <2>3, <2>5
<1>4. CASE MakeServer \/ Bind
  <2>1. /\ proc.at \in {"init", "made"} /\ proc'.at \in {"made", "bound", "unbound"}
        /\ proc'.server = TRUE \/ proc'.server = proc.server
        /\ proc' \in [at : Places, cmds : Seq(ClientKinds), server : BOOLEAN, stopped : BOOLEAN]
        /\ proc'.cmds = proc.cmds
        /\ UNCHANGED <<current, chain, ext, runs>>
    BY <1>0, <1>4 DEF MakeServer, Bind, Types
  <2>2. Types'
    BY <1>0, <2>1 DEF Types
  <2>3. Flow' /\ RawIsThere'
    BY <1>0, <2>1 DEF Flow, RawIsThere
  <2>4. /\ \A k \in ClientKinds : ~Owes(k)
        /\ \A k \in ClientKinds : ~Owes(k)'
    BY <2>1, OwesNothing
  <2>5. Present' /\ Bounded'
    BY <1>0, <2>1, <2>4, Unmoved
  <2>q. QED
    BY <2>2, <2>3, <2>5
<1>5. CASE AddClient
  <2>1. /\ proc.at = "bound" /\ proc' = [proc EXCEPT !.at = "adding", !.cmds = AddCommands]
        /\ UNCHANGED <<current, chain, ext, runs>>
    BY <1>5 DEF AddClient
  <2>2. proc'.at = "adding" /\ proc'.cmds = AddCommands /\ proc'.server = proc.server
    BY <1>0, <2>1 DEF Types
  <2>3. Types'
    BY <1>0, <2>1, Commands DEF Types
  <2>4. Flow' /\ RawIsThere'
    BY <1>0, <2>1, <2>2, Commands DEF Flow, RawIsThere
  <2>5. /\ \A k \in ClientKinds : ~Owes(k)
        /\ \A k \in ClientKinds : ~Owes(k)'
    BY <2>1, <2>2, OwesNothing, Commands DEF Owes, Adds
  <2>6. Present' /\ Bounded'
    BY <1>0, <2>1, <2>5, Unmoved
  <2>q. QED
    BY <2>3, <2>4, <2>6
<1>q. QED
  BY <1>1, <1>2, <1>3, <1>4, <1>5

\* A command of AddClient.
LEMMA AddRuleStep == ASSUME IInv, AddRule PROVE IInv'
<1> USE DEF IInv, At
<1>0. /\ Types /\ Flow /\ RawIsThere /\ ~handler.on
      /\ proc.at = "adding" /\ proc.cmds # <<>>
      /\ chain' = Appended(Head(proc.cmds))
      /\ proc' = [proc EXCEPT !.cmds = Tail(@)]
      /\ UNCHANGED <<current, ext, handler, runs, unclean>>
  BY DEF AddRule
<1>1. /\ proc.cmds \in Seq(ClientKinds)
      /\ proc'.cmds = Tail(proc.cmds)
      /\ proc'.at = "adding" /\ proc'.server = proc.server
  BY <1>0 DEF Types
<1>2. PICK k \in ClientKinds :
          /\ k = Head(proc.cmds) /\ Tail(proc.cmds) \in Seq(ClientKinds)
          /\ ToSet(proc.cmds) = {k} \cup ToSet(Tail(proc.cmds))
          /\ k \notin ToSet(Tail(proc.cmds)) /\ IsInjective(Tail(proc.cmds))
  BY <1>0, <1>1, HeadAndTail, TailIsInjective DEF Flow
<1>3. /\ chain[k] \in Seq(Interfaces \cup {NoInterface}) /\ Len(chain[k]) \in Nat
      /\ ext \in Interfaces \cup {NoInterface}
  BY <1>0, <1>2, KindsAre, ChainTypes DEF Types
<1>4. /\ Append(chain[k], ext) \in Seq(Interfaces \cup {NoInterface})
      /\ Len(Append(chain[k], ext)) = Len(chain[k]) + 1
      /\ ext \in ToSet(Append(chain[k], ext))
  <2>1. /\ Append(chain[k], ext) \in Seq(Interfaces \cup {NoInterface})
        /\ Len(Append(chain[k], ext)) = Len(chain[k]) + 1
        /\ Append(chain[k], ext)[Len(chain[k]) + 1] = ext
    BY <1>3, AppendProperties
  <2>2. Len(chain[k]) + 1 \in 1 .. Len(Append(chain[k], ext))
    BY <1>3, <2>1
  <2>q. QED
    BY <2>1, <2>2, InList
<1>5. /\ chain' \in [Kinds -> Seq(Interfaces \cup {NoInterface})]
      /\ \A j \in Kinds \ {k} : chain'[j] = chain[j]
      /\ chain'[k] = IF ext = NoInterface THEN chain[k] ELSE Append(chain[k], ext)
  BY <1>0, <1>2, <1>4, KindsAre DEF Appended, Types
<1>6. Types'
  BY <1>0, <1>1, <1>2, <1>5 DEF Types
<1>7. Flow'
  BY <1>0, <1>1, <1>2 DEF Flow
<1>8. RawIsThere'
  BY <1>0, <1>1, <1>2, <1>5, KindsAre DEF RawIsThere
<1>9. /\ \A j \in ClientKinds \ {k} : Owes(j)' <=> Owes(j)
      /\ ~Owes(k)
      /\ Owes(k)' <=> ext # NoInterface
  <2>1. /\ \A j \in ClientKinds : Owes(j) <=> ext # NoInterface /\ j \notin ToSet(proc.cmds)
        /\ \A j \in ClientKinds : Owes(j)' <=> ext # NoInterface /\ j \notin ToSet(Tail(proc.cmds))
    BY <1>0, <1>1 DEF Owes, Adds
  <2>q. QED
    BY <1>2, <2>1
<1>10. Present'
  <2> SUFFICES ASSUME NEW j \in ClientKinds, Owes(j)', proc'.server
               PROVE  ext' \in ToSet(chain'[j])
    BY DEF Present
  <2>1. CASE j = k
    <3>1. ext # NoInterface
      BY <1>9, <2>1
    <3>q. QED
      BY <1>0, <1>4, <1>5, <2>1, <3>1
  <2>2. CASE j # k
    BY <1>0, <1>1, <1>5, <1>9, <2>2, KindsAre DEF Present
  <2>q. QED
    BY <2>1, <2>2
<1>11. Bounded'
  <2> SUFFICES ASSUME NEW j \in ClientKinds
               PROVE  Len(chain'[j]) <= unclean' + (IF Owes(j)' THEN 1 ELSE 0)
    BY DEF Bounded
  <2>1. CASE j = k
    <3>1. Len(chain[k]) <= unclean /\ unclean \in Nat
      BY <1>0, <1>2, <1>9 DEF Bounded, Types
    <3>2. CASE ext = NoInterface
      BY <1>0, <1>5, <1>9, <2>1, <3>1, <3>2
    <3>3. CASE ext # NoInterface
      <4>1. Len(chain'[k]) = Len(chain[k]) + 1 /\ Owes(k)'
        BY <1>4, <1>5, <1>9, <3>3
      <4>2. Len(chain'[k]) <= unclean' + 1
        BY <1>0, <1>3, <3>1, <4>1
      <4>q. QED
        BY <2>1, <4>1, <4>2
    <3>q. QED
      BY <3>2, <3>3
  <2>2. CASE j # k
    BY <1>0, <1>5, <1>9, <2>2, KindsAre DEF Bounded
  <2>q. QED
    BY <2>1, <2>2
<1>q. QED
  BY <1>6, <1>7, <1>8, <1>10, <1>11

\* The end of a process, which is counted unless it has paid what it owed.
LEMMA EndStep ==
    ASSUME IInv, NEW clean \in BOOLEAN, Ends(clean), proc.at # "down",
           UNCHANGED <<current, ext, runs>>,
           \/ UNCHANGED chain
           \/ /\ chain' \in [Kinds -> Seq(Interfaces \cup {NoInterface})]
              /\ \A k \in ClientKinds : chain'[k] = chain[k],
           clean => \A k \in ClientKinds : ~Owes(k)
    PROVE  IInv'
<1> USE DEF IInv
<1>0. /\ proc' = NoProcess /\ handler' = NoHandler
      /\ unclean' = IF clean THEN unclean ELSE unclean + 1
      /\ unclean \in 0 .. runs /\ runs \in 0 .. MaxRuns /\ unclean < runs
  BY DEF Ends, Types, Flow
<1>1. Types'
  <2>1. unclean' \in 0 .. runs'
    BY <1>0, ServerRulesAssumption
  <2>q. QED
    BY <1>0, <2>1, NoCommands DEF Types, NoProcess, NoHandler
<1>2. Flow' /\ RawIsThere'
  BY <1>0, NoCommands DEF Flow, RawIsThere, NoProcess, NoHandler
<1>3. \A k \in ClientKinds : ~Owes(k)'
  BY <1>0, OwesNothing DEF NoProcess
<1>4. Present'
  BY <1>3 DEF Present
<1>5. Bounded'
  <2> SUFFICES ASSUME NEW k \in ClientKinds
               PROVE  Len(chain'[k]) <= unclean' + (IF Owes(k)' THEN 1 ELSE 0)
    BY DEF Bounded
  <2>1. Len(chain'[k]) = Len(chain[k]) /\ Len(chain[k]) \in Nat
    BY KindsAre, ChainTypes
  <2>0. unclean' \in Nat /\ ~Owes(k)'
    BY <1>0, <1>3
  <2>2. CASE clean
    <3>1. Len(chain[k]) <= unclean + 0
      BY <2>2 DEF Bounded
    <3>q. QED
      BY <1>0, <2>0, <2>1, <2>2, <3>1
  <2>3. CASE ~clean
    <3>1. Len(chain[k]) <= unclean + (IF Owes(k) THEN 1 ELSE 0)
      BY DEF Bounded
    <3>2. Len(chain[k]) <= unclean + 1
      BY <1>0, <2>1, <3>1
    <3>q. QED
      BY <1>0, <2>0, <2>1, <2>3, <3>2
  <2>q. QED
    BY <2>2, <2>3
<1>q. QED
  BY <1>1, <1>2, <1>4, <1>5

LEMMA MainStep ==
    ASSUME IInv, Added \/ Return \/ Kill \/ Roam \/ UNCHANGED vars
    PROVE  IInv'
<1> USE DEF IInv, At, GoTo
<1>1. CASE Added
  <2>0. /\ proc.at = "adding" /\ proc.cmds = <<>> /\ ~handler.on
        /\ UNCHANGED <<current, chain, ext, runs>>
        /\ Types /\ Flow /\ RawIsThere
    BY <1>1 DEF Added
  <2>1. CASE proc.server
    <3>1. /\ proc' = [proc EXCEPT !.at = "serving"]
          /\ UNCHANGED <<handler, unclean>>
      BY <1>1, <2>1 DEF Added
    <3>2. Types' /\ Flow' /\ RawIsThere'
      BY <2>0, <2>1, <3>1 DEF Types, Flow, RawIsThere
    <3>3. \A k \in ClientKinds : Owes(k)' <=> Owes(k)
      BY <2>0, <3>1, NoCommands DEF Owes, Adds, Types
    <3>4. Present' /\ Bounded'
      BY <2>0, <2>1, <3>1, <3>3, Unmoved
    <3>q. QED
      BY <3>2, <3>4
  <2>2. CASE ~proc.server
    BY <1>1, <2>0, <2>2, EndStep DEF Added
  <2>q. QED
    BY <2>1, <2>2
<1>2. CASE Return
  BY <1>2, EndStep DEF Return
<1>3. CASE Kill
  BY <1>3, EndStep DEF Kill
<1>4. CASE Roam
  <2>1. /\ current' \in Interfaces \cup {NoInterface}
        /\ UNCHANGED <<chain, ext, proc, handler, runs, unclean>>
    BY <1>4 DEF Roam
  <2>2. Types' /\ Flow' /\ RawIsThere'
    BY <2>1 DEF Types, Flow, RawIsThere
  <2>3. Present' /\ Bounded'
    BY <2>1, Unmoved DEF Owes, Adds
  <2>q. QED
    BY <2>2, <2>3
<1>5. CASE UNCHANGED vars
  <2>1. UNCHANGED <<current, chain, ext, proc, handler, runs, unclean>>
    BY <1>5 DEF vars
  <2>2. Types' /\ Flow' /\ RawIsThere'
    BY <2>1 DEF Types, Flow, RawIsThere
  <2>3. Present' /\ Bounded'
    BY <2>1, Unmoved DEF Owes, Adds
  <2>q. QED
    BY <2>2, <2>3
<1>q. QED
  BY <1>1, <1>2, <1>3, <1>4, <1>5

-----------------------------------------------------------------------------
(* The handler.                                                            *)

LEMMA SignalStep == ASSUME IInv, Signal PROVE IInv'
<1> USE DEF IInv
<1>0. /\ Types /\ Flow /\ RawIsThere
      /\ proc.at # "down" /\ ~handler.on
      /\ UNCHANGED <<current, chain, ext, runs, unclean>>
  BY DEF Signal
<1>1. CASE proc.server
  <2>1. /\ handler' = [on |-> TRUE, cmds |-> DeleteCommands]
        /\ UNCHANGED proc
    BY <1>1 DEF Signal
  <2>2. Types' /\ Flow' /\ RawIsThere'
    BY <1>0, <1>1, <2>1, Commands DEF Types, Flow, RawIsThere
  <2>3. \A k \in ClientKinds : Owes(k)' <=> Owes(k)
    BY <1>0, <2>1, Commands DEF Owes, Adds
  <2>4. Present' /\ Bounded'
    BY <1>0, <1>1, <2>1, <2>3, Unmoved
  <2>q. QED
    BY <2>2, <2>4
<1>2. CASE ~proc.server
  <2>1. /\ proc' = [proc EXCEPT !.stopped = TRUE]
        /\ UNCHANGED handler
    BY <1>2 DEF Signal
  <2>2. proc'.at = proc.at /\ proc'.cmds = proc.cmds /\ proc'.server = proc.server
    BY <1>0, <2>1 DEF Types
  <2>3. Types' /\ Flow' /\ RawIsThere'
    BY <1>0, <2>1, <2>2 DEF Types, Flow, RawIsThere
  <2>4. \A k \in ClientKinds : Owes(k)' <=> Owes(k)
    BY <1>0, <2>1, <2>2 DEF Owes, Adds
  <2>5. Present' /\ Bounded'
    BY <1>0, <1>2, <2>1, <2>2, <2>4, Unmoved
  <2>q. QED
    BY <2>3, <2>5
<1>q. QED
  BY <1>1, <1>2

\* A command of DeleteClient: it finds a copy if this process owes one.
LEMMA DeleteRuleStep == ASSUME IInv, DeleteRule PROVE IInv'
<1> USE DEF IInv
<1>0. /\ Types /\ Flow /\ RawIsThere /\ handler.on /\ handler.cmds # <<>>
      /\ chain' = Deleted(Head(handler.cmds))
      /\ handler' = [handler EXCEPT !.cmds = Tail(@)]
      /\ UNCHANGED <<current, ext, proc, runs, unclean>>
  BY DEF DeleteRule
<1>1. /\ handler.cmds \in Seq(ClientKinds)
      /\ handler'.cmds = Tail(handler.cmds) /\ handler'.on
  BY <1>0 DEF Types
<1>2. PICK k \in ClientKinds :
          /\ k = Head(handler.cmds) /\ Tail(handler.cmds) \in Seq(ClientKinds)
          /\ ToSet(handler.cmds) = {k} \cup ToSet(Tail(handler.cmds))
          /\ k \notin ToSet(Tail(handler.cmds)) /\ IsInjective(Tail(handler.cmds))
  BY <1>0, <1>1, HeadAndTail, TailIsInjective DEF Flow
<1>3. chain[k] \in Seq(Interfaces \cup {NoInterface}) /\ Len(chain[k]) \in Nat
  BY <1>0, <1>2, KindsAre, ChainTypes
<1>4. /\ RemoveFirst(chain[k], ext) \in Seq(Interfaces \cup {NoInterface})
      /\ Len(RemoveFirst(chain[k], ext)) =
             IF ext \in ToSet(chain[k]) THEN Len(chain[k]) - 1 ELSE Len(chain[k])
  BY <1>3, RemoveFirstLength
<1>5. /\ chain' \in [Kinds -> Seq(Interfaces \cup {NoInterface})]
      /\ \A j \in Kinds \ {k} : chain'[j] = chain[j]
      /\ chain'[k] = RemoveFirst(chain[k], ext)
  BY <1>0, <1>2, <1>4, KindsAre DEF Deleted, Types
<1>6. Types'
  BY <1>0, <1>1, <1>2, <1>5 DEF Types
<1>7. Flow' /\ RawIsThere'
  BY <1>0, <1>1, <1>2, <1>5, KindsAre DEF Flow, RawIsThere
<1>8. /\ \A j \in ClientKinds \ {k} : Owes(j)' <=> Owes(j)
      /\ Owes(k)' <=> Owes(k) /\ proc.at # "serving"
      /\ Owes(k) => proc.at \in {"adding", "serving"}
  <2>1. \A j \in ClientKinds : Adds(j)' <=> Adds(j)
    BY <1>0 DEF Adds
  <2>2. /\ \A j \in ClientKinds :
              Owes(j) <=> Adds(j) /\ (proc.at = "serving" => j \in ToSet(handler.cmds))
        /\ \A j \in ClientKinds :
              Owes(j)' <=> Adds(j) /\ (proc.at = "serving" => j \in ToSet(Tail(handler.cmds)))
    BY <1>0, <1>1, <2>1 DEF Owes
  <2>3. Adds(k) => proc.at \in {"adding", "serving"}
    BY DEF Adds
  <2>q. QED
    BY <1>2, <2>2, <2>3
<1>9. Present'
  <2> SUFFICES ASSUME NEW j \in ClientKinds, Owes(j)', proc'.server,
                      proc'.at = "adding" => ~handler'.on
               PROVE  ext' \in ToSet(chain'[j])
    BY DEF Present
  <2>1. proc.at = "serving"
    <3>1. proc.at # "adding"
      BY <1>0, <1>1
    <3>q. QED
      BY <1>0, <3>1 DEF Owes, Adds
  <2>2. j # k /\ Owes(j)
    BY <1>8, <2>1
  <2>q. QED
    BY <1>0, <1>5, <2>1, <2>2, KindsAre DEF Present
<1>10. Bounded'
  <2> SUFFICES ASSUME NEW j \in ClientKinds
               PROVE  Len(chain'[j]) <= unclean' + (IF Owes(j)' THEN 1 ELSE 0)
    BY DEF Bounded
  <2>1. CASE j # k
    BY <1>0, <1>5, <1>8, <2>1, KindsAre DEF Bounded
  <2>2. CASE j = k /\ (~Owes(k) \/ proc.at # "serving")
    <3>1. Owes(k)' <=> Owes(k)
      BY <1>8, <2>2
    <3>2. Len(chain'[k]) <= Len(chain[k]) /\ Len(chain'[k]) \in Nat
      BY <1>3, <1>4, <1>5
    <3>3. Len(chain[k]) <= unclean + (IF Owes(k) THEN 1 ELSE 0) /\ unclean \in Nat
      BY <1>0, <1>2 DEF Bounded, Types
    <3>4. Len(chain'[k]) <= unclean' + (IF Owes(k) THEN 1 ELSE 0)
      BY <1>0, <1>3, <3>2, <3>3
    <3>q. QED
      BY <2>2, <3>1, <3>4
  <2>3. CASE j = k /\ Owes(k) /\ proc.at = "serving"
    <3>1. ext \in ToSet(chain[k])
      BY <1>0, <1>2, <2>3 DEF Present, Flow
    <3>2. Len(chain'[k]) = Len(chain[k]) - 1
      BY <1>4, <1>5, <3>1
    <3>3. Len(chain[k]) <= unclean + 1 /\ unclean \in Nat
      BY <1>0, <1>2, <2>3 DEF Bounded, Types
    <3>4. ~Owes(k)'
      BY <1>8, <2>3
    <3>q. QED
      BY <1>0, <1>3, <2>3, <3>2, <3>3, <3>4
  <2>q. QED
    BY <2>1, <2>2, <2>3
<1>q. QED
  BY <1>6, <1>7, <1>9, <1>10

LEMMA StoppedStep == ASSUME IInv, Stopped PROVE IInv'
<1> USE DEF IInv
<1>0. /\ Types /\ Flow /\ RawIsThere /\ handler.on /\ handler.cmds = <<>>
      /\ proc.at # "down"
      /\ UNCHANGED <<current, ext, runs>>
  BY DEF Stopped, Flow
<1>1. proc.at # "adding" => \A k \in ClientKinds : ~Owes(k)
  BY <1>0, NoCommands DEF Owes, Adds
<1>2. CASE proc.at \in {"made", "bound"}
  BY <1>0, <1>1, <1>2, EndStep DEF Stopped
<1>3. CASE proc.at = "adding"
  <2>1. /\ proc' = [proc EXCEPT !.server = FALSE, !.stopped = TRUE]
        /\ handler' = NoHandler
        /\ UNCHANGED <<chain, unclean>>
    BY <1>3 DEF Stopped
  <2>2. proc'.at = proc.at /\ proc'.cmds = proc.cmds /\ ~proc'.server
    BY <1>0, <2>1 DEF Types
  <2>3. Types' /\ Flow' /\ RawIsThere'
    BY <1>0, <1>3, <2>1, <2>2, NoCommands DEF Types, Flow, RawIsThere, NoHandler
  <2>4. \A k \in ClientKinds : Owes(k)' <=> Owes(k)
    BY <1>0, <1>3, <2>2 DEF Owes, Adds
  <2>5. Present' /\ Bounded'
    BY <1>0, <2>1, <2>2, <2>4, Unmoved
  <2>q. QED
    BY <2>3, <2>5
<1>4. CASE proc.at = "unbound"
  <2>1. (~proc.stopped) \in BOOLEAN /\ Ends(~proc.stopped) /\ UNCHANGED chain
    BY <1>4 DEF Stopped
  <2>q. QED
    BY <1>0, <1>1, <1>4, <2>1, EndStep
<1>5. CASE proc.at = "serving"
  <2>1. (~proc.stopped) \in BOOLEAN /\ Ends(~proc.stopped)
    BY <1>5 DEF Stopped
  <2>2. \/ UNCHANGED chain
        \/ chain' = [chain EXCEPT !["raw"] = RemoveFirst(@, NoInterface)]
    BY <1>5 DEF Stopped
  <2>3. RemoveFirst(chain["raw"], NoInterface) \in Seq(Interfaces \cup {NoInterface})
    BY <1>0, KindsAre, ChainTypes, RemoveFirstLength
  <2>4. \/ UNCHANGED chain
        \/ /\ chain' \in [Kinds -> Seq(Interfaces \cup {NoInterface})]
           /\ \A k \in ClientKinds : chain'[k] = chain[k]
    BY <1>0, <2>2, <2>3, KindsAre DEF Types
  <2>q. QED
    BY <1>0, <1>1, <1>5, <2>1, <2>4, EndStep
<1>q. QED
  BY <1>0, <1>2, <1>3, <1>4, <1>5 DEF Flow

LEMMA NextIInv == IInv /\ [Next]_vars => IInv'
BY StartStep, AddRuleStep, MainStep, SignalStep, DeleteRuleStep, StoppedStep DEF Next

-----------------------------------------------------------------------------
\* The inductive invariant, for any interfaces and any number of processes.
THEOREM Invariance == Spec => []IInv
BY InitIInv, NextIInv, PTL DEF Spec

\* Chains, processes and handlers keep their types.
THEOREM TypeCorrect == Spec => []TypeOK
<1>1. IInv => TypeOK
  BY DEF IInv, Types, TypeOK
<1>q. QED
  BY <1>1, Invariance, PTL

\* Once Server::Run is over all rules are there, whatever earlier processes left
\* behind and whatever a handler has deleted since.
THEOREM ServingHasRules == Spec => []RulesAreThere
<1>1. IInv => RulesAreThere
  <2> SUFFICES ASSUME IInv, At("serving")
               PROVE  /\ chain["raw"] # <<>>
                      /\ ext # NoInterface => \A k \in ClientKinds : ext \in ToSet(chain[k])
    BY DEF RulesAreThere
  <2>1. chain["raw"] # <<>>
    BY DEF IInv, At, RawIsThere
  <2>2. ext # NoInterface => \A k \in ClientKinds : Owes(k)
    BY DEF At, Owes, Adds
  <2>q. QED
    BY <2>1, <2>2 DEF IInv, At, Flow, Present
<1>q. QED
  BY <1>1, Invariance, PTL

\* Leftover rules are one of a kind from each process that did not end by its
\* first SIGINT, come after Server::Run.
THEOREM RulesAreBounded == Spec => []NothingPilesUp
<1>1. IInv => NothingPilesUp
  <2> SUFFICES ASSUME IInv, NEW k \in ClientKinds
               PROVE  Len(chain[k]) <=
                          unclean + (IF proc.at \in {"adding", "serving"} THEN 1 ELSE 0)
    BY DEF NothingPilesUp
  <2>1. Len(chain[k]) <= unclean + (IF Owes(k) THEN 1 ELSE 0)
    BY DEF IInv, Bounded
  <2>2. Owes(k) => proc.at \in {"adding", "serving"}
    BY DEF Owes, Adds
  <2>3. Len(chain[k]) \in Nat /\ unclean \in Nat
    BY KindsAre, ChainTypes DEF IInv, Types
  <2>q. QED
    BY <2>1, <2>2, <2>3
<1>q. QED
  BY <1>1, Invariance, PTL
=============================================================================
