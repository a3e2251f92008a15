------------------------- MODULE ClientRoutes_proofs -------------------------
(***************************************************************************)
(* The safety properties of ClientRoutes, for either platform, with or     *)
(* without IPv6, any gateways and any number of processes.                 *)
(*                                                                         *)
(* What the client has put into the host's routing is seen as the set of   *)
(* the commands that would take it away.  Everything Set adds Unset takes  *)
(* away; so whatever a killed process has left is, all through Unset,      *)
(* among the commands still to run, and nothing is left after the last.    *)
(* While Set runs, the rules of a family are as far as its commands are,   *)
(* but for those that have failed: this needs that the rule for the tunnel *)
(* is added first.                                                         *)
(***************************************************************************)
EXTENDS ClientRoutes, ListLemmas

Rules == {"tunnel", "main"}

Routes == [what : Halves \cup {"table"}, fam : Families]

Commands == [what : {"host", "table"} \cup Halves \cup Rules, fam : Families]

Types ==
    /\ platform \in {"linux", "osx"}
    /\ gw \in Gateways \cup {NoGateway}
    /\ host \in Gateways \cup {NoGateway}
    /\ tunRoutes \subseteq Routes
    /\ rules \in [Families -> Seq(Rules)]
    /\ \A f \in Families : IsInjective(rules[f])
    /\ io \in [at : {"down", "unset", "connect", "set", "up"}, cmds : Seq(Commands),
               via : Gateways \cup {NoGateway}]
    /\ lacks \subseteq Commands
    /\ stop \in [at : {"none", "unset", "done"}, cmds : Seq(Commands), alone : BOOLEAN]
    /\ runs \in 0 .. MaxRuns

\* What the client has in the way of the host's own packets: the commands that
\* would delete it.
Leftovers ==
    (IF host = NoGateway THEN {} ELSE {Cmd("host", 4)})
    \cup {c \in tunRoutes : c.what \in Halves}
    \cup {c \in [what : Rules, fam : Families] : c.what \in ToSet(rules[c.fam])}

\* The rule for the tunnel is added before the one for the main table.
InOrder(cmds) ==
    /\ IsInjective(cmds)
    /\ \A f \in Families : \A i, j \in DOMAIN cmds :
           cmds[i] = Cmd("tunnel", f) /\ cmds[j] = Cmd("main", f) => i < j

Flow ==
    /\ io.at = "up" => io.cmds = <<>>
    /\ io.at = "set" => ToSet(io.cmds) \subseteq ToSet(SetCommands) /\ InOrder(io.cmds)
    /\ stop.at # "none" /\ stop.alone => io.at = "up"

\* What is left is known to Unset, and to the one that runs it.
Unsets ==
    /\ Leftovers \subseteq ToSet(UnsetCommands)
    /\ io.at = "unset" => Leftovers \subseteq ToSet(io.cmds)
    /\ io.at = "connect" => Leftovers = {}
    /\ stop.alone /\ stop.at = "unset" => Leftovers \subseteq ToSet(stop.cmds)
    /\ stop.alone /\ stop.at = "done" => Leftovers = {}

\* The rules of a family, by the commands that are left and those whose work is
\* not there.
RulesFollow(f, left) ==
    LET noTunnel == Cmd("tunnel", f) \in left \cup lacks
        noMain   == Cmd("main", f) \in left \cup lacks
    IN  /\ Cmd("tunnel", f) \in left => Cmd("main", f) \in left
        /\ rules[f] = IF noMain THEN IF noTunnel THEN <<>> ELSE << "tunnel" >>
                      ELSE IF noTunnel THEN << "main" >> ELSE << "main", "tunnel" >>

\* The route to the server, likewise.
HostFollows(left) ==
    /\ Cmd("host", 4) \in left => host = NoGateway
    /\ Cmd("host", 4) \notin left \cup lacks => host = io.via /\ io.via \in Gateways

\* What a command of Set adds is there once it has run and has not failed.
Sets ==
    io.at \in {"set", "up"} /\ stop.at = "none" =>
        /\ ToSet(SetCommands) \cap Routes \subseteq tunRoutes \cup ToSet(io.cmds) \cup lacks
        /\ platform = "linux" => \A f \in Families : RulesFollow(f, ToSet(io.cmds))
        /\ HostFollows(ToSet(io.cmds))
        /\ ToSet(io.cmds) \cap lacks = {}

IInv == Types /\ Flow /\ Unsets /\ Sets

-----------------------------------------------------------------------------
(* The commands.                                                           *)

LEMMA FamiliesAre ==
    /\ 4 \in Families /\ Families \subseteq {4, 6}
    /\ 6 \in Families <=> IPv6
BY ClientRoutesAssumption DEF Families

LEMMA CmdIs ==
    /\ \A what, f : Cmd(what, f).what = what /\ Cmd(what, f).fam = f
    /\ \A c \in Commands : c = Cmd(c.what, c.fam)
    /\ \A c \in Routes : c = Cmd(c.what, c.fam)
BY DEF Cmd, Commands, Routes

\* The lists of the code, written out.
LEMMA UnsetList ==
    /\ platform = "osx" /\ IPv6 => UnsetCommands =
           << Cmd("host", 4), Cmd("low", 4), Cmd("high", 4), Cmd("low", 6), Cmd("high", 6) >>
    /\ platform = "osx" /\ ~IPv6 => UnsetCommands =
           << Cmd("host", 4), Cmd("low", 4), Cmd("high", 4) >>
    /\ platform = "linux" /\ IPv6 => UnsetCommands =
           << Cmd("tunnel", 4), Cmd("host", 4), Cmd("main", 4), Cmd("tunnel", 6), Cmd("main", 6) >>
    /\ platform = "linux" /\ ~IPv6 => UnsetCommands =
           << Cmd("tunnel", 4), Cmd("host", 4), Cmd("main", 4) >>
<1>1. CASE platform = "osx"
  <2>1. << Cmd("host", 4) >> \o << Cmd("low", 4), Cmd("high", 4) >>
            = << Cmd("host", 4), Cmd("low", 4), Cmd("high", 4) >>
    BY Join12
  <2>2. UnsetCommands = << Cmd("host", 4), Cmd("low", 4), Cmd("high", 4) >>
                        \o IF IPv6 THEN << Cmd("low", 6), Cmd("high", 6) >> ELSE <<>>
    BY <1>1, <2>1 DEF UnsetCommands, RouteCommands, HalfRoutes
  <2>3. << Cmd("host", 4), Cmd("low", 4), Cmd("high", 4) >> \o << Cmd("low", 6), Cmd("high", 6) >>
            = << Cmd("host", 4), Cmd("low", 4), Cmd("high", 4), Cmd("low", 6), Cmd("high", 6) >>
    BY Join32
  <2>4. << Cmd("host", 4), Cmd("low", 4), Cmd("high", 4) >> \o <<>>
            = << Cmd("host", 4), Cmd("low", 4), Cmd("high", 4) >>
    BY Join30
  <2>5. CASE IPv6
    BY <1>1, <2>2, <2>3, <2>5
  <2>6. CASE ~IPv6
    BY <1>1, <2>2, <2>4, <2>6
  <2>q. QED
    BY <2>5, <2>6
<1>2. CASE platform # "osx"
  <2>1. UnsetCommands = << Cmd("tunnel", 4), Cmd("host", 4), Cmd("main", 4) >>
                        \o IF IPv6 THEN << Cmd("tunnel", 6), Cmd("main", 6) >> ELSE <<>>
    BY <1>2 DEF UnsetCommands, TunnelRules
  <2>2. << Cmd("tunnel", 4), Cmd("host", 4), Cmd("main", 4) >> \o << Cmd("tunnel", 6), Cmd("main", 6) >>
            = << Cmd("tunnel", 4), Cmd("host", 4), Cmd("main", 4), Cmd("tunnel", 6), Cmd("main", 6) >>
    BY Join32
  <2>3. << Cmd("tunnel", 4), Cmd("host", 4), Cmd("main", 4) >> \o <<>>
            = << Cmd("tunnel", 4), Cmd("host", 4), Cmd("main", 4) >>
    BY Join30
  <2>4. CASE IPv6
    BY <1>2, <2>1, <2>2, <2>4
  <2>5. CASE ~IPv6
    BY <1>2, <2>1, <2>3, <2>5
  <2>q. QED
    BY <2>4, <2>5
<1>q. QED
  BY <1>1, <1>2

LEMMA SetList ==
    /\ platform = "osx" => SetCommands = UnsetCommands
    /\ platform = "linux" /\ IPv6 => SetCommands =
           << Cmd("table", 4), Cmd("host", 4), Cmd("tunnel", 4), Cmd("main", 4),
              Cmd("table", 6), Cmd("tunnel", 6), Cmd("main", 6) >>
    /\ platform = "linux" /\ ~IPv6 => SetCommands =
           << Cmd("table", 4), Cmd("host", 4), Cmd("tunnel", 4), Cmd("main", 4) >>
<1>1. CASE platform = "osx"
  BY <1>1 DEF SetCommands, UnsetCommands
<1>2. CASE platform = "linux"
  <2> DEFINE four  == << Cmd("table", 4), Cmd("host", 4), Cmd("tunnel", 4), Cmd("main", 4) >>
             three == << Cmd("table", 6), Cmd("tunnel", 6), Cmd("main", 6) >>
  <2>1. << Cmd("table", 6) >> \o << Cmd("tunnel", 6), Cmd("main", 6) >> = three
    BY Join12
  <2>2. << Cmd("table", 4), Cmd("host", 4) >> \o << Cmd("tunnel", 4), Cmd("main", 4) >> = four
    BY Join22
  <2>3. SetCommands = four \o IF IPv6 THEN three ELSE <<>>
    <3> HIDE DEF four, three
    <3>q. QED
      BY <1>2, <2>1, <2>2 DEF SetCommands, TunnelRules
  <2>4. four \o three = << Cmd("table", 4), Cmd("host", 4), Cmd("tunnel", 4), Cmd("main", 4),
                           Cmd("table", 6), Cmd("tunnel", 6), Cmd("main", 6) >>
    BY Join43
  <2>5. four \o <<>> = << Cmd("table", 4), Cmd("host", 4), Cmd("tunnel", 4), Cmd("main", 4) >>
    BY Join40
  <2> HIDE DEF four, three
  <2>6. CASE IPv6
    BY <1>2, <2>3, <2>4, <2>6
  <2>7. CASE ~IPv6
    BY <1>2, <2>3, <2>5, <2>7
  <2>q. QED
    BY <2>6, <2>7
<1>q. QED
  BY <1>1, <1>2

\* What the lists hold.
LEMMA UnsetHas ==
    ASSUME platform \in {"linux", "osx"}
    PROVE  /\ UnsetCommands \in Seq(Commands)
           /\ platform = "osx" => ToSet(UnsetCommands) =
                {Cmd("host", 4)} \cup {Cmd(half, f) : half \in Halves, f \in Families}
           /\ platform = "linux" => ToSet(UnsetCommands) =
                {Cmd("host", 4)} \cup {Cmd(r, f) : r \in Rules, f \in Families}
<1>0. /\ IPv6 \in BOOLEAN /\ Families = IF IPv6 THEN {4, 6} ELSE {4}
      /\ \A what \in {"host", "table", "low", "high", "tunnel", "main"} :
             \A f \in Families : Cmd(what, f) \in Commands
  BY ClientRoutesAssumption DEF Families, Commands, Halves, Rules, Cmd
<1>1. CASE platform = "osx" /\ IPv6
  <2>0. /\ Cmd("host", 4) \in Commands /\ Cmd("low", 4) \in Commands /\ Cmd("high", 4) \in Commands
        /\ Cmd("low", 6) \in Commands /\ Cmd("high", 6) \in Commands
    BY <1>0, <1>1
  <2>1. << Cmd("host", 4), Cmd("low", 4), Cmd("high", 4), Cmd("low", 6),
           Cmd("high", 6) >> \in Seq(Commands)
    BY <2>0
  <2>2. ToSet(UnsetCommands) =
            {Cmd("host", 4), Cmd("low", 4), Cmd("high", 4), Cmd("low", 6), Cmd("high", 6)}
    BY <1>1, UnsetList DEF ToSet
  <2>3. UnsetCommands \in Seq(Commands)
    BY <1>1, <2>1, UnsetList
  <2>4. ToSet(UnsetCommands) =
            {Cmd("host", 4)} \cup {Cmd(what, f) : what \in Halves, f \in Families}
    BY <1>0, <1>1, <2>2 DEF Halves
  <2>q. QED
    BY <1>1, <2>3, <2>4
<1>2. CASE platform = "osx" /\ ~IPv6
  <2>0. /\ Cmd("host", 4) \in Commands /\ Cmd("low", 4) \in Commands /\ Cmd("high", 4) \in Commands
    BY <1>0, <1>2
  <2>1. << Cmd("host", 4), Cmd("low", 4), Cmd("high", 4) >> \in Seq(Commands)
    BY <2>0
  <2>2. ToSet(UnsetCommands) = {Cmd("host", 4), Cmd("low", 4), Cmd("high", 4)}
    BY <1>2, UnsetList DEF ToSet
  <2>3. UnsetCommands \in Seq(Commands)
    BY <1>2, <2>1, UnsetList
  <2>4. ToSet(UnsetCommands) =
            {Cmd("host", 4)} \cup {Cmd(what, f) : what \in Halves, f \in Families}
    BY <1>0, <1>2, <2>2 DEF Halves
  <2>q. QED
    BY <1>2, <2>3, <2>4
<1>3. CASE platform = "linux" /\ IPv6
  <2>0. /\ Cmd("tunnel", 4) \in Commands /\ Cmd("host", 4) \in Commands /\ Cmd("main", 4) \in Commands
        /\ Cmd("tunnel", 6) \in Commands /\ Cmd("main", 6) \in Commands
    BY <1>0, <1>3
  <2>1. << Cmd("tunnel", 4), Cmd("host", 4), Cmd("main", 4), Cmd("tunnel", 6),
           Cmd("main", 6) >> \in Seq(Commands)
    BY <2>0
  <2>2. ToSet(UnsetCommands) =
            {Cmd("tunnel", 4), Cmd("host", 4), Cmd("main", 4), Cmd("tunnel", 6), Cmd("main", 6)}
    BY <1>3, UnsetList DEF ToSet
  <2>3. UnsetCommands \in Seq(Commands)
    BY <1>3, <2>1, UnsetList
  <2>4. ToSet(UnsetCommands) =
            {Cmd("host", 4)} \cup {Cmd(what, f) : what \in Rules, f \in Families}
    BY <1>0, <1>3, <2>2 DEF Rules
  <2>q. QED
    BY <1>3, <2>3, <2>4
<1>4. CASE platform = "linux" /\ ~IPv6
  <2>0. /\ Cmd("tunnel", 4) \in Commands /\ Cmd("host", 4) \in Commands /\ Cmd("main", 4) \in Commands
    BY <1>0, <1>4
  <2>1. << Cmd("tunnel", 4), Cmd("host", 4), Cmd("main", 4) >> \in Seq(Commands)
    BY <2>0
  <2>2. ToSet(UnsetCommands) = {Cmd("tunnel", 4), Cmd("host", 4), Cmd("main", 4)}
    BY <1>4, UnsetList DEF ToSet
  <2>3. UnsetCommands \in Seq(Commands)
    BY <1>4, <2>1, UnsetList
  <2>4. ToSet(UnsetCommands) =
            {Cmd("host", 4)} \cup {Cmd(what, f) : what \in Rules, f \in Families}
    BY <1>0, <1>4, <2>2 DEF Rules
  <2>q. QED
    BY <1>4, <2>3, <2>4
<1>q. QED
  BY <1>0, <1>1, <1>2, <1>3, <1>4

LEMMA SetHas ==
    ASSUME platform \in {"linux", "osx"}
    PROVE  /\ SetCommands \in Seq(Commands)
           /\ platform = "osx" => ToSet(SetCommands) =
                {Cmd("host", 4)} \cup {Cmd(half, f) : half \in Halves, f \in Families}
           /\ platform = "linux" => ToSet(SetCommands) =
                {Cmd("host", 4)} \cup {Cmd(r, f) : r \in Rules \cup {"table"}, f \in Families}
<1>0. /\ IPv6 \in BOOLEAN /\ Families = IF IPv6 THEN {4, 6} ELSE {4}
      /\ \A what \in {"host", "table", "tunnel", "main"} :
             \A f \in Families : Cmd(what, f) \in Commands
  BY ClientRoutesAssumption DEF Families, Commands, Rules, Cmd
<1>1. CASE platform = "osx"
  BY <1>1, UnsetHas, SetList
<1>2. CASE platform = "linux" /\ IPv6
  <2>0. /\ Cmd("table", 4) \in Commands /\ Cmd("host", 4) \in Commands /\ Cmd("tunnel", 4) \in Commands
        /\ Cmd("main", 4) \in Commands /\ Cmd("table", 6) \in Commands /\ Cmd("tunnel", 6) \in Commands
        /\ Cmd("main", 6) \in Commands
    BY <1>0, <1>2
  <2>1. << Cmd("table", 4), Cmd("host", 4), Cmd("tunnel", 4), Cmd("main", 4),
           Cmd("table", 6), Cmd("tunnel", 6), Cmd("main", 6) >> \in Seq(Commands)
    BY <2>0
  <2>2. ToSet(SetCommands) =
            {Cmd("table", 4), Cmd("host", 4), Cmd("tunnel", 4), Cmd("main", 4),
             Cmd("table", 6), Cmd("tunnel", 6), Cmd("main", 6)}
    BY <1>2, SetList DEF ToSet
  <2>3. SetCommands \in Seq(Commands)
    BY <1>2, <2>1, SetList
  <2>4. ToSet(SetCommands) =
            {Cmd("host", 4)} \cup {Cmd(what, f) : what \in Rules \cup {"table"}, f \in Families}
    BY <1>0, <1>2, <2>2 DEF Rules
  <2>q. QED
    BY <1>2, <2>3, <2>4
<1>3. CASE platform = "linux" /\ ~IPv6
  <2>0. /\ Cmd("table", 4) \in Commands /\ Cmd("host", 4) \in Commands /\ Cmd("tunnel", 4) \in Commands
        /\ Cmd("main", 4) \in Commands
    BY <1>0, <1>3
  <2>1. << Cmd("table", 4), Cmd("host", 4), Cmd("tunnel", 4), Cmd("main", 4) >> \in Seq(Commands)
    BY <2>0
  <2>2. ToSet(SetCommands) = {Cmd("table", 4), Cmd("host", 4), Cmd("tunnel", 4), Cmd("main", 4)}
    BY <1>3, SetList DEF ToSet
  <2>3. SetCommands \in Seq(Commands)
    BY <1>3, <2>1, SetList
  <2>4. ToSet(SetCommands) =
            {Cmd("host", 4)} \cup {Cmd(what, f) : what \in Rules \cup {"table"}, f \in Families}
    BY <1>0, <1>3, <2>2 DEF Rules
  <2>q. QED
    BY <1>3, <2>3, <2>4
<1>q. QED
  BY <1>0, <1>1, <1>2, <1>3

\* Everything that Set adds, Unset deletes, but for the routes of a table to
\* which no rule leads any more.
LEMMA UnsetUndoesSet ==
    ASSUME platform \in {"linux", "osx"}, NEW c \in ToSet(SetCommands)
    PROVE  c \in ToSet(UnsetCommands) \/ c.what = "table"
<1>1. \A f : Cmd("table", f).what = "table"
  BY DEF Cmd
<1>q. QED
  BY <1>1, UnsetHas, SetHas

LEMMA SetInOrder == platform \in {"linux", "osx"} => InOrder(SetCommands)
<1> USE DEF InOrder, IsInjective
<1>0. /\ \A v, w, f, g : Cmd(v, f) = Cmd(w, g) => v = w /\ f = g
      /\ Families \subseteq {4, 6}
  BY FamiliesAre DEF Cmd
<1>1. CASE platform = "osx" /\ IPv6
  BY <1>0, <1>1, UnsetList, SetList
<1>2. CASE platform = "osx" /\ ~IPv6
  BY <1>0, <1>2, UnsetList, SetList
<1>3. CASE platform = "linux" /\ IPv6
  BY <1>0, <1>3, SetList
<1>4. CASE platform = "linux" /\ ~IPv6
  BY <1>0, <1>4, SetList
<1>q. QED
  BY <1>1, <1>2, <1>3, <1>4 DEF IsInjective

\* The next command keeps the order, and the rule for the tunnel is behind it.
LEMMA TailInOrder ==
    ASSUME NEW s \in Seq(Commands), s # <<>>, InOrder(s)
    PROVE  /\ InOrder(Tail(s)) /\ Head(s) \notin ToSet(Tail(s))
           /\ \A f \in Families : Head(s) = Cmd("main", f) => Cmd("tunnel", f) \notin ToSet(s)
<1>1. IsInjective(Tail(s)) /\ Head(s) \notin ToSet(Tail(s))
  BY TailIsInjective DEF InOrder
<1>2. /\ Len(s) \in Nat /\ Len(s) # 0 /\ DOMAIN s = 1 .. Len(s) /\ Head(s) = s[1]
      /\ DOMAIN Tail(s) = 1 .. Len(s) - 1
      /\ \A i \in 1 .. Len(s) - 1 : Tail(s)[i] = s[i + 1]
  BY HeadTailProperties, LenProperties, EmptySeq
<1>3. ASSUME NEW f \in Families, NEW i \in DOMAIN Tail(s), NEW j \in DOMAIN Tail(s),
             Tail(s)[i] = Cmd("tunnel", f), Tail(s)[j] = Cmd("main", f)
      PROVE  i < j
  <2>1. i + 1 \in DOMAIN s /\ j + 1 \in DOMAIN s
    BY <1>2, <1>3
  <2>2. i + 1 < j + 1
    BY <1>2, <1>3, <2>1 DEF InOrder
  <2>q. QED
    BY <1>2, <1>3, <2>2
<1>4. ASSUME NEW f \in Families, Head(s) = Cmd("main", f), Cmd("tunnel", f) \in ToSet(s)
      PROVE  FALSE
  <2>1. PICK i \in 1 .. Len(s) : s[i] = Cmd("tunnel", f)
    BY <1>4, InList
  <2>2. 1 \in DOMAIN s
    BY <1>2
  <2>3. i < 1
    BY <1>2, <1>4, <2>1, <2>2 DEF InOrder
  <2>q. QED
    BY <1>2, <2>1, <2>3
<1>q. QED
  BY <1>1, <1>3, <1>4 DEF InOrder

-----------------------------------------------------------------------------
(* What a command does to what is left.                                    *)

LEMMA InLeftovers ==
    /\ \A d : d \in Leftovers <=>
           \/ d = Cmd("host", 4) /\ host # NoGateway
           \/ d \in tunRoutes /\ d.what \in Halves
           \/ d \in [what : Rules, fam : Families] /\ d.what \in ToSet(rules[d.fam])
    /\ \A d : d \in Leftovers' <=>
           \/ d = Cmd("host", 4) /\ host' # NoGateway
           \/ d \in tunRoutes' /\ d.what \in Halves
           \/ d \in [what : Rules, fam : Families] /\ d.what \in ToSet(rules'[d.fam])
BY DEF Leftovers

\* Nothing is left when nothing would be deleted.
LEMMA CleanIsEmpty == Types /\ Leftovers = {} => Clean
<1> SUFFICES ASSUME Types, Leftovers = {} PROVE Clean
  OBVIOUS
<1>1. host = NoGateway
  BY InLeftovers
<1>2. ASSUME NEW f \in Families PROVE rules[f] = <<>>
  <2>1. rules[f] \in Seq(Rules)
    BY DEF Types
  <2>2. ASSUME NEW r \in ToSet(rules[f]) PROVE FALSE
    <3>1. r \in Rules
      BY <2>1, <2>2, InList
    <3>2. Cmd(r, f) \in [what : Rules, fam : Families] /\ Cmd(r, f).what = r /\ Cmd(r, f).fam = f
      BY <3>1 DEF Cmd
    <3>q. QED
      BY <2>2, <3>2, InLeftovers
  <2>q. QED
    BY <2>1, <2>2, EmptyList
<1>3. tunRoutes \subseteq [what : {"table"}, fam : Families]
  BY InLeftovers DEF Types, Routes
<1>q. QED
  BY <1>1, <1>2, <1>3 DEF Clean

\* A command of Unset deletes its own part of what is left, and adds nothing.
LEMMA Deletes ==
    ASSUME Types, NEW c \in Commands, Delete(c)
    PROVE  /\ host' \in {host, NoGateway}
           /\ tunRoutes' \subseteq tunRoutes
           /\ rules' \in [Families -> Seq(Rules)]
           /\ \A f \in Families : IsInjective(rules'[f])
           /\ Leftovers' \subseteq Leftovers \ {c}
<1>0. /\ c.what \in {"host", "table"} \cup Halves \cup Rules /\ c.fam \in Families
      /\ c = Cmd(c.what, c.fam)
      /\ rules \in [Families -> Seq(Rules)] /\ \A f \in Families : IsInjective(rules[f])
      /\ "host" \notin Halves /\ "host" \notin Rules /\ Halves \cap Rules = {}
      /\ Cmd("host", 4).what = "host"
  BY CmdIs DEF Types, Commands, Halves, Rules
<1>1. CASE c.what = "host"
  <2>1. host' = NoGateway /\ UNCHANGED <<tunRoutes, rules>>
    BY <1>0, <1>1 DEF Delete
  <2>2. ASSUME NEW d \in Leftovers' PROVE d \in Leftovers /\ d.what # "host"
    BY <1>0, <2>1, <2>2, InLeftovers
  <2>q. QED
    BY <1>0, <1>1, <2>1, <2>2
<1>2. CASE c.what \in Halves
  <2>1. tunRoutes' = tunRoutes \ {c} /\ UNCHANGED <<host, rules>>
    BY <1>0, <1>2 DEF Delete
  <2>2. ASSUME NEW d \in Leftovers' PROVE d \in Leftovers /\ d # c
    BY <1>0, <1>2, <2>1, <2>2, InLeftovers
  <2>q. QED
    BY <1>0, <2>1, <2>2
<1>3. CASE c.what \notin {"host"} \cup Halves
  <2>1. rules' = [rules EXCEPT ![c.fam] = RemoveFirst(@, c.what)] /\ UNCHANGED <<host, tunRoutes>>
    BY <1>3 DEF Delete
  <2>2. /\ RemoveFirst(rules[c.fam], c.what) \in Seq(Rules)
        /\ IsInjective(RemoveFirst(rules[c.fam], c.what))
        /\ ToSet(RemoveFirst(rules[c.fam], c.what)) = ToSet(rules[c.fam]) \ {c.what}
    BY <1>0, RemoveFirstInjective
  <2>3. \A f \in Families :
            rules'[f] = IF f = c.fam THEN RemoveFirst(rules[c.fam], c.what) ELSE rules[f]
    BY <1>0, <2>1
  <2>4. rules' \in [Families -> Seq(Rules)] /\ \A f \in Families : IsInjective(rules'[f])
    BY <1>0, <2>1, <2>2, <2>3
  <2>5. ASSUME NEW d \in Leftovers' PROVE d \in Leftovers /\ d # c
    <3>1. CASE d \in [what : Rules, fam : Families] /\ d.what \in ToSet(rules'[d.fam])
      <4>1. d.what \in ToSet(rules[d.fam]) /\ (d.fam = c.fam => d.what # c.what)
        BY <2>2, <2>3, <3>1
      <4>q. QED
        BY <3>1, <4>1, InLeftovers
    <3>2. CASE ~(d \in [what : Rules, fam : Families] /\ d.what \in ToSet(rules'[d.fam]))
      BY <1>0, <1>3, <2>1, <2>5, <3>2, InLeftovers
    <3>q. QED
      BY <3>1, <3>2
  <2>q. QED
    BY <2>1, <2>4, <2>5
<1>q. QED
  BY <1>1, <1>2, <1>3

\* A command of Set adds no more than its counterpart of Unset deletes.
LEMMA Adds ==
    ASSUME Types, NEW c \in ToSet(SetCommands), NEW via \in Gateways \cup {NoGateway}, Add(c, via)
    PROVE  /\ host' \in Gateways \cup {NoGateway}
           /\ tunRoutes' = tunRoutes \cup ({c} \cap Routes)
           /\ c.what \in Rules =>
                /\ rules' = Added(c.fam, c.what)
                /\ c.fam \in Families
           /\ c.what \notin Rules => rules' = rules
           /\ rules' \in [Families -> Seq(Rules)]
           /\ \A f \in Families : IsInjective(rules'[f])
           /\ \A d \in Leftovers' : d \in Leftovers \/ (d = c /\ c.what # "table")
           /\ c # Cmd("host", 4) => host' = host
           /\ c = Cmd("host", 4) /\ host = NoGateway => host' = via /\ via \in Gateways
<1>0. /\ c.what \in {"host", "table"} \cup Halves \cup Rules /\ c.fam \in Families
      /\ c \in Commands /\ c = Cmd(c.what, c.fam)
      /\ rules \in [Families -> Seq(Rules)] /\ \A f \in Families : IsInjective(rules[f])
      /\ "host" \notin Halves /\ "host" \notin Rules /\ Halves \cap Rules = {}
      /\ "table" \notin Halves /\ "table" \notin Rules
      /\ host \in Gateways \cup {NoGateway}
  <2>1. c \in Commands
    BY SetHas, InList DEF Types
  <2>q. QED
    BY <2>1, CmdIs DEF Types, Commands, Halves, Rules
<1>h. c.what = "host" => c = Cmd("host", 4)
  <2>1. \A what, f : Cmd(what, f).what = what
    BY CmdIs
  <2>q. QED
    BY <1>0, <2>1, SetHas DEF Types
<1>n. c.what # "host" => c # Cmd("host", 4)
  BY CmdIs
<1>1. CASE c.what = "host"
  <2>1. /\ host' \in {host, via} /\ UNCHANGED <<tunRoutes, rules>> /\ c \notin Routes
        /\ via # NoGateway /\ (host = NoGateway => host' = via)
    BY <1>0, <1>1 DEF Add, Routes
  <2>2. \A d \in Leftovers' : d \in Leftovers \/ d = c
    BY <1>h, <1>1, <2>1, InLeftovers
  <2>q. QED
    BY <1>0, <1>h, <1>1, <2>1, <2>2
<1>2. CASE c.what \in Halves \cup {"table"}
  <2>1. tunRoutes' = tunRoutes \cup {c} /\ UNCHANGED <<host, rules>> /\ c \in Routes
    BY <1>0, <1>2 DEF Add, Routes, Commands
  <2>2. ASSUME NEW d \in Leftovers' PROVE d \in Leftovers \/ (d = c /\ c.what \in Halves)
    <3>1. rules' = rules /\ host' = host /\ (d \in tunRoutes' <=> d \in tunRoutes \/ d = c)
      BY <2>1
    <3>q. QED
      BY <2>2, <3>1, InLeftovers
  <2>3. c.what # "host"
    BY <1>0, <1>2
  <2>q. QED
    BY <1>0, <1>n, <1>2, <2>1, <2>2, <2>3
<1>3. CASE c.what \in Rules
  <2> DEFINE s == rules[c.fam]
  <2>1. rules' = Added(c.fam, c.what) /\ UNCHANGED <<host, tunRoutes>> /\ c \notin Routes
    BY <1>0, <1>3 DEF Add, Routes
  <2>2. s \in Seq(Rules) /\ IsInjective(s)
    BY <1>0
  <2>3. \A f \in Families : rules'[f] =
            IF f # c.fam \/ c.what \in ToSet(s) THEN rules[f] ELSE << c.what >> \o s
    BY <1>0, <2>1 DEF Added
  <2>4. c.what \notin ToSet(s) =>
            /\ << c.what >> \o s \in Seq(Rules) /\ IsInjective(<< c.what >> \o s)
            /\ ToSet(<< c.what >> \o s) = {c.what} \cup ToSet(s)
    BY <1>3, <2>2, InFront
  <2>5. rules' \in [Families -> Seq(Rules)] /\ \A f \in Families : IsInjective(rules'[f])
    <3>1. DOMAIN rules' = Families /\ rules' = [f \in Families |-> rules'[f]]
      BY <1>0, <2>1 DEF Added
    <3>q. QED
      BY <1>0, <2>3, <2>4, <3>1
  <2>6. \A f \in Families : ToSet(rules'[f]) \subseteq
            ToSet(rules[f]) \cup IF f = c.fam THEN {c.what} ELSE {}
    BY <2>3, <2>4
  <2>7. ASSUME NEW d \in Leftovers' PROVE d \in Leftovers \/ d = c
    <3>1. CASE d \in [what : Rules, fam : Families] /\ d.what \in ToSet(rules'[d.fam])
      <4>1. d.what \in ToSet(rules[d.fam]) \/ (d.what = c.what /\ d.fam = c.fam)
        BY <2>6, <3>1
      <4>2. d = Cmd(d.what, d.fam)
        BY <3>1 DEF Cmd
      <4>q. QED
        BY <1>0, <3>1, <4>1, <4>2, InLeftovers
    <3>2. CASE ~(d \in [what : Rules, fam : Families] /\ d.what \in ToSet(rules'[d.fam]))
      BY <2>1, <2>7, <3>2, InLeftovers
    <3>q. QED
      BY <3>1, <3>2
  <2>8. c.what # "host"
    BY <1>0, <1>3
  <2>q. QED
    BY <1>0, <1>n, <1>3, <2>1, <2>5, <2>7, <2>8
<1>q. QED
  BY <1>0, <1>1, <1>2, <1>3

-----------------------------------------------------------------------------
(* The steps.                                                              *)

LEMMA InitIInv == Init => IInv
<1> SUFFICES ASSUME Init PROVE IInv
  OBVIOUS
<1> USE DEF Init, Idle, NoStop
<1>0. <<>> \in Seq(Commands) /\ <<>> \in Seq(Rules) /\ IsInjective(<<>>) /\ ToSet(<<>>) = {}
  BY DEF IsInjective, ToSet
<1>1. Types
  <2>1. rules \in [Families -> Seq(Rules)] /\ \A f \in Families : rules[f] = <<>>
    BY <1>0
  <2>2. 0 \in 0 .. MaxRuns
    BY ClientRoutesAssumption
  <2>q. QED
    BY <1>0, <2>1, <2>2 DEF Types
<1>2. Leftovers = {}
  BY <1>0 DEF Leftovers
<1>q. QED
  BY <1>1, <1>2 DEF IInv, Flow, Unsets, Sets

\* Leftovers, and the lists of commands, are those of the kernel's state.
LEMMA KernelFrame ==
    /\ UNCHANGED <<host, tunRoutes, rules>> => Leftovers' = Leftovers
    /\ UNCHANGED platform => SetCommands' = SetCommands /\ UnsetCommands' = UnsetCommands
    /\ UNCHANGED <<rules, lacks>> => \A f, left : RulesFollow(f, left)' <=> RulesFollow(f, left)
BY DEF Leftovers, SetCommands, UnsetCommands, RouteCommands, RulesFollow

\* Reconnect begins: what is left is among the commands it has to run.
LEMMA ReconnectStep == ASSUME IInv, Reconnect PROVE IInv'
<1> USE DEF IInv
<1>0. /\ Types /\ Flow /\ Unsets
      /\ io' = [at |-> "unset", cmds |-> UnsetCommands, via |-> NoGateway]
      /\ stop' = [stop EXCEPT !.alone = stop.at = "none"]
      /\ runs < MaxRuns /\ runs' = runs + 1
      /\ UNCHANGED <<platform, gw, host, tunRoutes, rules, lacks>>
  BY DEF Reconnect, kernel
<1>1. UnsetCommands \in Seq(Commands)
  BY <1>0, UnsetHas DEF Types
<1>2. /\ io'.at = "unset" /\ io'.cmds = UnsetCommands
      /\ stop'.at = stop.at /\ stop'.alone = (stop.at = "none")
  BY <1>0 DEF Types
<1>3. Types'
  <2>1. io' \in [at : {"down", "unset", "connect", "set", "up"}, cmds : Seq(Commands),
                 via : Gateways \cup {NoGateway}]
    BY <1>0, <1>1
  <2>2. stop' \in [at : {"none", "unset", "done"}, cmds : Seq(Commands), alone : BOOLEAN]
    BY <1>0 DEF Types
  <2>3. runs' \in 0 .. MaxRuns
    BY <1>0, ClientRoutesAssumption DEF Types
  <2>q. QED
    BY <1>0, <2>1, <2>2, <2>3 DEF Types
<1>4. Flow' /\ Unsets' /\ Sets'
  BY <1>0, <1>2, KernelFrame DEF Flow, Unsets, Sets
<1>q. QED
  BY <1>3, <1>4

\* A command of Unset, of Reconnect or of Stop.
LEMMA UnsetStep == ASSUME IInv, Unset PROVE IInv'
<1> USE DEF IInv
<1>0. /\ Types /\ Flow /\ Unsets /\ io.at = "unset" /\ io.cmds \in Seq(Commands)
      /\ UNCHANGED <<platform, gw, lacks, stop, runs>>
      /\ ~(stop.at # "none" /\ stop.alone)
  BY DEF Unset, Types, Flow
<1>1. CASE io.cmds = <<>>
  <2>1. io' = [io EXCEPT !.at = "connect"] /\ UNCHANGED <<host, tunRoutes, rules>>
    BY <1>1 DEF Unset
  <2>2. io'.at = "connect"
    BY <1>0, <2>1 DEF Types
  <2>3. Types'
    BY <1>0, <2>1 DEF Types
  <2>4. Leftovers = {}
    BY <1>0, <1>1 DEF Unsets, ToSet
  <2>q. QED
    BY <1>0, <2>1, <2>2, <2>3, <2>4, KernelFrame DEF Flow, Unsets, Sets
<1>2. CASE io.cmds # <<>>
  <2>1. Delete(Head(io.cmds)) /\ io' = [io EXCEPT !.cmds = Tail(@)]
    BY <1>2 DEF Unset
  <2>2. PICK c \in Commands : c = Head(io.cmds) /\ ToSet(io.cmds) = {c} \cup ToSet(Tail(io.cmds))
                              /\ Tail(io.cmds) \in Seq(Commands)
    BY <1>0, <1>2, HeadAndTail
  <2>3. /\ host' \in {host, NoGateway} /\ tunRoutes' \subseteq tunRoutes
        /\ rules' \in [Families -> Seq(Rules)] /\ \A f \in Families : IsInjective(rules'[f])
        /\ Leftovers' \subseteq Leftovers \ {c}
    BY <1>0, <2>1, <2>2, Deletes
  <2>4. io'.at = "unset" /\ io'.cmds = Tail(io.cmds)
    BY <1>0, <2>1 DEF Types
  <2>5. Types'
    <3>1. io' \in [at : {"down", "unset", "connect", "set", "up"}, cmds : Seq(Commands),
                   via : Gateways \cup {NoGateway}]
      BY <1>0, <2>1, <2>2 DEF Types
    <3>q. QED
      BY <1>0, <2>3, <3>1 DEF Types
  <2>6. Leftovers \subseteq ToSet(UnsetCommands) /\ Leftovers \subseteq ToSet(io.cmds)
    BY <1>0 DEF Unsets
  <2>7. Leftovers' \subseteq ToSet(UnsetCommands) /\ Leftovers' \subseteq ToSet(Tail(io.cmds))
    BY <2>2, <2>3, <2>6
  <2>q. QED
    BY <1>0, <2>4, <2>5, <2>7, KernelFrame DEF Flow, Unsets, Sets
<1>q. QED
  BY <1>1, <1>2

LEMMA StopUnsetStep == ASSUME IInv, StopUnset PROVE IInv'
<1> USE DEF IInv
<1>0. /\ Types /\ Flow /\ Unsets /\ stop.at = "unset" /\ stop.cmds \in Seq(Commands)
      /\ UNCHANGED <<platform, gw, lacks, io, runs>>
      /\ stop.alone \in BOOLEAN /\ (stop.alone => io.at = "up")
  BY DEF StopUnset, Types, Flow
<1>1. CASE stop.cmds = <<>>
  <2>1. stop' = [stop EXCEPT !.at = "done"] /\ UNCHANGED <<host, tunRoutes, rules>>
    BY <1>1 DEF StopUnset
  <2>2. stop'.at = "done" /\ stop'.alone = stop.alone
    BY <1>0, <2>1 DEF Types
  <2>3. Types'
    BY <1>0, <2>1 DEF Types
  <2>4. stop.alone => Leftovers = {}
    BY <1>0, <1>1 DEF Unsets, ToSet
  <2>5. Flow' /\ Sets'
    BY <1>0, <2>2, KernelFrame DEF Flow, Sets
  <2>6. Unsets'
    BY <1>0, <2>1, <2>2, <2>4, KernelFrame DEF Unsets
  <2>q. QED
    BY <2>3, <2>5, <2>6
<1>2. CASE stop.cmds # <<>>
  <2>1. Delete(Head(stop.cmds)) /\ stop' = [stop EXCEPT !.cmds = Tail(@)]
    BY <1>2 DEF StopUnset
  <2>2. PICK c \in Commands : c = Head(stop.cmds) /\ ToSet(stop.cmds) = {c} \cup ToSet(Tail(stop.cmds))
                              /\ Tail(stop.cmds) \in Seq(Commands)
    BY <1>0, <1>2, HeadAndTail
  <2>3. /\ host' \in {host, NoGateway} /\ tunRoutes' \subseteq tunRoutes
        /\ rules' \in [Families -> Seq(Rules)] /\ \A f \in Families : IsInjective(rules'[f])
        /\ Leftovers' \subseteq Leftovers \ {c}
    BY <1>0, <2>1, <2>2, Deletes
  <2>4. stop'.at = "unset" /\ stop'.alone = stop.alone /\ stop'.cmds = Tail(stop.cmds)
    BY <1>0, <2>1 DEF Types
  <2>5. Types'
    <3>1. stop' \in [at : {"none", "unset", "done"}, cmds : Seq(Commands), alone : BOOLEAN]
      BY <1>0, <2>1, <2>2 DEF Types
    <3>q. QED
      BY <1>0, <2>3, <3>1 DEF Types
  <2>6. Flow' /\ Sets'
    BY <1>0, <2>4, KernelFrame DEF Flow, Sets
  <2>7. Unsets'
    <3>1. stop.alone => Leftovers' \subseteq ToSet(Tail(stop.cmds))
      BY <1>0, <2>2, <2>3 DEF Unsets
    <3>2. Leftovers' \subseteq Leftovers /\ Leftovers' \subseteq ToSet(UnsetCommands)
      BY <1>0, <2>3 DEF Unsets
    <3>q. QED
      BY <1>0, <2>4, <3>1, <3>2, KernelFrame DEF Unsets
  <2>q. QED
    BY <2>5, <2>6, <2>7
<1>q. QED
  BY <1>1, <1>2

\* Set begins, in a routing that has nothing left.
LEMMA SetBeginsStep == ASSUME IInv, SetBegins PROVE IInv'
<1> USE DEF IInv
<1>0. /\ Types /\ Flow /\ Unsets /\ io.at = "connect" /\ Leftovers = {}
      /\ io' = [at |-> "set", cmds |-> SetCommands, via |-> gw]
      /\ lacks' = {}
      /\ UNCHANGED <<platform, gw, host, tunRoutes, rules, stop, runs>>
  BY DEF SetBegins, kernel, Unsets
<1>1. platform \in {"linux", "osx"} /\ SetCommands \in Seq(Commands)
  BY <1>0, SetHas DEF Types
<1>2. Types'
  BY <1>0, <1>1 DEF Types
<1>3. io'.at = "set" /\ io'.cmds = SetCommands
  BY <1>0
<1>4. Flow'
  <2>1. InOrder(SetCommands)' <=> InOrder(SetCommands)
    BY <1>0, KernelFrame DEF InOrder
  <2>2. InOrder(io'.cmds)
    BY <1>1, <1>3, SetInOrder
  <2>3. ToSet(io'.cmds) \subseteq ToSet(SetCommands')
    BY <1>0, <1>3, KernelFrame
  <2>q. QED
    BY <1>0, <1>3, <2>2, <2>3 DEF Flow, InOrder
<1>5. Unsets'
  BY <1>0, <1>3, KernelFrame DEF Unsets
<1>6. Sets'
  <2>1. ToSet(SetCommands') \cap Routes \subseteq tunRoutes' \cup ToSet(io'.cmds) \cup lacks'
    BY <1>0, <1>3, KernelFrame
  <2>2. ASSUME platform = "linux", NEW f \in Families
        PROVE  RulesFollow(f, ToSet(io.cmds))'
    <3>1. Cmd("tunnel", f) \in ToSet(SetCommands) /\ Cmd("main", f) \in ToSet(SetCommands)
      BY <2>2, SetHas DEF Rules
    <3>2. rules[f] = <<>>
      BY <1>0, CleanIsEmpty DEF Clean
    <3>3. /\ Cmd("tunnel", f) \in ToSet(io'.cmds) /\ Cmd("main", f) \in ToSet(io'.cmds)
          /\ rules'[f] = <<>>
      BY <1>0, <1>3, <3>1, <3>2
    <3>q. QED
      BY <3>3 DEF RulesFollow
  <2>3. platform' = "linux" => \A f \in Families : RulesFollow(f, ToSet(io.cmds))'
    BY <1>0, <2>2
  <2>4. HostFollows(ToSet(io.cmds))'
    <3>1. host = NoGateway
      BY <1>0, CleanIsEmpty DEF Clean
    <3>2. Cmd("host", 4) \in ToSet(SetCommands)
      BY <1>1, SetHas
    <3>q. QED
      BY <1>0, <1>3, <3>1, <3>2 DEF HostFollows
  <2>q. QED
    BY <1>0, <2>1, <2>3, <2>4 DEF Sets
<1>q. QED
  BY <1>2, <1>4, <1>5, <1>6

\* A command of Set takes the rules of its family one step on, or fails.
LEMMA RulesStep ==
    ASSUME Types, io.cmds # <<>>, InOrder(io.cmds), platform = "linux",
           NEW c \in Commands, c = Head(io.cmds), io'.cmds = Tail(io.cmds),
           \/ /\ c.what \in Rules => rules' = Added(c.fam, c.what)
              /\ c.what \notin Rules => rules' = rules
              /\ lacks' = lacks
           \/ rules' = rules /\ lacks' = lacks \cup {c},
           c \notin lacks,
           NEW f \in Families, RulesFollow(f, ToSet(io.cmds))
    PROVE  RulesFollow(f, ToSet(io.cmds))'
<1> DEFINE all      == ToSet(io.cmds)
           left     == ToSet(Tail(io.cmds))
           t        == Cmd("tunnel", f)
           m        == Cmd("main", f)
           gone(d)  == d \in all \cup lacks
           gone2(d) == d \in left \cup lacks'
<1>0. /\ io.cmds \in Seq(Commands) /\ rules \in [Families -> Seq(Rules)]
      /\ c.what \in {"host", "table"} \cup Halves \cup Rules /\ c.fam \in Families
      /\ c = Cmd(c.what, c.fam)
      /\ t.what = "tunnel" /\ t.fam = f /\ m.what = "main" /\ m.fam = f
  BY CmdIs DEF Types, Commands
<1>1. /\ \A d : d \in all <=> d = c \/ d \in left
      /\ c \notin left /\ (c = m => t \notin all)
  BY <1>0, HeadAndTail, TailInOrder
<1>2. /\ t \in all => m \in all
      /\ rules[f] = IF gone(m) THEN IF gone(t) THEN <<>> ELSE << "tunnel" >>
                    ELSE IF gone(t) THEN << "main" >> ELSE << "main", "tunnel" >>
  BY DEF RulesFollow
<1>s. SUFFICES
        /\ t \in left => m \in left
        /\ rules'[f] = IF gone2(m) THEN IF gone2(t) THEN <<>> ELSE << "tunnel" >>
                       ELSE IF gone2(t) THEN << "main" >> ELSE << "main", "tunnel" >>
  BY DEF RulesFollow
<1> HIDE DEF all, left, t, m
<1>3. t # m
  BY <1>0
<1>4. t \in left => m \in left
  BY <1>1, <1>2
<1>5. CASE rules' = rules /\ lacks' = lacks \cup {c}
  <2>1. (gone2(m) <=> gone(m)) /\ (gone2(t) <=> gone(t))
    BY <1>1, <1>5
  <2>q. QED
    BY <1>2, <1>4, <1>5, <2>1
<1>6. CASE lacks' = lacks /\ c = t /\ rules' = Added(c.fam, c.what)
  <2>1. ~gone2(t) /\ gone2(m) /\ rules[f] = <<>>
    BY <1>1, <1>2, <1>3, <1>6
  <2>2. rules' = Added(f, "tunnel") /\ "tunnel" \notin ToSet(rules[f])
    BY <1>0, <1>6, <2>1 DEF ToSet
  <2>3. << "tunnel" >> \o <<>> = << "tunnel" >>
    OBVIOUS
  <2>4. rules'[f] = << "tunnel" >>
    BY <1>0, <2>1, <2>2, <2>3 DEF Added
  <2>q. QED
    BY <1>4, <2>1, <2>4
<1>7. CASE lacks' = lacks /\ c = m /\ rules' = Added(c.fam, c.what)
  <2>1. ~gone2(m) /\ gone(m) /\ (gone2(t) <=> gone(t))
    BY <1>1, <1>3, <1>7
  <2>2. rules[f] = IF gone(t) THEN <<>> ELSE << "tunnel" >>
    BY <1>2, <2>1
  <2>3. rules' = Added(f, "main") /\ "main" \notin ToSet(rules[f])
    BY <1>0, <1>7, <2>2 DEF ToSet
  <2>4. << "main" >> \o <<>> = << "main" >> /\ << "main" >> \o << "tunnel" >> = << "main", "tunnel" >>
    BY Join11
  <2>5. rules'[f] = << "main" >> \o rules[f]
    BY <1>0, <2>3 DEF Added
  <2>6. rules'[f] = IF gone(t) THEN << "main" >> ELSE << "main", "tunnel" >>
    BY <2>2, <2>4, <2>5
  <2>q. QED
    BY <1>4, <2>1, <2>6
<1>8. CASE lacks' = lacks /\ c # t /\ c # m
           /\ (rules' = rules \/ (c.what \in Rules /\ rules' = Added(c.fam, c.what)))
  <2>1. (gone2(m) <=> gone(m)) /\ (gone2(t) <=> gone(t))
    BY <1>1, <1>8
  <2>2. c.what \in Rules => c.fam # f
    BY <1>0, <1>8 DEF Rules, t, m
  <2>3. rules'[f] = rules[f]
    BY <1>0, <1>8, <2>2 DEF Added
  <2>q. QED
    BY <1>2, <1>4, <2>1, <2>3
<1>9. c = t \/ c = m => c.what \in Rules
  BY <1>0 DEF Rules
<1>10. \/ rules' = rules /\ lacks' = lacks \cup {c}
       \/ c.what \in Rules /\ rules' = Added(c.fam, c.what) /\ lacks' = lacks
       \/ c.what \notin Rules /\ rules' = rules /\ lacks' = lacks
  OBVIOUS
<1>11. CASE lacks' = lacks /\ c.what \in Rules /\ rules' = Added(c.fam, c.what)
  <2>1. CASE c = t
    BY <1>6, <1>11, <2>1
  <2>2. CASE c = m
    BY <1>7, <1>11, <2>2
  <2>3. CASE c # t /\ c # m
    BY <1>8, <1>11, <2>3
  <2>q. QED
    BY <2>1, <2>2, <2>3
<1>12. CASE lacks' = lacks /\ c.what \notin Rules /\ rules' = rules
  <2>1. c # t /\ c # m
    BY <1>9, <1>12
  <2>2. CASE lacks' = lacks /\ c # t /\ c # m /\ rules' = rules
    BY <1>8, <2>2
  <2>q. QED
    BY <1>12, <2>1, <2>2
<1> HIDE DEF gone, gone2
<1>q. QED
  BY <1>5, <1>10, <1>11, <1>12

LEMMA SetStep == ASSUME IInv, Set PROVE IInv'
<1> USE DEF IInv
<1>0. /\ Types /\ Flow /\ Unsets /\ Sets
      /\ io.at = "set" /\ io.cmds \in Seq(Commands) /\ io.via \in Gateways \cup {NoGateway}
      /\ UNCHANGED <<platform, gw, stop, runs>>
      /\ ~(stop.at # "none" /\ stop.alone)
      /\ ToSet(io.cmds) \subseteq ToSet(SetCommands) /\ InOrder(io.cmds)
      /\ platform \in {"linux", "osx"}
  BY DEF Set, Types, Flow
<1>1. CASE io.cmds = <<>>
  <2>1. io' = [io EXCEPT !.at = "up"] /\ UNCHANGED <<host, tunRoutes, rules, lacks>>
    BY <1>1 DEF Set
  <2>2. io'.at = "up" /\ io'.cmds = io.cmds /\ io'.via = io.via
    BY <1>0, <2>1 DEF Types
  <2>3. Types'
    BY <1>0, <2>1 DEF Types
  <2>4. Flow' /\ Unsets'
    BY <1>0, <1>1, <2>1, <2>2, KernelFrame DEF Flow, Unsets
  <2>5. Sets'
    BY <1>0, <2>1, <2>2, KernelFrame DEF Sets, HostFollows
  <2>q. QED
    BY <2>3, <2>4, <2>5
<1>2. CASE io.cmds # <<>>
  <2>1. /\ io' = [io EXCEPT !.cmds = Tail(@)]
        /\ \/ Add(Head(io.cmds), io.via) /\ lacks' = lacks
           \/ /\ lacks' = lacks \cup {Head(io.cmds)}
              /\ UNCHANGED <<host, tunRoutes, rules>>
    BY <1>2 DEF Set
  <2>2. PICK c \in Commands : c = Head(io.cmds) /\ ToSet(io.cmds) = {c} \cup ToSet(Tail(io.cmds))
                              /\ Tail(io.cmds) \in Seq(Commands)
    BY <1>0, <1>2, HeadAndTail
  <2>3. /\ host' \in Gateways \cup {NoGateway}
        /\ tunRoutes' \subseteq tunRoutes \cup ({c} \cap Routes)
        /\ rules' \in [Families -> Seq(Rules)] /\ \A f \in Families : IsInjective(rules'[f])
        /\ \A d \in Leftovers' : d \in Leftovers \/ (d = c /\ c.what # "table")
        /\ lacks' \subseteq lacks \cup {c}
    <3>1. CASE Add(c, io.via) /\ lacks' = lacks
      <4>1. c \in ToSet(SetCommands)
        BY <1>0, <2>2
      <4>q. QED
        BY <1>0, <3>1, <4>1, Adds
    <3>2. CASE lacks' = lacks \cup {c} /\ UNCHANGED <<host, tunRoutes, rules>>
      <4>1. Leftovers' = Leftovers
        BY <3>2, KernelFrame
      <4>q. QED
        BY <1>0, <3>2, <4>1 DEF Types
    <3>q. QED
      BY <2>1, <2>2, <3>1, <3>2
  <2>b. /\ tunRoutes \subseteq tunRoutes'
        /\ \/ /\ c.what \in Rules => rules' = Added(c.fam, c.what)
              /\ c.what \notin Rules => rules' = rules
              /\ lacks' = lacks /\ {c} \cap Routes \subseteq tunRoutes'
              /\ c # Cmd("host", 4) => host' = host
              /\ c = Cmd("host", 4) /\ host = NoGateway => host' = io.via /\ io.via \in Gateways
           \/ rules' = rules /\ lacks' = lacks \cup {c} /\ host' = host
    <3>1. CASE Add(c, io.via) /\ lacks' = lacks
      <4>1. c \in ToSet(SetCommands)
        BY <1>0, <2>2
      <4>q. QED
        BY <1>0, <3>1, <4>1, Adds
    <3>q. QED
      BY <2>1, <2>2, <3>1
  <2>4. io'.at = "set" /\ io'.cmds = Tail(io.cmds) /\ io'.via = io.via
    BY <1>0, <2>1 DEF Types
  <2>5. Types'
    <3>1. io' \in [at : {"down", "unset", "connect", "set", "up"}, cmds : Seq(Commands),
                   via : Gateways \cup {NoGateway}]
      BY <1>0, <2>1, <2>2 DEF Types
    <3>2. tunRoutes' \subseteq Routes
      BY <1>0, <2>3 DEF Types
    <3>q. QED
      BY <1>0, <2>3, <3>1, <3>2 DEF Types
  <2>6. Flow'
    <3>1. InOrder(Tail(io.cmds)) /\ ToSet(Tail(io.cmds)) \subseteq ToSet(SetCommands')
      BY <1>0, <1>2, <2>2, TailInOrder, KernelFrame
    <3>2. InOrder(io.cmds)'
      BY <2>4, <3>1 DEF InOrder
    <3>q. QED
      BY <1>0, <2>4, <3>1, <3>2 DEF Flow
  <2>7. Unsets'
    <3>1. c.what # "table" => c \in ToSet(UnsetCommands)
      BY <1>0, <2>2, UnsetUndoesSet
    <3>2. Leftovers' \subseteq ToSet(UnsetCommands')
      BY <1>0, <2>3, <3>1, KernelFrame DEF Unsets
    <3>q. QED
      BY <1>0, <2>4, <3>2 DEF Unsets
  <2>8. Sets'
    <3>1. SUFFICES ASSUME stop.at = "none" PROVE Sets'
      BY <1>0 DEF Sets
    <3>2. /\ ToSet(SetCommands) \cap Routes \subseteq tunRoutes \cup ToSet(io.cmds) \cup lacks
          /\ platform = "linux" => \A f \in Families : RulesFollow(f, ToSet(io.cmds))
          /\ HostFollows(ToSet(io.cmds)) /\ ToSet(io.cmds) \cap lacks = {}
      BY <1>0, <3>1 DEF Sets
    <3>3. ToSet(SetCommands') \cap Routes \subseteq tunRoutes' \cup ToSet(io'.cmds) \cup lacks'
      BY <1>0, <2>2, <2>b, <2>4, <3>2, KernelFrame
    <3>4. ASSUME platform = "linux", NEW f \in Families PROVE RulesFollow(f, ToSet(io.cmds))'
      <4>1. c \notin lacks
        BY <2>2, <3>2
      <4>2. \/ /\ c.what \in Rules => rules' = Added(c.fam, c.what)
               /\ c.what \notin Rules => rules' = rules
               /\ lacks' = lacks
            \/ rules' = rules /\ lacks' = lacks \cup {c}
        BY <2>b
      <4>q. QED
        BY <1>0, <1>2, <2>2, <2>4, <3>2, <3>4, <4>1, <4>2, RulesStep
    <3>5. c \notin ToSet(Tail(io.cmds))
      BY <1>0, <1>2, <2>2, TailInOrder
    <3>6. HostFollows(ToSet(io.cmds))'
      <4>1. HostFollows(ToSet(io.cmds))' <=>
              /\ Cmd("host", 4) \in ToSet(Tail(io.cmds)) => host' = NoGateway
              /\ Cmd("host", 4) \notin ToSet(Tail(io.cmds)) \cup lacks' =>
                     host' = io.via /\ io.via \in Gateways
        BY <2>4 DEF HostFollows
      <4>2. /\ Cmd("host", 4) \in ToSet(io.cmds) => host = NoGateway
            /\ Cmd("host", 4) \notin ToSet(io.cmds) \cup lacks => host = io.via /\ io.via \in Gateways
        BY <3>2 DEF HostFollows
      <4>q. QED
        BY <2>2, <2>b, <3>5, <4>1, <4>2
    <3>7. ToSet(io'.cmds) \cap lacks' = {}
      BY <2>2, <2>b, <2>4, <3>2, <3>5
    <3>q. QED
      BY <1>0, <3>3, <3>4, <3>6, <3>7 DEF Sets
  <2>q. QED
    BY <2>5, <2>6, <2>7, <2>8
<1>q. QED
  BY <1>1, <1>2

\* Stop begins, and everything that is nobody's command.
LEMMA OtherStep ==
    ASSUME IInv, Stop \/ Exit \/ Roam \/ LinkDown \/ UNCHANGED vars
    PROVE  IInv'
<1> USE DEF IInv
<1>0. Types /\ Flow /\ Unsets /\ Sets /\ platform \in {"linux", "osx"}
  BY DEF Types
<1>1. CASE Stop
  <2>1. /\ stop' = [at |-> "unset", cmds |-> UnsetCommands, alone |-> io.at = "up"]
        /\ UNCHANGED <<platform, gw, host, tunRoutes, rules, lacks, io, runs>>
    BY <1>1 DEF Stop, kernel
  <2>2. stop'.at = "unset" /\ stop'.cmds = UnsetCommands /\ stop'.alone = (io.at = "up")
    BY <2>1
  <2>3. Types'
    <3>1. stop' \in [at : {"none", "unset", "done"}, cmds : Seq(Commands), alone : BOOLEAN]
      BY <1>0, <2>1, UnsetHas
    <3>q. QED
      BY <1>0, <2>1, <3>1 DEF Types
  <2>4. Flow'
    BY <1>0, <2>1, <2>2, KernelFrame DEF Flow, InOrder
  <2>5. Unsets' /\ Sets'
    BY <1>0, <2>1, <2>2, KernelFrame DEF Unsets, Sets
  <2>q. QED
    BY <2>3, <2>4, <2>5
<1>2. CASE Exit
  <2>1. /\ io' = Idle /\ stop' = NoStop /\ tunRoutes' = {}
        /\ UNCHANGED <<platform, gw, host, rules, lacks, runs>>
    BY <1>2 DEF Exit
  <2>2. io'.at = "down" /\ stop'.at = "none"
    BY <2>1 DEF Idle, NoStop
  <2>3. Types'
    <3>1. /\ io' \in [at : {"down", "unset", "connect", "set", "up"}, cmds : Seq(Commands),
                      via : Gateways \cup {NoGateway}]
          /\ stop' \in [at : {"none", "unset", "done"}, cmds : Seq(Commands), alone : BOOLEAN]
      BY <2>1 DEF Idle, NoStop
    <3>q. QED
      BY <1>0, <2>1, <3>1 DEF Types
  <2>4. Leftovers' \subseteq Leftovers
    BY <2>1 DEF Leftovers
  <2>q. QED
    BY <1>0, <2>1, <2>2, <2>3, <2>4, KernelFrame DEF Flow, Unsets, Sets
<1>3. CASE Roam \/ LinkDown \/ UNCHANGED vars
  <2>1. /\ gw' \in Gateways \cup {NoGateway}
        /\ \/ host' = host /\ lacks' = lacks
           \/ host' = NoGateway /\ host = NoGateway /\ lacks' = lacks
           \/ host' = NoGateway /\ host # NoGateway /\ lacks' = lacks \cup {Cmd("host", 4)}
        /\ UNCHANGED <<platform, tunRoutes, rules, io, stop, runs>>
    BY <1>0, <1>3 DEF Roam, LinkDown, vars, kernel, Types
  <2>2. Types'
    <3>1. Cmd("host", 4) \in Commands
      BY FamiliesAre DEF Cmd, Commands
    <3>q. QED
      BY <1>0, <2>1, <3>1 DEF Types
  <2>3. Leftovers' \subseteq Leftovers
    BY <2>1 DEF Leftovers
  <2>4. Flow'
    BY <1>0, <2>1, KernelFrame DEF Flow, InOrder
  <2>5. Unsets'
    BY <1>0, <2>1, <2>3, KernelFrame DEF Unsets
  <2>6. Sets'
    <3>1. SUFFICES ASSUME io.at \in {"set", "up"}, stop.at = "none" PROVE Sets'
      BY <2>1 DEF Sets
    <3>2. /\ ToSet(SetCommands) \cap Routes \subseteq tunRoutes \cup ToSet(io.cmds) \cup lacks
          /\ platform = "linux" => \A f \in Families : RulesFollow(f, ToSet(io.cmds))
          /\ HostFollows(ToSet(io.cmds)) /\ ToSet(io.cmds) \cap lacks = {}
      BY <1>0, <3>1 DEF Sets
    <3>3. \A f : Cmd("tunnel", f) # Cmd("host", 4) /\ Cmd("main", f) # Cmd("host", 4)
      BY DEF Cmd
    <3>4. /\ SetCommands' = SetCommands
          /\ ToSet(SetCommands) \cap Routes \subseteq tunRoutes \cup ToSet(io.cmds) \cup lacks'
      BY <2>1, <3>2, KernelFrame
    <3>5. ASSUME platform = "linux", NEW f \in Families PROVE RulesFollow(f, ToSet(io.cmds))'
      BY <2>1, <3>2, <3>3, <3>5 DEF RulesFollow
    <3>6. HostFollows(ToSet(io.cmds))'
      BY <2>1, <3>2 DEF HostFollows
    <3>7. ToSet(io.cmds) \cap lacks' = {}
      BY <2>1, <3>2 DEF HostFollows
    <3>q. QED
      BY <2>1, <3>4, <3>5, <3>6, <3>7 DEF Sets
  <2>q. QED
    BY <2>2, <2>4, <2>5, <2>6
<1>q. QED
  BY <1>1, <1>2, <1>3

LEMMA NextIInv == IInv /\ [Next]_vars => IInv'
BY ReconnectStep, UnsetStep, SetBeginsStep, SetStep, StopUnsetStep, OtherStep DEF Next

-----------------------------------------------------------------------------
\* The inductive invariant, on either platform.
THEOREM Invariance == Spec => []IInv
BY InitIInv, NextIInv, PTL DEF Spec

\* Routes, rules and the threads that run the commands keep their types.
THEOREM TypeCorrect == Spec => []TypeOK
<1>1. IInv => TypeOK
  BY DEF IInv, Types, TypeOK, Routes, Rules, Commands
<1>q. QED
  BY <1>1, Invariance, PTL

\* Between UnsetClientDefaultRoute and SetClientDefaultRoute nothing is left of
\* an earlier connection or process, wherever it was interrupted.
THEOREM ConnectsClean == Spec => []CleanWhenConnecting
<1>1. IInv => CleanWhenConnecting
  BY CleanIsEmpty DEF IInv, Unsets, CleanWhenConnecting
<1>q. QED
  BY <1>1, Invariance, PTL

\* A Client::Stop that no Reconnect overlaps leaves nothing behind.
THEOREM StopsClean == Spec => []StopIsClean
<1>1. IInv => StopIsClean
  BY CleanIsEmpty DEF IInv, Unsets, StopIsClean
<1>q. QED
  BY <1>1, Invariance, PTL

\* The rules and routes of a tunnel that is up and not being stopped.
LEMMA UpRouting ==
    ASSUME IInv, io.at = "up", stop.at = "none", NEW f \in Families
    PROVE  /\ platform = "linux" =>
                  /\ rules[f] \in {<<>>, << "tunnel" >>, << "main" >>, << "main", "tunnel" >>}
                  /\ Cmd("tunnel", f) \notin lacks =>
                         rules[f] \in {<< "tunnel" >>, << "main", "tunnel" >>}
                  /\ Cmd("main", f) \notin lacks =>
                         rules[f] \in {<< "main" >>, << "main", "tunnel" >>}
                  /\ Cmd("table", f) \notin lacks => Cmd("table", f) \in tunRoutes
           /\ platform = "osx" =>
                  /\ rules[f] = <<>>
                  /\ \A half \in Halves : Cmd(half, f) \notin lacks => Cmd(half, f) \in tunRoutes
           /\ Cmd("host", 4) \notin lacks => host = io.via /\ io.via \in Gateways
<1> USE DEF IInv
<1>1. /\ ToSet(io.cmds) = {} /\ ToSet(SetCommands) \cap Routes \subseteq tunRoutes \cup lacks
      /\ platform \in {"linux", "osx"}
  BY DEF Types, Flow, Sets, ToSet
<1>2. \A what \in Halves \cup {"table"} : Cmd(what, f) \in Routes
  BY DEF Cmd, Routes
<1>5. Cmd("host", 4) \notin lacks => host = io.via /\ io.via \in Gateways
  BY <1>1 DEF Sets, HostFollows
<1>3. CASE platform = "linux"
  <2>1. RulesFollow(f, {})
    BY <1>1, <1>3 DEF Sets
  <2>2. Cmd("table", f) \in ToSet(SetCommands)
    BY <1>3, SetHas DEF Rules
  <2>q. QED
    BY <1>1, <1>2, <1>3, <1>5, <2>1, <2>2 DEF RulesFollow
<1>4. CASE platform = "osx"
  <2>1. \A half \in Halves : Cmd(half, f) \in ToSet(SetCommands)
    BY <1>4, SetHas
  <2>2. ASSUME NEW r \in ToSet(rules[f]) PROVE FALSE
    <3>1. r \in Rules
      BY <2>2, InList DEF Types
    <3>2. Cmd(r, f) \in [what : Rules, fam : Families] /\ Cmd(r, f).what = r /\ Cmd(r, f).fam = f
      BY <3>1 DEF Cmd
    <3>3. Cmd(r, f) \in ToSet(UnsetCommands)
      BY <2>2, <3>2, InLeftovers DEF Unsets
    <3>4. Cmd(r, f) = Cmd("host", 4) \/ \E half \in Halves, g \in Families : Cmd(r, f) = Cmd(half, g)
      BY <1>4, <3>3, UnsetHas
    <3>5. r = "host" \/ r \in Halves
      BY <3>4, CmdIs
    <3>q. QED
      BY <3>1, <3>5 DEF Rules, Halves
  <2>3. rules[f] = <<>>
    BY <2>2, EmptyList DEF Types
  <2>q. QED
    BY <1>1, <1>2, <1>4, <1>5, <2>1, <2>3
<1>q. QED
  BY <1>1, <1>3, <1>4

\* The way of a packet on Linux: the rule for the tunnel takes it, unless that for
\* the main table is in front and has a route for it.
LEMMA WayOfRules ==
    ASSUME NEW f, NEW half, NEW toServer \in BOOLEAN,
           rules[f] \in {<< "tunnel" >>, << "main" >>, << "main", "tunnel" >>}
    PROVE  /\ toServer /\ host # NoGateway /\ rules[f] # << "tunnel" >> =>
                  Way(f, half, toServer) = host
           /\ ~toServer /\ rules[f] # << "main" >> /\ Cmd("table", f) \in tunRoutes =>
                  Way(f, half, toServer) = "tunnel"
<1> DEFINE hits == {i \in DOMAIN rules[f] : Matches(rules[f][i], f, toServer)}
<1>1. Way(f, half, toServer) =
          IF hits # {} THEN Out(rules[f][Min(hits)]) ELSE Main(f, half, toServer)
  BY DEF Way
<1>2. \A i : i \in hits <=> i \in DOMAIN rules[f] /\ Matches(rules[f][i], f, toServer)
  OBVIOUS
<1>3. ASSUME NEW i \in Nat, i \in hits, hits \subseteq {i, i + 1}
      PROVE  Way(f, half, toServer) = Out(rules[f][i])
  <2>1. \A j \in hits : (\A k \in hits : j <= k) <=> j = i
    BY <1>3
  <2>2. Min(hits) = i
    BY <1>3, <2>1 DEF Min
  <2>q. QED
    BY <1>1, <1>3, <2>2
<1> HIDE DEF hits
<1>4. CASE toServer /\ host # NoGateway /\ rules[f] # << "tunnel" >>
  <2>1. 1 \in DOMAIN rules[f] /\ DOMAIN rules[f] \subseteq {1, 2} /\ rules[f][1] = "main"
    BY <1>4
  <2>2. 1 \in hits /\ hits \subseteq {1, 1 + 1}
    BY <1>2, <1>4, <2>1 DEF Matches
  <2>q. QED
    BY <1>3, <1>4, <2>1, <2>2 DEF Out
<1>5. CASE ~toServer /\ Cmd("table", f) \in tunRoutes /\ rules[f] = << "tunnel" >>
  <2>1. DOMAIN rules[f] = {1} /\ rules[f][1] = "tunnel"
    BY <1>5
  <2>2. 1 \in hits /\ hits \subseteq {1, 1 + 1}
    BY <1>2, <1>5, <2>1 DEF Matches
  <2>q. QED
    BY <1>3, <2>1, <2>2 DEF Out
<1>6. CASE ~toServer /\ Cmd("table", f) \in tunRoutes /\ rules[f] = << "main", "tunnel" >>
  <2>1. DOMAIN rules[f] = {1, 2} /\ rules[f][1] = "main" /\ rules[f][2] = "tunnel"
    BY <1>6
  <2>2. Matches("tunnel", f, toServer) /\ ~Matches("main", f, toServer)
    BY <1>6 DEF Matches
  <2>3. 2 \in hits /\ hits \subseteq {2, 2 + 1}
    BY <1>2, <2>1, <2>2
  <2>q. QED
    BY <1>3, <1>6, <2>1, <2>3 DEF Out
<1>q. QED
  BY <1>4, <1>5, <1>6

\* Without rules a packet goes by the main table alone.
LEMMA WayByMain ==
    ASSUME NEW f, NEW half, NEW toServer, rules[f] = <<>>
    PROVE  Way(f, half, toServer) = Main(f, half, toServer)
<1>1. {i \in DOMAIN rules[f] : Matches(rules[f][i], f, toServer)} = {}
  OBVIOUS
<1>q. QED
  BY <1>1 DEF Way

\* What SetClientDefaultRoute has set up leads the host's packets into the
\* tunnel, whatever was there before, whichever other command has failed.
THEOREM TunnelCarriesAll == Spec => []TunnelCarries
<1>1. ASSUME IInv, io.at = "up", stop.at = "none", NEW f \in Families, NEW half \in Halves,
             Leads(f, half) \cap lacks = {}
      PROVE  Way(f, half, FALSE) = "tunnel"
  <2>1. CASE platform = "linux"
    <3>1. Cmd("table", f) \notin lacks /\ Cmd("tunnel", f) \notin lacks
      BY <1>1, <2>1 DEF Leads
    <3>2. /\ rules[f] \in {<< "tunnel" >>, << "main", "tunnel" >>}
          /\ Cmd("table", f) \in tunRoutes
      BY <1>1, <2>1, <3>1, UpRouting
    <3>3. rules[f] # << "main" >>
      BY <3>2
    <3>q. QED
      BY <3>2, <3>3, WayOfRules
  <2>2. CASE platform = "osx"
    <3>1. Cmd(half, f) \notin lacks
      BY <1>1, <2>2 DEF Leads
    <3>2. Way(f, half, FALSE) = Main(f, half, FALSE) /\ Cmd(half, f) \in tunRoutes
      BY <1>1, <2>2, <3>1, UpRouting, WayByMain
    <3>q. QED
      BY <3>2 DEF Main
  <2>q. QED
    BY <1>1, <2>1, <2>2 DEF IInv, Types
<1>2. IInv => TunnelCarries
  BY <1>1 DEF TunnelCarries
<1>q. QED
  BY <1>2, Invariance, PTL

\* And the packets of the tunnel itself past it, by the gateway read for this
\* connection, if the two commands for that have not failed and the link has not
\* taken the route away.
THEOREM TunnelIsBypassed == Spec => []ServerBypasses
<1>1. ASSUME IInv, io.at = "up", stop.at = "none", NEW half \in Halves,
             {Cmd("host", 4), Cmd("main", 4)} \cap lacks = {}
      PROVE  io.via \in Gateways /\ Way(4, half, TRUE) = io.via
  <2>0. Cmd("host", 4) \notin lacks /\ Cmd("main", 4) \notin lacks /\ 4 \in Families
    BY <1>1, FamiliesAre
  <2>3. host = io.via /\ io.via \in Gateways /\ host # NoGateway
    BY <1>1, <2>0, UpRouting, ClientRoutesAssumption
  <2>1. CASE platform = "linux"
    <3>1. rules[4] \in {<< "main" >>, << "main", "tunnel" >>}
      BY <1>1, <2>0, <2>1, UpRouting
    <3>2. rules[4] # << "tunnel" >>
      BY <3>1
    <3>q. QED
      BY <2>3, <3>1, <3>2, WayOfRules
  <2>2. CASE platform = "osx"
    <3>1. Way(4, half, TRUE) = Main(4, half, TRUE)
      BY <1>1, <2>0, <2>2, UpRouting, WayByMain
    <3>q. QED
      BY <2>3, <3>1 DEF Main
  <2>q. QED
    BY <1>1, <2>1, <2>2 DEF IInv, Types
<1>2. IInv => ServerBypasses
  BY <1>1 DEF ServerBypasses, Halves
<1>q. QED
  BY <1>2, Invariance, PTL
=============================================================================
