------------------------------ MODULE MCRoundTrip ------------------------------
(* A root with up to three levels, links and a closed directory in it, and        *)
(* DataPaths that name a part of it in every way.                             *)
EXTENDS RoundTrip

r == <<114>>
a == <<97>>
aDash == <<97, 45>>
b == <<98>>
c == <<99>>
x == <<120>>
MCRoot == <<r>>

Dir == [type |-> "directory", target |-> NoTarget, closed |-> FALSE, defines |-> FALSE,
        unreadable |-> FALSE, unseen |-> FALSE]
Secret(object) == [object EXCEPT !.unreadable = TRUE]
Hidden(object) == [Secret(object) EXCEPT !.unseen = TRUE]
Shut == [Dir EXCEPT !.closed = TRUE]
File == [Dir EXCEPT !.type = "regular"]
Fifo == [Dir EXCEPT !.type = "other"]
Config == [File EXCEPT !.defines = TRUE]
LinkTo(names) == [Dir EXCEPT !.type = "symlink", !.target = [absolute |-> FALSE, names |-> names]]

\* mods.conf alone, or mods.d with a file that defines the module or does not.
Configurations ==
    {<<r, ModsConf>> :> Config, <<r, ModsD>> :> Dir @@ <<r, ModsD, x>> :> Config}

OtherConfigurations ==
    {<<r, ModsConf>> :> File, <<r, ModsConf>> :> LinkTo(<<x>>),
     <<r, ModsConf>> :> Dir @@ <<r, ModsD>> :> Dir @@ <<r, ModsD, x>> :> LinkTo(<<x>>),
     <<r, ModsD>> :> Dir @@ <<r, ModsD, x>> :> Secret(Config),
     <<r, ModsD>> :> Dir @@ <<r, ModsD, x>> :> Hidden(Config),
     <<r, ModsD>> :> Dir @@ <<r, ModsD, x>> :> Config @@ <<r, ModsD, c>> :> Secret(Dir),
     <<r, ModsD>> :> Secret(Dir) @@ <<r, ModsD, x>> :> Config,
     <<r, ModsConf>> :> Hidden(Config) @@ <<r, ModsD>> :> Dir @@ <<r, ModsD, x>> :> Config,
     <<r, ModsConf>> :> Fifo @@ <<r, ModsD>> :> Dir @@ <<r, ModsD, x>> :> Config,
     <<r, ModsD>> :> Config,
     <<r, ModsD>> :> LinkTo(<<c>>) @@ <<r, c>> :> Dir @@ <<r, c, x>> :> Config,
     <<r>> :> Dir}

\* The module's data.
Inside ==
    {<<r, a>> :> Dir @@ <<r, a, b>> :> top @@ <<r, a, b, c>> :> File : top \in {Dir, Shut}}
    \cup {<<r, a>> :> Shut @@ <<r, a, b>> :> inner : inner \in {Shut, LinkTo(<<c>>)}}
    \cup {<<r, a>> :> top : top \in {File, LinkTo(<<b>>), LinkTo(<<DotDot, b>>)}}
    \cup {<<r>> :> Dir}

\* Data of which something cannot be looked at, opened, entered or captured.
Obstructed ==
    {<<r, a>> :> top @@ <<r, a, b>> :> File :
         top \in {Secret(Dir), Hidden(Dir), Secret(Shut)}}
    \cup {<<r, a>> :> Dir @@ <<r, a, b>> :> inner @@ <<r, a, b, c>> :> File
             @@ <<r, a, c>> :> Dir @@ <<r, a, c, x>> :> File :
         inner \in {Secret(Dir), Hidden(Dir)}}
    \cup {<<r, a>> :> Dir @@ <<r, a, b>> :> inner @@ <<r, a, c>> :> File :
         inner \in {Secret(File), Hidden(File), Fifo, Secret(LinkTo(<<c>>))}}
    \cup {<<r, a>> :> top @@ <<r, aDash>> :> File :
         top \in {Hidden(File), Secret(File), Fifo}}

\* Something beside it whose name begins with it, and the target of a link.
Beside == {<<r>> :> Dir, <<r, aDash>> :> File,
           <<r, aDash>> :> Dir @@ <<r, b>> :> Dir @@ <<r, b, c>> :> File}

MCTrees ==
    {<<r>> :> Dir @@ configuration @@ inside @@ beside :
         configuration \in Configurations, inside \in Inside, beside \in Beside}
    \cup {<<r>> :> Dir @@ configuration @@ (<<r, a>> :> File) :
         configuration \in OtherConfigurations}
    \cup {<<r>> :> Dir @@ <<r, ModsConf>> :> Config @@ data : data \in Obstructed}
    \cup {<<r>> :> Secret(Dir) @@ <<r, ModsConf>> :> Config @@ (<<r, aDash>> :> File)}

Named(names, place, slash) ==
    [absolute |-> FALSE, names |-> names, place |-> place, slash |-> slash]

MCDataPaths ==
    {Named(<<>>, <<>>, FALSE),
     Named(<<a>>, <<r, a>>, FALSE),
     Named(<<Dot, a, EmptyName>>, <<r, a>>, TRUE),
     Named(<<a, b, DotDot>>, <<r, a>>, TRUE),
     Named(<<a, b>>, <<r, a, b>>, FALSE),
     Named(<<a, DotDot>>, <<r>>, TRUE),
     Named(<<ModsD>>, <<r, ModsD>>, FALSE),
     Named(<<DotDot, a>>, <<>>, FALSE),
     Named(<<DotDot, r, a>>, <<r, a>>, FALSE),
     [Named(<<r, a, EmptyName>>, <<r, a>>, TRUE) EXCEPT !.absolute = TRUE],
     [Named(<<a>>, <<>>, FALSE) EXCEPT !.absolute = TRUE]}

\* Streams of two artifacts with other contents.
Written(type) == [path |-> <<x>>, type |-> type, closed |-> FALSE, target |-> NoTarget,
                  data |-> IF type = "regular" THEN <<EmptyName>> ELSE <<>>]
MCOtherStreams == {<<Written("directory"), Written("regular")>>, <<Written("regular")>>}
=============================================================================
