----------------------------- MODULE MCPipeline -----------------------------
(***************************************************************************)
(* Small instances of the program for TLC.                                 *)
(***************************************************************************)
EXTENDS Wyrtloom, TLC

\* Every way a call can fail, the status codes on either side of each line that
\* generate draws, and texts with an object first, last, twice or not at all.
MCReply ==
  [fate : {"timeout", "broken"}, status : {0}, body : {<<>>}]
    \cup [fate : {"answered"}, status : {401, 429, 400}, body : {<<"done">>}]
    \cup [fate : {"answered"}, status : {200},
          body : {<<"too large">>, <<"foreign">>, <<"brace", "done">>, <<"done", "prose">>,
                  <<"done", "blocked">>, <<"blocked", "done">>, <<"else">>, <<>>}]
    \cup [fate : {"answered"}, status : {399}, body : {<<"done">>}]

MCTyped ==
  {<<>>, <<"unreadable">>, <<"s">>, <<"f">>, <<"free", "s">>, <<"skip">>,
   <<"0">>, <<"1">>, <<"2">>, <<"3">>}

-----------------------------------------------------------------------------
\* SecurityPolicy::permissive and CoreContractVersions::v0_1.
MCPolicy ==
  [read |-> {<<"", "tmp">>, <<".">>}, write |-> {<<"", "tmp", "">>, <<".">>},
   network |-> {<<"localhost">>}, shell |-> FALSE, git |-> TRUE]
MCCore ==
  [c \in {"kanban", "provider", "sandbox", "logger", "escalation", "bus", "persistence",
          "users", "client_auth"} |-> [major |-> 0, minor |-> 1]]
MCDotted == {"..", "v1..v2"}
MCCwd == <<"home", "wyrtloom">>

Plugin(class, caps, contract, minor) ==
  [name |-> [length |-> 20, plain |-> TRUE], class |-> class, capabilities |-> caps,
   implements |-> {[contract |-> contract, version |-> [major |-> 0, minor |-> minor]]}]
WriteHere == [kind |-> "FileWrite", target |-> <<".">>]
Localhost == [kind |-> "Network", target |-> <<"localhost">>]

\* The six of main().
MCShipped ==
  <<Plugin("Unsafe", {WriteHere}, "kanban", 2), Plugin("Unsafe", {Localhost}, "provider", 1),
    Plugin("Safe", {}, "sandbox", 1), Plugin("Unsafe", {WriteHere}, "logger", 1),
    Plugin("Safe", {}, "escalation", 1), Plugin("Safe", {}, "bus", 1)>>

\* Others, each with one capability or one peculiarity.
Paths ==
  {<<"", "tmp">>, <<"", "tmp", "a">>, <<"", "tmp", "..", "etc">>, <<"", "tmp2">>, <<"tmp">>,
   <<".", "", "a">>, <<".", "..", "b">>, <<".", "v1..v2">>}
Hosts == {<<"localhost">>, <<"api", "localhost">>, <<"apilocalhost">>, <<"localhost", "org">>}
Capabilities ==
  [kind : {"FileRead", "FileWrite"}, target : Paths] \cup [kind : {"Network"}, target : Hosts]
    \cup {[kind |-> "Shell", target |-> <<>>], [kind |-> "Git", target |-> <<>>]}
MCManifest ==
  {Plugin("Unsafe", {cap}, "kanban", 1) : cap \in Capabilities}
    \cup {Plugin("Safe", {WriteHere}, "logger", 1), Plugin("Safe", {}, "logger", 0),
          Plugin("Safe", {}, "dashboard", 1), Plugin("Unsafe", {WriteHere, Localhost}, "bus", 3)}
    \cup {[Plugin("Safe", {}, "bus", 1) EXCEPT !.name = [length |-> n, plain |-> p]] :
            n \in {0, 1, 64, 65}, p \in BOOLEAN}
    \cup {[Plugin("Safe", {}, "bus", 1) EXCEPT !.implements = {}]}
=============================================================================
