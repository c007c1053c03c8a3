------------------------------ MODULE MCShell ------------------------------
(***************************************************************************)
(* Instances of ShellCommands for TLC: what the user types.                *)
(***************************************************************************)
EXTENDS ShellCommands

PlainLines == {
    <<"ls", "&&", "ls", "||", "nocmd">>,
    <<"nocmd", ";", "ls", "||", "ls">>,
    <<"cd", "dir", "&&", "ls", ">", "file", "|", "ls", "&">> }

ConditionalLines == {
    << <<"ls">>, <<"then", "ls">>, <<"else", "cd">> >>,
    << <<"ls", "&">>, <<"then", "ls">>, <<"fi">> >>,
    << <<"ls">>, <<"else", "ls">>, <<"fi">> >> }
=============================================================================
